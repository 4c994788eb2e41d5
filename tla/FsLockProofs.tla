---------------------------- MODULE FsLockProofs ----------------------------
(***************************************************************************)
(* The file-system lock excludes for every number of processes, crashes    *)
(* and pauses, as long as no reclaimer renames a directory in use; and if  *)
(* nobody pauses beyond the lease, as long as none renames a successor's.  *)
(***************************************************************************)
EXTENDS FsLock, TLAPS

\* Processes whose next file-system call relies on the directory being theirs.
Users == {p \in Process : pc[p] \in {"made", "held", "failed", "listed", "unlinked"}}

\* The inductive invariant.  Exclusion has to cover the whole tenancy, from
\* mkdir to rmdir, and every tenancy has a directory on the disk.
OneTenancy ==
    /\ \A p, q \in Users : p = q
    /\ Users # {} => lock # "none"
    /\ \A p \in Holders : p \in owners

\* While every live user keeps its heartbeat, a directory that has grown stale,
\* or that somebody judged and that is still there, is one nobody uses.
Prompt ==
    /\ misfired # "stalled"
    /\ lock = "stale" \/ watched # {} => lock # "none" /\ Abandoned

Inv ==
    /\ TypeOK
    /\ misfired = "no" => OneTenancy
    /\ ~MayStall => Prompt

\* Nobody holds anything at the start.
LEMMA InitInv == Init => Inv
  <1> SUFFICES ASSUME Init PROVE Inv
    OBVIOUS
  <1>0. MaxCrashes \in Nat
    BY LockAssumption
  <1>1. TypeOK
    <2>1. crashes \in 0..MaxCrashes
      BY <1>0 DEF Init
    <2> QED
      BY <2>1 DEF Init, TypeOK, Control
  <1>2. \A p \in Process : pc[p] = "idle"
    BY DEF Init
  <1> QED
    BY <1>1, <1>2 DEF Init, Inv, OneTenancy, Prompt, Users, Holders

\* Every step of every process keeps the types.
LEMMA TypeStep == TypeOK /\ [Next]_vars => TypeOK'
  <1> SUFFICES ASSUME TypeOK, [Next]_vars PROVE TypeOK'
    OBVIOUS
  <1> USE LockAssumption DEF TypeOK, Control
  <1>1. CASE UNCHANGED vars
    BY <1>1 DEF vars, history
  <1>2. CASE Expire
    BY <1>2 DEF Expire, history
  <1>3. ASSUME NEW p \in Process, Acquiring(p) PROVE TypeOK'
    BY <1>3 DEF Acquiring, MakeDirectory, Judge, Quarantine, WriteOwner, WriteOwnerFails,
                ListOwners, UnlinkListed, Misfire, Goto, history
  <1>4. ASSUME NEW p \in Process, Releasing(p) PROVE TypeOK'
    BY <1>4 DEF Releasing, UnlinkOwner, RemoveDirectory, Goto, history
  <1>5. ASSUME NEW p \in Process, Heartbeat(p) PROVE TypeOK'
    BY <1>5 DEF Heartbeat, history
  <1>6. ASSUME NEW p \in Process, Crash(p) PROVE TypeOK'
    BY <1>6 DEF Crash, Goto
  <1> QED
    BY <1>1, <1>2, <1>3, <1>4, <1>5, <1>6 DEF Next

\* No step but a misfiring rename lets a second process into the tenancy.
LEMMA TenancyStep ==
    TypeOK /\ (misfired = "no" => OneTenancy) /\ [Next]_vars
        => (misfired = "no" => OneTenancy)'
  <1> SUFFICES ASSUME TypeOK, misfired = "no" => OneTenancy, [Next]_vars, misfired' = "no"
               PROVE  OneTenancy'
    OBVIOUS
  <1> USE LockAssumption DEF TypeOK, OneTenancy, Users, Holders
  <1>1. CASE UNCHANGED vars
    BY <1>1 DEF vars, history
  <1>2. CASE Expire
    BY <1>2 DEF Expire, history
  <1>3. ASSUME NEW p \in Process, Acquiring(p) PROVE OneTenancy'
    <2>1. CASE MakeDirectory(p)
      BY <2>1 DEF MakeDirectory, Goto, history
    <2>2. CASE Judge(p)
      BY <2>2 DEF Judge, Goto
    <2>3. CASE Quarantine(p)
      <3>1. misfired = "no" /\ (lock # "none" => Abandoned)
        BY <2>3 DEF Quarantine, Misfire
      <3>2. Users = {}
        BY <3>1 DEF Abandoned
      <3> QED
        BY <2>3, <3>2 DEF Quarantine, Goto
    <2>4. CASE WriteOwner(p)
      BY <2>4 DEF WriteOwner, Goto, history
    <2>5. CASE WriteOwnerFails(p)
      BY <2>5 DEF WriteOwnerFails, Goto, history
    <2>6. CASE ListOwners(p)
      BY <2>6 DEF ListOwners, Goto, history
    <2>7. ASSUME NEW q \in Process, UnlinkListed(p, q) PROVE OneTenancy'
      BY <2>7 DEF UnlinkListed, Goto, history
    <2> QED
      BY <1>3, <2>1, <2>2, <2>3, <2>4, <2>5, <2>6, <2>7 DEF Acquiring
  <1>4. ASSUME NEW p \in Process, Releasing(p) PROVE OneTenancy'
    <2>1. CASE UnlinkOwner(p)
      BY <2>1 DEF UnlinkOwner, Goto, history
    <2>2. CASE RemoveDirectory(p)
      BY <2>2 DEF RemoveDirectory, Goto
    <2> QED
      BY <1>4, <2>1, <2>2 DEF Releasing
  <1>5. ASSUME NEW p \in Process, Heartbeat(p) PROVE OneTenancy'
    BY <1>5 DEF Heartbeat, history
  <1>6. ASSUME NEW p \in Process, Crash(p) PROVE OneTenancy'
    BY <1>6 DEF Crash, Goto
  <1> QED
    BY <1>1, <1>2, <1>3, <1>4, <1>5, <1>6 DEF Next

\* Without pauses beyond the lease, a directory nobody uses stays so until it is
\* renamed away, so the rename that a judgement leads to can only misfire on
\* another directory.
LEMMA PromptStep ==
    ASSUME ~MayStall, TypeOK, Prompt, [Next]_vars
    PROVE  Prompt'
  <1> USE DEF TypeOK, Prompt, Abandoned
  <1>1. CASE UNCHANGED vars
    BY <1>1 DEF vars, history
  <1>2. CASE Expire
    BY <1>2 DEF Expire, history
  <1>3. ASSUME NEW p \in Process, Acquiring(p) PROVE Prompt'
    <2>1. CASE MakeDirectory(p)
      BY <2>1 DEF MakeDirectory, Goto, history
    <2>2. CASE Judge(p)
      BY <2>2 DEF Judge, Goto
    <2>3. CASE Quarantine(p)
      BY <2>3 DEF Quarantine, Misfire, Goto
    <2>4. CASE WriteOwner(p)
      BY <2>4 DEF WriteOwner, Goto, history
    <2>5. CASE WriteOwnerFails(p)
      BY <2>5 DEF WriteOwnerFails, Goto, history
    <2>6. CASE ListOwners(p)
      BY <2>6 DEF ListOwners, Goto, history
    <2>7. ASSUME NEW q \in Process, UnlinkListed(p, q) PROVE Prompt'
      BY <2>7 DEF UnlinkListed, Goto, history
    <2> QED
      BY <1>3, <2>1, <2>2, <2>3, <2>4, <2>5, <2>6, <2>7 DEF Acquiring
  <1>4. ASSUME NEW p \in Process, Releasing(p) PROVE Prompt'
    <2>1. CASE UnlinkOwner(p)
      BY <2>1 DEF UnlinkOwner, Goto, history
    <2>2. CASE RemoveDirectory(p)
      BY <2>2 DEF RemoveDirectory, Goto
    <2> QED
      BY <1>4, <2>1, <2>2 DEF Releasing
  <1>5. ASSUME NEW p \in Process, Heartbeat(p) PROVE Prompt'
    BY <1>5 DEF Heartbeat, history
  <1>6. ASSUME NEW p \in Process, Crash(p) PROVE Prompt'
    BY <1>6 DEF Crash, Goto
  <1> QED
    BY <1>1, <1>2, <1>3, <1>4, <1>5, <1>6 DEF Next

\* Inv is inductive.
LEMMA Invariance == Spec => []Inv
  <1>1. Inv /\ [Next]_vars => Inv'
    BY TypeStep, TenancyStep, PromptStep DEF Inv
  <1> QED
    BY <1>1, InitInv, PTL DEF Spec

\* A misfire that is no breach has not happened.
LEMMA Untouched == Inv /\ misfired \notin Breaches => misfired = "no"
  BY DEF Inv, TypeOK, Prompt, Breaches

\* For any number of contenders, crashes and pauses the lock admits two holders
\* only after a rename took the directory of a successor of the one judged or,
\* if live processes may pause beyond the lease, of a process that had paused.
THEOREM Exclusion == Spec => []OnlyMisfireBreaksExclusion
  <1>1. Inv => OnlyMisfireBreaksExclusion
    BY Untouched DEF Inv, OneTenancy, OnlyMisfireBreaksExclusion, MutualExclusion, Users, Holders
  <1> QED
    BY <1>1, Invariance, PTL

\* Until such a rename, the owner token of every holder is in the directory, so
\* a late release cannot remove a successor's lock.
THEOREM Ownership == Spec => []HolderIsOwner
  <1>1. Inv => HolderIsOwner
    BY Untouched DEF Inv, OneTenancy, HolderIsOwner, Users, Holders
  <1> QED
    BY <1>1, Invariance, PTL
=============================================================================
