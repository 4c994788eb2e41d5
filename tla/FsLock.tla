------------------------------- MODULE FsLock -------------------------------
(***************************************************************************)
(* The cross-process lock of packages/llm-ledger-outbox: a directory made  *)
(* with mkdir, holding one "<token>.owner" file per owner.  A contender    *)
(* that finds the directory judges its age by the owner file's mtime; an   *)
(* old one is renamed away (quarantined) and mkdir is tried again.         *)
(*                                                                         *)
(* Every file-system call is one step; the quarantined directory is        *)
(* private to its reclaimer, so its removal is not a step of its own.      *)
(***************************************************************************)
EXTENDS Naturals, FiniteSets

CONSTANTS Process,       \* attempts to hold the lock of one key
          MaxCrashes,
          MayStall       \* TRUE: a live process may pause for longer than leaseMs

ASSUME LockAssumption ==
    /\ MaxCrashes \in Nat
    /\ MayStall \in BOOLEAN

VARIABLES lock,       \* the directory at lockPath: none, or its age against leaseMs
          owners,     \* the owner files in it
          pc,         \* where each process is
          doomed,     \* the owner files a clean-up has listed and not yet unlinked
          crashes,
          watched,    \* history: who judged the very directory that is at lockPath
          misfired    \* history: the first rename of a directory in use, see Misfire

history == <<watched, misfired>>
vars == <<lock, owners, pc, doomed, crashes, history>>

Control == {"idle",        \* outside, or waiting LOCK_RETRY_DELAY_MS
            "made",        \* mkdir succeeded, no owner file yet
            "held",        \* owner file synced: the guarded operation runs
            "judged",      \* found the lock older than leaseMs, about to rename it
            "failed",      \* acquisition broke after mkdir, about to clean up
            "listed",      \* clean-up has read the directory, unlinks what it found
            "unlinked",    \* the owner files are gone, about to rmdir
            "crashed"}

TypeOK ==
    /\ lock \in {"none", "fresh", "stale"}
    /\ owners \subseteq Process
    /\ lock = "none" => owners = {}
    /\ pc \in [Process -> Control]
    /\ doomed \in [Process -> SUBSET Process]
    /\ crashes \in 0..MaxCrashes
    /\ watched \subseteq Process
    /\ misfired \in {"no", "successor", "stalled"}

Init ==
    /\ lock = "none"
    /\ owners = {}
    /\ pc = [p \in Process |-> "idle"]
    /\ doomed = [p \in Process |-> {}]
    /\ crashes = 0
    /\ watched = {} /\ misfired = "no"

\* Nobody alive is using the directory at lockPath.
Abandoned ==
    /\ \A p \in owners : pc[p] = "crashed"
    /\ \A p \in Process : pc[p] \notin {"made", "failed", "listed", "unlinked"}

Goto(p, label) == pc' = [pc EXCEPT ![p] = label]

-----------------------------------------------------------------------------
(* acquireFilesystemLock *)

\* Mutant: mkdir with recursive, which does not report an existing directory.
MakeDirectoryRecursive(p) ==
    /\ pc[p] = "idle"
    /\ lock' = IF lock = "none" THEN "fresh" ELSE lock
    /\ Goto(p, "made")
    /\ UNCHANGED <<owners, doomed, crashes, history>>

\* Mutant: without the "created" flag EEXIST is cleaned up like a broken acquisition.
MakeDirectoryUnflagged(p) ==
    /\ pc[p] = "idle"
    /\ lock' = IF lock = "none" THEN "fresh" ELSE lock
    /\ Goto(p, IF lock = "none" THEN "made" ELSE "failed")
    /\ UNCHANGED <<owners, doomed, crashes, history>>

MakeDirectory(p) ==
    /\ pc[p] = "idle"
    /\ lock = "none"
    /\ lock' = "fresh"
    /\ Goto(p, "made")
    /\ UNCHANGED <<owners, doomed, crashes, history>>

\* Mutant: the age of the directory is not compared with the lease.
JudgeAnyAge(p) ==
    /\ pc[p] = "idle"
    /\ lock # "none"
    /\ watched' = watched \union {p}
    /\ Goto(p, "judged")
    /\ UNCHANGED <<lock, owners, doomed, crashes, misfired>>

\* mkdir said EEXIST; lockModifiedAt is older than the lease.  (A younger
\* lock, or one that vanished in between, leaves the process where it was.)
Judge(p) ==
    /\ pc[p] = "idle"
    /\ lock = "stale"
    /\ watched' = watched \union {p}
    /\ Goto(p, "judged")
    /\ UNCHANGED <<lock, owners, doomed, crashes, misfired>>

\* Mutant: the stale directory is never moved out of the way.
QuarantineNothing(p) ==
    /\ pc[p] = "judged"
    /\ Goto(p, "idle")
    /\ UNCHANGED <<lock, owners, doomed, crashes, history>>

\* A rename takes a directory that a live process is using: the one that was
\* judged, whose user had paused beyond the lease, or another one in its place.
Misfire(p) == IF lock = "none" \/ Abandoned THEN "no"
              ELSE IF p \in watched THEN "stalled" ELSE "successor"

\* rename(lockPath, quarantine) takes whatever directory is there by now.
Quarantine(p) ==
    /\ pc[p] = "judged"
    /\ lock' = "none"
    /\ owners' = {}
    /\ misfired' = IF misfired = "no" THEN Misfire(p) ELSE misfired
    /\ watched' = {}
    /\ Goto(p, "idle")
    /\ UNCHANGED <<doomed, crashes>>

\* open(ownerPath, "wx") resolves the path again: the directory may by now be
\* another process's, or gone (ENOENT).
WriteOwner(p) ==
    /\ pc[p] = "made"
    /\ lock # "none"
    /\ lock' = "fresh"
    /\ owners' = owners \union {p}
    /\ Goto(p, "held")
    /\ UNCHANGED <<doomed, crashes, history>>

\* The directory is gone, or the disk refuses the owner file.
WriteOwnerFails(p) ==
    /\ pc[p] = "made"
    /\ Goto(p, "failed")
    /\ UNCHANGED <<lock, owners, doomed, crashes, history>>

\* removeOwnedLockDirectory(lockPath): list the directory that is there now,
\* unlink the owner files one by one, then rmdir as a release does.
ListOwners(p) ==
    /\ pc[p] = "failed"
    /\ doomed' = [doomed EXCEPT ![p] = owners]
    /\ Goto(p, IF owners = {} THEN "unlinked" ELSE "listed")
    /\ UNCHANGED <<lock, owners, crashes, history>>

UnlinkListed(p, q) ==
    /\ pc[p] = "listed"
    /\ q \in doomed[p]
    /\ doomed' = [doomed EXCEPT ![p] = @ \ {q}]
    /\ owners' = owners \ {q}
    /\ lock' = IF q \in owners THEN "fresh" ELSE lock
    /\ Goto(p, IF doomed[p] = {q} THEN "unlinked" ELSE "listed")
    /\ UNCHANGED <<crashes, history>>

-----------------------------------------------------------------------------
(* releaseFilesystemLock, heartbeat and time *)

UnlinkOwner(p) ==
    /\ pc[p] = "held"
    /\ IF p \in owners
       THEN /\ lock' = "fresh"
            /\ owners' = owners \ {p}
            /\ Goto(p, "unlinked")
       ELSE /\ Goto(p, "idle")                        \* ENOENT: not ours any more
            /\ UNCHANGED <<lock, owners>>
    /\ UNCHANGED <<doomed, crashes, history>>

\* rmdir: ENOENT and ENOTEMPTY are ignored.
RemoveDirectory(p) ==
    /\ pc[p] = "unlinked"
    /\ lock' = IF owners = {} THEN "none" ELSE lock
    /\ watched' = IF owners = {} THEN {} ELSE watched
    /\ Goto(p, "idle")
    /\ UNCHANGED <<owners, doomed, crashes, misfired>>

\* The timer of a live holder sets the owner file's mtime to now.
Heartbeat(p) ==
    /\ pc[p] = "held"
    /\ p \in owners
    /\ lock = "stale"
    /\ lock' = "fresh"
    /\ UNCHANGED <<owners, pc, doomed, crashes, history>>

\* leaseMs passes without a heartbeat.
Expire ==
    /\ lock = "fresh"
    /\ MayStall \/ Abandoned
    /\ lock' = "stale"
    /\ UNCHANGED <<owners, pc, doomed, crashes, history>>

Crash(p) ==
    /\ pc[p] # "crashed"
    /\ crashes < MaxCrashes
    /\ crashes' = crashes + 1
    /\ Goto(p, "crashed")
    /\ doomed' = [doomed EXCEPT ![p] = {}]
    /\ watched' = watched \ {p}
    /\ UNCHANGED <<lock, owners, misfired>>

-----------------------------------------------------------------------------
Acquiring(p) == MakeDirectory(p) \/ Judge(p) \/ Quarantine(p) \/ WriteOwner(p)
                \/ WriteOwnerFails(p) \/ ListOwners(p) \/ \E q \in Process : UnlinkListed(p, q)
Releasing(p) == UnlinkOwner(p) \/ RemoveDirectory(p)

Next == \/ Expire
        \/ \E p \in Process : Acquiring(p) \/ Releasing(p) \/ Heartbeat(p) \/ Crash(p)

Spec == Init /\ [][Next]_vars

\* Contenders keep coming (the drain is polled), guarded operations end, and
\* time passes.
Fairness ==
    /\ WF_vars(Expire)
    /\ \A p \in Process : WF_vars(Acquiring(p)) /\ WF_vars(Releasing(p))

FairSpec == Spec /\ Fairness

Holders == {p \in Process : pc[p] = "held"}

\* The guarded operation of one key runs in at most one process: what the
\* drain's header promises ("serializes each reservation across concurrent
\* producer/drainer processes").
MutualExclusion == \A p, q \in Holders : p = q

\* What can break the exclusion: a rename that comes so late that it takes the
\* directory of a successor, and, if live processes may pause for longer than
\* the lease, one that takes the directory of a process that did.
Breaches == IF MayStall THEN {"successor", "stalled"} ELSE {"successor"}

\* Two holders are possible only after such a rename: nothing else in acquire,
\* clean-up and release, in any interleaving, lets a second one in, and a
\* process that keeps its heartbeat never loses the directory that was judged.
OnlyMisfireBreaksExclusion == misfired \notin Breaches => MutualExclusion

\* While the race has not happened, a holder's owner file is in the lock
\* directory, so its own release, and nobody else's, frees it.
HolderIsOwner ==
    misfired \notin Breaches => \A p \in Holders : p \in owners

\* A lock left behind by a crash is taken over, whether its owner died before
\* or after it had written its file: neither the file of a dead process nor a
\* directory that nobody uses blocks the key for ever.
DeadOwnerEvicted ==
    /\ \A p \in Process : (pc[p] = "crashed" /\ p \in owners) ~> p \notin owners
    /\ (lock # "none" /\ Abandoned) ~> (lock = "none" \/ ~Abandoned)
=============================================================================
