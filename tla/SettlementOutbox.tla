-------------------------- MODULE SettlementOutbox --------------------------
(***************************************************************************)
(* The producer-side settlement spool (packages/llm-ledger-outbox) of one  *)
(* request key: DurableLlmLedger around one paid provider call, the files  *)
(* it keeps in pending/, processing/ and dead/, the drainers that replay   *)
(* them, and the ledger row of that key in Core as the HTTP client         *)
(* (packages/shared/src/llm-ledger.ts) sees it.                            *)
(*                                                                         *)
(* Requests share no file and no row, so one key is the whole model.       *)
(* Sections guarded by a file-system lock are single steps unless they     *)
(* call Core; module FsLock is about the lock itself.  Calls to Core may   *)
(* get lost or arrive after their caller stopped waiting.                  *)
(***************************************************************************)
EXTENDS Naturals, FiniteSets

CONSTANTS Drainer,
          MaxAttempts,     \* RetryConfiguration.maxAttempts
          MaxRuns,         \* times the request key is submitted
          MaxTrouble,      \* submissions and crashes together
          LateCalls,       \* calls to Core that may arrive after their sender gave up
          SlowProducer     \* TRUE: a live producer may outlast fallbackDelayMs and the leases

ASSUME SettlementAssumption ==
    /\ MaxAttempts \in Nat \ {0} /\ MaxRuns \in Nat /\ MaxTrouble \in Nat
    /\ SlowProducer \in BOOLEAN
    /\ LateCalls \subseteq {"reserve", "recover", "fallback", "exact"}

VARIABLES pending,      \* pending/<recordId>.json
          processing,   \* processing/<recordId>--claim-<token>.json
          claims,       \* claim tokens issued
          dead,         \* dead/<recordId>.json: the kind of the buried record
          falseCorrupt, \* ids buried as "corrupt"
          lock,         \* holders of the record lock and of the reservation lock
          prod,         \* the producer: control, freshness of its reservation, handle
          dr,           \* the drainers
          row,          \* status of the llm_spend row, with the close that decided it
          late,         \* calls whose sender gave up, still on their way to Core
          dispatched,   \* provider calls made under the key
          exactSaved,   \* history: some persistExact returned
          overrun,      \* history: a deadline passed while its producer was at work
          runs, crashes

files == <<pending, processing, claims, dead, falseCorrupt>>
core  == <<row, late>>
vars  == <<files, lock, prod, dr, core, dispatched, exactSaved, overrun, runs, crashes>>

\* digest("pre-reserve:<requestKey>") and digest("close:<reservationId>").
RecordId == {"pre", "close"}
Kind     == {"pre_reserve", "fallback", "exact"}
NoFile   == [kind |-> "none", attempts |-> 0]
File     == [kind : Kind, attempts : 0..MaxAttempts]
Claimed  == [claim : Nat, id : RecordId, kind : Kind, attempts : 0..MaxAttempts]
Key      == {"record", "reservation"}
Operation == {"reserve", "recover", "fallback", "exact"}
Row      == {"none", "denied", "reserved", "released", "fallback", "exact"}

Producer == [pc : {"idle", "marked", "denied", "reserved", "armed", "called", "exact",
                   "acknowledge", "retry", "reject"},
             fresh : BOOLEAN,
             handle : {<<"pending", id>> : id \in RecordId} \union ({"processing"} \X Nat)]

DrainerState == [pc : {"idle", "listed", "seen", "corrupt", "corruptSaved",
                       "claimed", "answered", "buried"},
                 todo : SUBSET RecordId, id : RecordId, key : Key, claim : Nat,
                 verdict : {"ok", "retry", "terminal"}]

TypeOK ==
    /\ pending \in [RecordId -> File \union {NoFile}]
    /\ processing \subseteq Claimed
    /\ claims \in Nat
    /\ dead \in [RecordId -> Kind \union {"none"}]
    /\ falseCorrupt \subseteq RecordId
    /\ lock \in [Key -> Drainer \union {"free", "orphan"}]
    /\ prod \in Producer
    /\ dr \in [Drainer -> DrainerState]
    /\ row \in Row
    /\ late \subseteq Operation
    /\ dispatched \in Nat
    /\ exactSaved \in BOOLEAN /\ overrun \in BOOLEAN
    /\ runs \in 0..MaxRuns
    /\ crashes \in 0..MaxTrouble

Init ==
    /\ pending = [i \in RecordId |-> NoFile]
    /\ processing = {}
    /\ claims = 0
    /\ dead = [i \in RecordId |-> "none"]
    /\ falseCorrupt = {}
    /\ lock = [k \in Key |-> "free"]
    /\ prod = [pc |-> "idle", fresh |-> FALSE, handle |-> <<"pending", "pre">>]
    /\ dr = [d \in Drainer |-> [pc |-> "idle", todo |-> {}, id |-> "pre", key |-> "record",
                                claim |-> 0, verdict |-> "ok"]]
    /\ row = "none"
    /\ late = {}
    /\ dispatched = 0
    /\ exactSaved = FALSE /\ overrun = FALSE
    /\ runs = 0
    /\ crashes = 0

Exists(id)  == pending[id] # NoFile
Free(k)     == lock[k] = "free"
Go(label)   == prod' = [prod EXCEPT !.pc = label]
Step(d, label) == dr' = [dr EXCEPT ![d].pc = label]

\* storedRecordLockKey: only a record with a reservation id uses its lock.
KeyOf(kind) == IF kind = "pre_reserve" THEN "record" ELSE "reservation"
OpOf(kind)  == IF kind = "pre_reserve" THEN "recover" ELSE kind

-----------------------------------------------------------------------------
(* Core: the row after a call, and what the client makes of the answer.     *)

\* Mutant: a close overwrites whatever closed the row before.
AfterOverwrites(op) ==
    CASE op = "reserve" -> IF row = "none" THEN {"reserved", "denied"} ELSE {row}
      [] op = "recover" -> IF row = "reserved" THEN {"released"} ELSE {row}
      [] OTHER          -> {op}

After(op) ==
    CASE op = "reserve" -> IF row = "none" THEN {"reserved", "denied"} ELSE {row}
      [] op = "recover" -> IF row = "reserved" THEN {"released"} ELSE {row}
      [] OTHER          -> IF row = "reserved" THEN {op} ELSE {row}

\* recoverPreDispatch treats a missing row as retryable; a close is accepted
\* from "reserved" or as an exact replay, anything else is a terminal 409.
\* (What stands before Core may refuse any call: Unbooked.)
Verdict(op) ==
    CASE op = "recover" -> IF row = "none" THEN "retry" ELSE "ok"
      [] OTHER          -> IF row \in {"reserved", op} THEN "ok" ELSE "terminal"

\* A close call and its outcome for the caller.
Answered(op, v) == v = Verdict(op) /\ row' \in After(op) /\ UNCHANGED late

\* Nothing is booked by now: no usable answer (closeError: to be repeated), or
\* a 4xx that no repetition changes.
Unbooked(op, v) ==
    /\ \/ v = "retry" /\ late' \in {late, late \union ({op} \intersect LateCalls)}
       \/ v = "terminal" /\ UNCHANGED late
    /\ UNCHANGED row

LateArrives(op) ==
    /\ op \in late
    /\ late' = late \ {op}
    /\ row' \in After(op)
    /\ UNCHANGED <<files, lock, prod, dr, dispatched, exactSaved, overrun, runs, crashes>>

-----------------------------------------------------------------------------
(* The producer: DurableLlmLedger and its caller.                           *)

Producing == UNCHANGED <<dr, overrun, runs, crashes>>

\* persistPreReserve: a marker that is still there is refreshed, any other
\* record under its id is a conflict (and the caller gets an error).
PersistPreReserve ==
    /\ prod.pc = "idle"
    /\ runs < MaxRuns /\ runs + crashes < MaxTrouble
    /\ Free("record")
    /\ dead["pre"] = "none"
    /\ pending["pre"].kind \in {"none", "pre_reserve"}
    /\ pending' = [pending EXCEPT !["pre"] = [kind |-> "pre_reserve", attempts |-> 0]]
    /\ Go("marked")
    /\ runs' = runs + 1
    /\ UNCHANGED <<processing, claims, dead, falseCorrupt, lock, dr, core, dispatched,
                   exactSaved, overrun, crashes>>

\* The one-shot reserve.  A row that is already reserved comes back as a
\* replay or, under changed policy, as replayBlocked like every closed row.
ReserveAnswered ==
    /\ prod.pc = "marked"
    /\ row' \in After("reserve")
    /\ \/ row' = "reserved" /\ prod' = [prod EXCEPT !.pc = "reserved", !.fresh = (row = "none")]
       \/ row' = "denied" /\ Go("denied")
       \/ row # "none" /\ row' # "denied" /\ Go("idle")
    /\ UNCHANGED <<files, lock, late, dispatched, exactSaved>> /\ Producing

ReserveUnanswered ==
    /\ prod.pc = "marked"
    /\ Unbooked("reserve", "retry")
    /\ Go("idle")
    /\ UNCHANGED <<files, lock, dispatched, exactSaved>> /\ Producing

\* A definitive denial removes the marker.
Cancel ==
    /\ prod.pc = "denied"
    /\ Free("record")
    /\ pending' = [pending EXCEPT !["pre"] = NoFile]
    /\ Go("idle")
    /\ UNCHANGED <<processing, claims, dead, falseCorrupt, lock, core, dispatched, exactSaved>>
    /\ Producing

\* Mutant: the marker is dropped once the reservation is known.
ArmFallbackForgets ==
    /\ prod.pc = "reserved"
    /\ Free("record") /\ Free("reservation")
    /\ pending' = [pending EXCEPT !["pre"] = NoFile]
    /\ Go(IF prod.fresh THEN "armed" ELSE "idle")
    /\ UNCHANGED <<processing, claims, dead, falseCorrupt, lock, core, dispatched, exactSaved>>
    /\ Producing

\* Mutant: a replayed reservation is used like a fresh one.
ArmFallbackReplays ==
    /\ prod.pc = "reserved"
    /\ Free("record") /\ Free("reservation")
    /\ pending["pre"].kind = "pre_reserve"
    /\ pending' = [pending EXCEPT !["pre"] = [kind |-> "fallback", attempts |-> 0]]
    /\ Go("armed")
    /\ UNCHANGED <<processing, claims, dead, falseCorrupt, lock, core, dispatched, exactSaved>>
    /\ Producing

\* armFallback turns the marker into the conservative close; without the marker
\* reserve throws.  A caller that got a replay refuses to call the provider.
ArmFallback ==
    /\ prod.pc = "reserved"
    /\ Free("record") /\ Free("reservation")
    /\ IF pending["pre"].kind = "pre_reserve"
       THEN /\ pending' = [pending EXCEPT !["pre"] = [kind |-> "fallback", attempts |-> 0]]
            /\ Go(IF prod.fresh THEN "armed" ELSE "idle")
       ELSE Go("idle") /\ UNCHANGED pending
    /\ UNCHANGED <<processing, claims, dead, falseCorrupt, lock, core, dispatched, exactSaved>>
    /\ Producing

CallProvider ==
    /\ prod.pc = "armed"
    /\ dispatched' = dispatched + 1
    /\ Go("called")
    /\ UNCHANGED <<files, lock, core, exactSaved>> /\ Producing

\* findDeadReservation, findActiveReservation: pending/ is searched first.
DeadReservation == \E i \in RecordId : dead[i] \in {"fallback", "exact"}
ActivePending == {i \in RecordId : pending[i].kind \in {"fallback", "exact"}}
ActiveProcessing == {f \in processing : f.kind \in {"fallback", "exact"}}

SaveExact(id, f) ==
    /\ pending' = [pending EXCEPT ![id] = f]
    /\ prod' = [prod EXCEPT !.pc = "exact", !.handle = <<"pending", id>>]
    /\ exactSaved' = TRUE

ExactFails == Go("idle") /\ UNCHANGED <<pending, exactSaved>>

PersistExact ==
    /\ prod.pc = "called"
    /\ Free("reservation")
    /\ \/ DeadReservation /\ ExactFails
       \/ /\ ~DeadReservation
          /\ \E id \in ActivePending :
                SaveExact(id, IF pending[id].kind = "exact" THEN pending[id]
                              ELSE [kind |-> "exact", attempts |-> 0])
       \/ /\ ~DeadReservation /\ ActivePending = {}
          /\ \E f \in ActiveProcessing :
                IF f.kind = "exact"
                THEN /\ prod' = [prod EXCEPT !.pc = "exact", !.handle = <<"processing", f.claim>>]
                     /\ exactSaved' = TRUE
                     /\ UNCHANGED pending
                ELSE ExactFails                 \* a drainer already has the fallback
       \/ /\ ~DeadReservation /\ ActivePending = {} /\ ActiveProcessing = {}
          /\ IF dead["close"] = "none" THEN SaveExact("close", [kind |-> "exact", attempts |-> 0])
             ELSE ExactFails
    /\ UNCHANGED <<processing, claims, dead, falseCorrupt, lock, core, dispatched>>
    /\ Producing

Close ==
    /\ prod.pc = "exact"
    /\ \E v \in {"ok", "retry", "terminal"} :
          /\ Answered("exact", v) \/ Unbooked("exact", v)
          /\ Go(CASE v = "ok" -> "acknowledge" [] v = "retry" -> "retry" [] OTHER -> "reject")
    /\ UNCHANGED <<files, lock, dispatched, exactSaved>> /\ Producing

\* The file under the producer's handle, if it is still there.
AtHandle(f) == \/ \E id \in RecordId : prod.handle = <<"pending", id>> /\ f = pending[id] /\ Exists(id)
               \/ \E c \in processing : prod.handle = <<"processing", c.claim>>
                                        /\ f = [kind |-> c.kind, attempts |-> c.attempts]
HandleMissing == ~ \E k \in Kind, n \in 0..MaxAttempts : AtHandle([kind |-> k, attempts |-> n])
HandleId == IF prod.handle[1] = "pending" THEN prod.handle[2]
            ELSE (CHOOSE c \in processing : c.claim = prod.handle[2]).id

\* Replace, or with NoFile remove, the file under the handle.
PutHandle(f) ==
    /\ pending' = IF prod.handle[1] = "pending"
                  THEN [pending EXCEPT ![prod.handle[2]] = f] ELSE pending
    /\ processing' = {c \in processing : prod.handle # <<"processing", c.claim>>}
         \union {[c EXCEPT !.kind = f.kind, !.attempts = f.attempts] :
                    c \in {e \in processing : prod.handle = <<"processing", e.claim>> /\ f # NoFile}}

\* Confirmed by Core: unlink the record, then the fallbacks it makes redundant.
Acknowledge ==
    /\ prod.pc = "acknowledge"
    /\ Free("reservation")
    /\ pending' = [i \in RecordId |-> IF prod.handle = <<"pending", i>> \/ pending[i].kind = "fallback"
                                      THEN NoFile ELSE pending[i]]
    /\ processing' = {c \in processing : c.kind # "fallback" /\ prod.handle # <<"processing", c.claim>>}
    /\ Go("idle")
    /\ UNCHANGED <<claims, dead, falseCorrupt, lock, core, dispatched, exactSaved>> /\ Producing

Bury(id, kind) == dead' = [dead EXCEPT ![id] = kind]

RetryLater ==
    /\ prod.pc = "retry"
    /\ Free("reservation")
    /\ \/ HandleMissing /\ UNCHANGED <<pending, processing, dead>>
       \/ \E k \in Kind, n \in 0..MaxAttempts :
             /\ AtHandle([kind |-> k, attempts |-> n])
             /\ IF n + 1 >= MaxAttempts
                THEN Bury(HandleId, k) /\ PutHandle(NoFile)
                ELSE PutHandle([kind |-> k, attempts |-> n + 1]) /\ UNCHANGED dead
    /\ Go("idle")
    /\ UNCHANGED <<claims, falseCorrupt, lock, core, dispatched, exactSaved>> /\ Producing

RejectTerminal ==
    /\ prod.pc = "reject"
    /\ Free("reservation")
    /\ \/ HandleMissing /\ UNCHANGED <<pending, processing, dead>>
       \/ \E k \in Kind, n \in 0..MaxAttempts :
             AtHandle([kind |-> k, attempts |-> n]) /\ Bury(HandleId, k) /\ PutHandle(NoFile)
    /\ Go("idle")
    /\ UNCHANGED <<claims, falseCorrupt, lock, core, dispatched, exactSaved>> /\ Producing

\* waitMs runs out while a drainer, alive or dead, holds the lock.
LockTimeout ==
    /\ \/ prod.pc = "denied" /\ ~Free("record")
       \/ prod.pc = "reserved" /\ (~Free("record") \/ ~Free("reservation"))
       \/ prod.pc \in {"called", "acknowledge", "retry", "reject"} /\ ~Free("reservation")
    /\ Go("idle")
    /\ UNCHANGED <<files, lock, core, dispatched, exactSaved>> /\ Producing

ProducerCrash ==
    /\ prod.pc # "idle"
    /\ runs + crashes < MaxTrouble
    /\ crashes' = crashes + 1
    /\ Go("idle")
    /\ UNCHANGED <<files, lock, dr, core, dispatched, exactSaved, overrun, runs>>

-----------------------------------------------------------------------------
(* drainLlmSettlementOutbox                                                 *)

Drained == UNCHANGED <<prod, dispatched, exactSaved, runs, crashes>>
Draining == Drained /\ UNCHANGED overrun
Overrun(passed) == overrun' = (overrun \/ passed)

\* Mutant: records are drained without waiting for fallbackDelayMs.
TimelyAtOnce(kind) == kind \in Kind

\* nextAttemptAt: the marker and the fallback wait fallbackDelayMs, which a
\* producer that is not slow never outlives; everything else may be due.
Timely(kind) ==
    \/ kind = "exact"
    \/ kind = "pre_reserve" /\ prod.pc \notin {"marked", "denied", "reserved"}
    \/ kind = "fallback" /\ prod.pc \notin {"armed", "called"}

Due(kind) == SlowProducer \/ Timely(kind)

\* collectStateFiles
List(d) ==
    /\ dr[d].pc = "idle"
    /\ \E i \in RecordId : Exists(i)
    /\ dr' = [dr EXCEPT ![d].pc = "listed", ![d].todo = {i \in RecordId : Exists(i)}]
    /\ UNCHANGED <<files, lock, core>> /\ Draining

\* readStoredRecord before any lock: a name that is gone is taken for a corrupt file.
Read(d, id) ==
    /\ dr[d].pc = "listed"
    /\ id \in dr[d].todo
    /\ dr' = [dr EXCEPT ![d].todo = @ \ {id}, ![d].id = id,
                        ![d].pc = IF ~Exists(id) THEN "corrupt"
                                  ELSE IF Due(pending[id].kind) THEN "seen" ELSE "listed",
                        ![d].key = IF Exists(id) THEN KeyOf(pending[id].kind) ELSE @]
    /\ UNCHANGED <<files, lock, core>> /\ Draining

\* deadLetter(path, null, "corrupt"): write the dead record, then unlink the path.
SaveCorrupt(d) ==
    /\ dr[d].pc = "corrupt"
    /\ falseCorrupt' = falseCorrupt \union {dr[d].id}
    /\ Step(d, "corruptSaved")
    /\ UNCHANGED <<pending, processing, claims, dead, lock, core>> /\ Draining

UnlinkCorrupt(d) ==
    /\ dr[d].pc = "corruptSaved"
    /\ pending' = [pending EXCEPT ![dr[d].id] = NoFile]
    /\ Step(d, "listed")
    /\ UNCHANGED <<processing, claims, dead, falseCorrupt, lock, core>> /\ Draining

ListDone(d) ==
    /\ dr[d].pc = "listed"
    /\ dr[d].todo = {}
    /\ Step(d, "idle")
    /\ UNCHANGED <<files, lock, core>> /\ Draining

\* Under the lock of the record as it was read: is it still the same and due?
Current(d) == LET f == pending[dr[d].id]
              IN f # NoFile /\ KeyOf(f.kind) = dr[d].key /\ Due(f.kind)

Skip(d) ==
    /\ dr[d].pc = "seen"
    /\ ~Free(dr[d].key) \/ ~Current(d)
    /\ Step(d, "listed")
    /\ UNCHANGED <<files, lock, core>> /\ Draining

\* claimPending renames the file into processing/.
Claim(d) ==
    LET f == pending[dr[d].id] IN
    /\ dr[d].pc = "seen"
    /\ Free(dr[d].key)
    /\ Current(d)
    /\ lock' = [lock EXCEPT ![dr[d].key] = d]
    /\ claims' = claims + 1
    /\ processing' = processing \union {[claim |-> claims + 1, id |-> dr[d].id,
                                         kind |-> f.kind, attempts |-> f.attempts]}
    /\ pending' = [pending EXCEPT ![dr[d].id] = NoFile]
    /\ dr' = [dr EXCEPT ![d].claim = claims + 1,
                        ![d].pc = IF f.attempts >= MaxAttempts THEN "answered" ELSE "claimed",
                        ![d].verdict = "retry"]
    /\ Overrun(~Timely(f.kind))
    /\ UNCHANGED <<dead, falseCorrupt, core>> /\ Drained

Mine(d, c) == c \in processing /\ c.claim = dr[d].claim

Dispatch(d, c) ==
    /\ dr[d].pc = "claimed"
    /\ Mine(d, c)
    /\ \E v \in {"ok", "retry", "terminal"} :
          /\ Answered(OpOf(c.kind), v) \/ Unbooked(OpOf(c.kind), v)
          /\ dr' = [dr EXCEPT ![d].pc = "answered", ![d].verdict = v]
    /\ UNCHANGED <<files, lock>> /\ Draining

Unlock(d) == lock' = [lock EXCEPT ![dr[d].key] = "free"]

Complete(d, c) ==
    /\ dr[d].pc = "answered"
    /\ Mine(d, c)
    /\ dr[d].verdict = "ok"
    /\ processing' = processing \ {c}
    /\ Unlock(d)
    /\ Step(d, "listed")
    /\ UNCHANGED <<pending, claims, dead, falseCorrupt, core>> /\ Draining

\* Another file took the name in pending/ meanwhile.
Conflict(c) == Exists(c.id) /\ pending[c.id].kind # c.kind

\* returnForRetry: an equal intent already there makes the claim redundant.
ReturnForRetry(d, c) ==
    /\ dr[d].pc = "answered"
    /\ Mine(d, c)
    /\ dr[d].verdict = "retry"
    /\ c.attempts + 1 < MaxAttempts
    /\ ~Conflict(c)
    /\ pending' = IF Exists(c.id) THEN pending
                  ELSE [pending EXCEPT ![c.id] = [kind |-> c.kind, attempts |-> c.attempts + 1]]
    /\ processing' = processing \ {c}
    /\ Unlock(d)
    /\ Step(d, "listed")
    /\ UNCHANGED <<claims, dead, falseCorrupt, core>> /\ Draining

\* Mutant: an exhausted record is thrown away instead of buried.
DeadLetterDrops(d, c) ==
    /\ dr[d].pc = "answered"
    /\ Mine(d, c)
    /\ \/ dr[d].verdict = "terminal"
       \/ dr[d].verdict = "retry" /\ (c.attempts + 1 >= MaxAttempts \/ Conflict(c))
    /\ Step(d, "buried")
    /\ UNCHANGED <<files, lock, core>> /\ Draining

\* terminal_close, attempts_exhausted or exact_conflict; the claim goes after that.
DeadLetter(d, c) ==
    /\ dr[d].pc = "answered"
    /\ Mine(d, c)
    /\ \/ dr[d].verdict = "terminal"
       \/ dr[d].verdict = "retry" /\ (c.attempts + 1 >= MaxAttempts \/ Conflict(c))
    /\ Bury(c.id, c.kind)
    /\ Step(d, "buried")
    /\ UNCHANGED <<pending, processing, claims, falseCorrupt, lock, core>> /\ Draining

UnlinkBuried(d, c) ==
    /\ dr[d].pc = "buried"
    /\ Mine(d, c)
    /\ processing' = processing \ {c}
    /\ Unlock(d)
    /\ Step(d, "listed")
    /\ UNCHANGED <<pending, claims, dead, falseCorrupt, core>> /\ Draining

Owned(c) == \E d \in Drainer : dr[d].pc \in {"claimed", "answered", "buried"} /\ dr[d].claim = c.claim

\* A lease taken while the producer closes (three calls of 5 s, 30 s of waiting
\* for the lock) is not over before the producer is done.
Closing == prod.pc \in {"exact", "acknowledge", "retry", "reject"}
LeaseOver == SlowProducer \/ ~Closing

\* reclaimExpiredProcessing: a claim older than processingLeaseMs goes back.
Reclaim(d, c) ==
    /\ dr[d].pc = "idle"
    /\ c \in processing
    /\ ~Owned(c)
    /\ c.kind = "exact" => LeaseOver
    /\ Free(KeyOf(c.kind))
    /\ processing' = processing \ {c}
    /\ IF Conflict(c) THEN Bury(c.id, c.kind) ELSE UNCHANGED dead
    /\ pending' = IF Exists(c.id) THEN pending
                  ELSE [pending EXCEPT ![c.id] = [kind |-> c.kind, attempts |-> c.attempts]]
    /\ Overrun(c.kind = "exact" /\ Closing)
    /\ UNCHANGED <<claims, falseCorrupt, lock, dr, core>> /\ Drained

\* The process dies: its claim and its lock stay on the disk.
DrainerCrash(d) ==
    /\ dr[d].pc # "idle"
    /\ runs + crashes < MaxTrouble
    /\ crashes' = crashes + 1
    /\ Step(d, "idle")
    /\ lock' = [k \in Key |-> IF lock[k] = d THEN "orphan" ELSE lock[k]]
    /\ UNCHANGED <<files, prod, core, dispatched, exactSaved, overrun, runs>>

LockExpires(k) ==
    /\ lock[k] = "orphan"
    /\ k = "reservation" => LeaseOver
    /\ lock' = [lock EXCEPT ![k] = "free"]
    /\ Overrun(k = "reservation" /\ Closing)
    /\ UNCHANGED <<files, dr, core>> /\ Drained

-----------------------------------------------------------------------------
ProducerStep == \/ ReserveAnswered \/ ReserveUnanswered \/ Cancel \/ ArmFallback
                \/ CallProvider \/ PersistExact \/ Close \/ Acknowledge \/ RetryLater
                \/ RejectTerminal \/ LockTimeout

DrainerStep(d) == \/ List(d) \/ ListDone(d) \/ Skip(d) \/ SaveCorrupt(d) \/ UnlinkCorrupt(d)
                  \/ \E id \in RecordId : Read(d, id)
                  \/ Claim(d)
                  \/ \E c \in processing :
                        \/ Dispatch(d, c) \/ Complete(d, c) \/ ReturnForRetry(d, c)
                        \/ DeadLetter(d, c) \/ UnlinkBuried(d, c) \/ Reclaim(d, c)

Next == \/ PersistPreReserve \/ ProducerStep \/ ProducerCrash
        \/ \E d \in Drainer : DrainerStep(d) \/ DrainerCrash(d)
        \/ \E k \in Key : LockExpires(k)
        \/ \E op \in Operation : LateArrives(op)

Spec == Init /\ [][Next]_vars

\* The drain is polled for ever, locks of dead processes expire, and a producer
\* that runs goes on (awaited promises with time limits).  Core may stay silent.
Fairness ==
    /\ WF_vars(ProducerStep)
    /\ \A d \in Drainer : WF_vars(DrainerStep(d))
    /\ \A k \in Key : WF_vars(LockExpires(k))

FairSpec == Spec /\ Fairness

-----------------------------------------------------------------------------
OnDisk(kinds) == \/ \E i \in RecordId : pending[i].kind \in kinds \/ dead[i] \in kinds
                 \/ \E c \in processing : c.kind \in kinds

\* The key has not been submitted again.
Once == runs <= 1

\* From the moment the provider is called until Core has closed the row there
\* is a durable record that closes it, or a dead letter for the owner: no crash
\* of either side loses the account of a paid call.
DispatchCovered ==
    Once /\ dispatched > 0 /\ row = "reserved" => OnDisk({"fallback", "exact"})

\* Recovery gives money back only for a reservation whose provider call never
\* happened and never will.
ReleasedUndispatched ==
    row = "released" => dispatched = 0 /\ prod.pc # "armed"

\* So it is while the key was submitted once and its producer kept to the delay
\* that fallbackDelayMs grants it, whatever crashed, got lost or came late.
PromptReleasedUndispatched == Once /\ ~overrun => ReleasedUndispatched

\* Once persistExact returned, the measured cost is either what Core booked or
\* still on the disk.
ExactPreserved ==
    Once /\ exactSaved => row = "exact" \/ OnDisk({"exact"})

\* A request key buys at most one provider call, however often it is submitted.
OneDispatch == dispatched <= 1

\* Every paid call ends up closed in Core or in dead/, with Core silent for as
\* long as it likes, or its key is submitted again.
Accounted ==
    dispatched > 0 ~> (row \in {"fallback", "exact", "released"}
                       \/ ~Once
                       \/ \E i \in RecordId : dead[i] \in {"fallback", "exact"})
=============================================================================
