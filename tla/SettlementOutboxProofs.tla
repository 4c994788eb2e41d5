----------------------- MODULE SettlementOutboxProofs ----------------------
(***************************************************************************)
(* The spool for any number of submissions, attempts, crashes, lost and    *)
(* late calls: one call of the provider per key whoever drains, money      *)
(* given back only for a call that was never made, and, with one poll      *)
(* loop, an account of the paid call that no crash loses.                  *)
(***************************************************************************)
EXTENDS SettlementOutbox, TLAPS

-----------------------------------------------------------------------------
(* The parts of the inductive invariant.                                    *)

\* The provider is called under a reservation this submission opened, and a
\* row is opened once.
Dispatching ==
    /\ dispatched \in {0, 1}
    /\ row = "none" => dispatched = 0
    /\ prod.pc \in {"reserved", "armed"} => row # "none"
    /\ prod.pc = "reserved" /\ prod.fresh => dispatched = 0
    /\ prod.pc = "armed" => dispatched = 0

\* Nothing happens before the key is submitted.
Untouched ==
    runs = 0 => /\ prod.pc = "idle" /\ dispatched = 0 /\ ~exactSaved
                /\ pending = [i \in RecordId |-> NoFile] /\ processing = {}
                /\ row = "none" /\ late = {}
                /\ \A d \in Drainer : dr[d].pc = "idle"

\* Claims are told apart by their tokens, which are never issued twice.
Unique == \A c, e \in processing : c.claim = e.claim => c = e

Tokens ==
    /\ \A c \in processing : c.claim <= claims
    /\ \A d \in Drainer : dr[d].claim <= claims
    /\ Unique

\* A submission has one file: it changes its kind, its name and its directory.
OneFile ==
    /\ \A c, e \in processing : c = e
    /\ processing # {} => \A i \in RecordId : ~Exists(i)
    /\ \A i, j \in RecordId : Exists(i) /\ Exists(j) => i = j

HasFile(k) == (\E i \in RecordId : pending[i].kind = k) \/ (\E c \in processing : c.kind = k)

\* How far the producer is, and what its file says of it.
Progress ==
    /\ HasFile("pre_reserve") => prod.pc \in {"idle", "marked", "denied", "reserved"} /\ dispatched = 0
    /\ prod.pc \in {"marked", "denied", "reserved"} => dispatched = 0
    /\ prod.pc \in {"called", "exact", "acknowledge", "retry", "reject"} => dispatched = 1
    /\ exactSaved => dispatched = 1
    /\ exactSaved => ~HasFile("fallback")

\* The marker is claimed, and the reservation given back, behind a producer
\* that has stopped before its call.
Recovering == (\E c \in processing : c.kind = "pre_reserve") \/ "recover" \in late \/ row = "released"

Recovery == ~overrun /\ Recovering => prod.pc = "idle" /\ dispatched = 0

\* A confirmed close is booked; a dead letter is written before its claim goes.
Booked ==
    /\ prod.pc = "acknowledge" => row = "exact"
    /\ \A d \in Drainer, c \in processing :
          c.claim = dr[d].claim /\ dr[d].pc = "answered" /\ dr[d].verdict = "ok"
          => row \notin {"none", "reserved"} /\ (c.kind = "exact" => row = "exact")

Buried ==
    \A d \in Drainer, c \in processing :
        c.claim = dr[d].claim /\ dr[d].pc = "buried" => dead[c.id] = c.kind

\* What one poll loop takes for corrupt is a name its producer has finished with.
Finished ==
    \A d \in Drainer :
        /\ dr[d].pc \notin {"idle", "listed"} => dr[d].id \notin dr[d].todo
        /\ dr[d].pc # "idle" => \A i \in dr[d].todo : Exists(i) \/ prod.pc = "idle"
        /\ dr[d].pc \in {"corrupt", "corruptSaved"} => ~Exists(dr[d].id) /\ prod.pc = "idle"

\* The call about to be made is covered too.
Covered ==
    (prod.pc = "armed" \/ dispatched > 0) /\ row = "reserved" => OnDisk({"fallback", "exact"})

Kept == exactSaved => row = "exact" \/ OnDisk({"exact"})

Inv == /\ TypeOK /\ Dispatching /\ Untouched /\ Tokens
       /\ Booked
       /\ Once => OneFile /\ Progress /\ Recovery /\ Buried

OneLoop == \A d, e \in Drainer : d = e

LoopInv == Inv /\ (Once => Finished /\ Covered /\ Kept)

-----------------------------------------------------------------------------
(* Types.                                                                   *)

\* What retryLater and rejectTerminal do to the file under the producer's
\* handle: it stays where it is with another count of attempts, or is buried.
PendingHandled ==
    \E i \in RecordId :
       /\ Exists(i)
       /\ processing' = processing
       /\ \/ /\ \E n \in 0 .. MaxAttempts :
                   pending' = [pending EXCEPT ![i] = [kind |-> pending[i].kind, attempts |-> n]]
             /\ dead' = dead
          \/ /\ pending' = [pending EXCEPT ![i] = NoFile]
             /\ dead' = [dead EXCEPT ![i] = pending[i].kind]

ClaimHandled ==
    \E c \in processing :
       /\ pending' = pending
       /\ \/ /\ \E n \in 0 .. MaxAttempts :
                   processing' = (processing \ {c}) \union
                       {[claim |-> c.claim, id |-> c.id, kind |-> c.kind, attempts |-> n]}
             /\ dead' = dead
          \/ /\ processing' = processing \ {c}
             /\ dead' = [dead EXCEPT ![c.id] = c.kind]

\* A handle names a place in pending/ or a claim, never both.
LEMMA Handles ==
  ASSUME TypeOK, Unique, NEW f \in File, AtHandle(f), NEW g \in File \union {NoFile}, PutHandle(g),
         g = NoFile \/ g.kind = f.kind
  PROVE  \/ /\ HandleId \in RecordId /\ Exists(HandleId) /\ pending[HandleId] = f
            /\ processing' = processing
            /\ pending' = [pending EXCEPT ![HandleId] = g]
         \/ \E c \in processing :
               /\ HandleId = c.id /\ c.kind = f.kind
               /\ pending' = pending
               /\ processing' = IF g = NoFile THEN processing \ {c}
                                ELSE (processing \ {c}) \union
                                     {[claim |-> c.claim, id |-> c.id, kind |-> c.kind,
                                       attempts |-> g.attempts]}
  <1>1. CASE \E id \in RecordId : prod.handle = <<"pending", id>> /\ f = pending[id] /\ Exists(id)
    <2>1. PICK id \in RecordId : prod.handle = <<"pending", id>> /\ f = pending[id] /\ Exists(id)
      BY <1>1
    <2>2. prod.handle[1] = "pending" /\ prod.handle[2] = id
      BY <2>1
    <2>3. \A c \in processing : prod.handle # <<"processing", c.claim>>
      BY <2>2
    <2> QED
      BY <2>1, <2>2, <2>3 DEF PutHandle, HandleId
  <1>2. CASE \E c \in processing : prod.handle = <<"processing", c.claim>>
                                   /\ f = [kind |-> c.kind, attempts |-> c.attempts]
    <2>1. PICK c \in processing : prod.handle = <<"processing", c.claim>>
                                  /\ f = [kind |-> c.kind, attempts |-> c.attempts]
      BY <1>2
    <2>2. prod.handle[1] = "processing" /\ prod.handle[2] = c.claim
      BY <2>1
    <2>3. \A e \in processing : prod.handle = <<"processing", e.claim>> <=> e = c
      BY <2>1 DEF Unique
    <2>4. HandleId = c.id /\ c.kind = f.kind /\ pending' = pending
      <3>1. (CHOOSE e \in processing : e.claim = c.claim) = c
        BY DEF Unique
      <3> QED
        BY <2>1, <2>2, <3>1 DEF HandleId, PutHandle
    <2>5. {e \in processing : prod.handle # <<"processing", e.claim>>} = processing \ {c}
      BY <2>3
    <2>6. {e \in processing : prod.handle = <<"processing", e.claim>> /\ g # NoFile}
             = IF g = NoFile THEN {} ELSE {c}
      BY <2>3
    <2>7. CASE g = NoFile
      BY <2>4, <2>5, <2>6, <2>7 DEF PutHandle
    <2>8. CASE g # NoFile
      <3>1. [c EXCEPT !.kind = g.kind, !.attempts = g.attempts]
              = [claim |-> c.claim, id |-> c.id, kind |-> c.kind, attempts |-> g.attempts]
        <4>1. c \in Claimed /\ g.kind = c.kind
          BY <2>4, <2>8 DEF TypeOK
        <4>2. g.attempts \in 0 .. MaxAttempts
          BY <2>8 DEF File
        <4>3. [c EXCEPT !.kind = g.kind] = c
          BY <4>1 DEF Claimed
        <4>4. [c EXCEPT !.attempts = g.attempts]
                = [claim |-> c.claim, id |-> c.id, kind |-> c.kind, attempts |-> g.attempts]
          BY <4>1, <4>2 DEF Claimed
        <4> QED
          BY <4>3, <4>4
      <3>2. {[e EXCEPT !.kind = g.kind, !.attempts = g.attempts] : e \in {c}}
              = {[claim |-> c.claim, id |-> c.id, kind |-> c.kind, attempts |-> g.attempts]}
        BY <3>1
      <3> QED
        BY <2>4, <2>5, <2>6, <2>8, <3>2 DEF PutHandle
    <2> QED
      BY <2>7, <2>8
  <1> QED
    BY <1>1, <1>2 DEF AtHandle

LEMMA Handling ==
  ASSUME TypeOK, Unique, RetryLater \/ RejectTerminal
  PROVE  UNCHANGED <<pending, processing, dead>> \/ PendingHandled \/ ClaimHandled
  <1>1. SUFFICES ASSUME NEW k \in Kind, NEW n \in 0 .. MaxAttempts,
                        AtHandle([kind |-> k, attempts |-> n]),
                        \/ /\ n + 1 < MaxAttempts
                           /\ PutHandle([kind |-> k, attempts |-> n + 1])
                           /\ dead' = dead
                        \/ Bury(HandleId, k) /\ PutHandle(NoFile)
                 PROVE  PendingHandled \/ ClaimHandled
    <2>1. CASE RetryLater
      <3>1. CASE HandleMissing /\ UNCHANGED <<pending, processing, dead>>
        BY <3>1
      <3>2. ASSUME NEW k \in Kind, NEW n \in 0 .. MaxAttempts,
                   AtHandle([kind |-> k, attempts |-> n]),
                   IF n + 1 >= MaxAttempts
                   THEN Bury(HandleId, k) /\ PutHandle(NoFile)
                   ELSE PutHandle([kind |-> k, attempts |-> n + 1]) /\ UNCHANGED dead
            PROVE  PendingHandled \/ ClaimHandled
        BY <1>1, <3>2, SettlementAssumption
      <3> QED
        BY <2>1, <3>1, <3>2 DEF RetryLater
    <2>2. CASE RejectTerminal
      BY <1>1, <2>2 DEF RejectTerminal
    <2> QED
      BY <2>1, <2>2
  <1> DEFINE f == [kind |-> k, attempts |-> n]
  <1>f. f \in File /\ f.kind = k
    BY DEF File
  <1>2. CASE n + 1 < MaxAttempts /\ PutHandle([kind |-> k, attempts |-> n + 1]) /\ dead' = dead
    <2> DEFINE g == [kind |-> k, attempts |-> n + 1]
    <2>1. g \in File /\ g # NoFile /\ g.kind = f.kind /\ g.attempts \in 0 .. MaxAttempts /\ g.attempts = n + 1
      BY <1>2, SettlementAssumption DEF File, NoFile, Kind
    <2>2. \/ /\ HandleId \in RecordId /\ Exists(HandleId) /\ pending[HandleId] = f
             /\ processing' = processing
             /\ pending' = [pending EXCEPT ![HandleId] = g]
          \/ \E c \in processing :
                /\ HandleId = c.id /\ c.kind = f.kind
                /\ pending' = pending
                /\ processing' = IF g = NoFile THEN processing \ {c}
                                 ELSE (processing \ {c}) \union
                                     {[claim |-> c.claim, id |-> c.id, kind |-> c.kind,
                                       attempts |-> g.attempts]}
      <3>1. AtHandle(f) /\ PutHandle(g) /\ (g = NoFile \/ g.kind = f.kind)
        BY <1>1, <1>2, <2>1
      <3> HIDE DEF f, g
      <3> QED
        BY <1>f, <2>1, <3>1, Handles
    <2>3. CASE HandleId \in RecordId /\ Exists(HandleId) /\ pending[HandleId] = f
               /\ processing' = processing /\ pending' = [pending EXCEPT ![HandleId] = g]
      BY <1>2, <1>f, <2>1, <2>3 DEF PendingHandled
    <2>4. CASE \E c \in processing :
                /\ HandleId = c.id /\ c.kind = f.kind
                /\ pending' = pending
                /\ processing' = (processing \ {c}) \union
                                     {[claim |-> c.claim, id |-> c.id, kind |-> c.kind,
                                       attempts |-> g.attempts]}
      <3> HIDE DEF g
      <3> QED
        BY <1>2, <2>1, <2>4 DEF ClaimHandled
    <2> QED
      <3> HIDE DEF f, g
      <3> QED
        BY <2>1, <2>2, <2>3, <2>4
  <1>3. CASE Bury(HandleId, k) /\ PutHandle(NoFile)
    <2>2. \/ /\ HandleId \in RecordId /\ Exists(HandleId) /\ pending[HandleId] = f
             /\ processing' = processing
             /\ pending' = [pending EXCEPT ![HandleId] = NoFile]
          \/ \E c \in processing :
                /\ HandleId = c.id /\ c.kind = f.kind
                /\ pending' = pending
                /\ processing' = processing \ {c}
      <3>1. AtHandle(f) /\ PutHandle(NoFile)
        BY <1>1, <1>3
      <3> HIDE DEF f
      <3> QED
        BY <1>f, <3>1, Handles
    <2> QED
      BY <1>3, <1>f, <2>2 DEF Bury, PendingHandled, ClaimHandled
  <1> QED
    BY <1>1, <1>2, <1>3

\* The row and the calls on their way stay in their types, whatever Core does.
LEMMA CoreTyped ==
  ASSUME TypeOK, NEW op \in Operation
  PROVE  /\ row' \in After(op) => row' \in Row
         /\ \A v : Answered(op, v) => row' \in Row /\ late' \subseteq Operation
         /\ \A v : Unbooked(op, v) => row' \in Row /\ late' \subseteq Operation
         /\ LateArrives(op) => row' \in Row /\ late' \subseteq Operation
  BY DEF TypeOK, Row, Operation, After, Answered, Unbooked, LateArrives

\* The records of the producer and of the drainers, field by field.
LEMMA HandleTyped ==
  ASSUME prod \in Producer, NEW i \in RecordId
  PROVE  [prod EXCEPT !.pc = "exact", !.handle = <<"pending", i>>] \in Producer
  <1>1. <<"pending", i>> \in {<<"pending", j>> : j \in RecordId}
    OBVIOUS
  <1> QED
    BY <1>1 DEF Producer

LEMMA ListTyped ==
  ASSUME dr \in [Drainer -> DrainerState], NEW d \in Drainer, NEW t \in SUBSET RecordId
  PROVE  [dr EXCEPT ![d].pc = "listed", ![d].todo = t] \in [Drainer -> DrainerState]
  BY ZenonT(60) DEF DrainerState

LEMMA ReadTyped ==
  ASSUME dr \in [Drainer -> DrainerState], NEW d \in Drainer, NEW i \in RecordId,
         NEW l \in {"listed", "seen", "corrupt"}, NEW k \in Key
  PROVE  [dr EXCEPT ![d].todo = @ \ {i}, ![d].id = i, ![d].pc = l, ![d].key = k]
             \in [Drainer -> DrainerState]
  <1>1. dr[d] \in DrainerState
    OBVIOUS
  <1>2. [dr EXCEPT ![d].todo = @ \ {i}, ![d].id = i, ![d].pc = l, ![d].key = k][d] \in DrainerState
    BY <1>1 DEF DrainerState
  <1> QED
    BY <1>2

LEMMA AnswerTyped ==
  ASSUME dr \in [Drainer -> DrainerState], NEW d \in Drainer, NEW v \in {"ok", "retry", "terminal"}
  PROVE  [dr EXCEPT ![d].pc = "answered", ![d].verdict = v] \in [Drainer -> DrainerState]
  BY ZenonT(60) DEF DrainerState

\* The producer's steps keep the types.
LEMMA ProducerTyped ==
  ASSUME TypeOK, Unique, PersistPreReserve \/ ProducerStep \/ ProducerCrash PROVE TypeOK'
  <1> USE SettlementAssumption DEF TypeOK, files, core, Producing, RecordId
  <1>g. \A l : Go(l) /\ l \in {"idle", "marked", "denied", "reserved", "armed", "called", "exact",
                               "acknowledge", "retry", "reject"} => prod' \in Producer
    BY DEF Go, Producer
  <1>1. CASE PersistPreReserve
    BY <1>1, <1>g DEF PersistPreReserve, File, Kind
  <1>2. CASE ReserveAnswered
    <2>1. row' \in Row /\ row' \in After("reserve")
      BY <1>2, CoreTyped DEF ReserveAnswered, Operation
    <2>2. prod' \in Producer
      BY <1>2, <1>g DEF ReserveAnswered, Producer
    <2> QED
      BY <1>2, <2>1, <2>2 DEF ReserveAnswered
  <1>3. CASE ReserveUnanswered
    <2>1. row' \in Row /\ late' \subseteq Operation
      BY <1>3, CoreTyped DEF ReserveUnanswered, Operation
    <2> QED
      BY <1>3, <1>g, <2>1 DEF ReserveUnanswered
  <1>4. CASE Cancel
    BY <1>4, <1>g DEF Cancel
  <1>5. CASE ArmFallback
    <2>1. prod' \in Producer
      BY <1>5, <1>g DEF ArmFallback
    <2> QED
      BY <1>5, <2>1 DEF ArmFallback, File, Kind
  <1>6. CASE CallProvider
    BY <1>6, <1>g DEF CallProvider
  <1>7. CASE PersistExact
    <2>1. \A id \in RecordId, f \in File :
             SaveExact(id, f) => /\ pending' \in [RecordId -> File \union {NoFile}]
                                 /\ prod' \in Producer /\ exactSaved' \in BOOLEAN
      <3>1. SUFFICES ASSUME NEW id \in RecordId, NEW f \in File, SaveExact(id, f)
                     PROVE  pending' \in [RecordId -> File \union {NoFile}] /\ prod' \in Producer
        BY DEF SaveExact
      <3>2. prod' \in Producer
        BY <3>1, HandleTyped DEF SaveExact
      <3> QED
        BY <3>1, <3>2 DEF SaveExact
    <2>2. ExactFails => /\ pending' \in [RecordId -> File \union {NoFile}]
                        /\ prod' \in Producer /\ exactSaved' \in BOOLEAN
      BY <1>g DEF ExactFails
    <2>3. [kind |-> "exact", attempts |-> 0] \in File
      BY DEF File, Kind
    <2>4. ASSUME NEW id \in ActivePending PROVE id \in RecordId /\ pending[id] \in File
      BY <2>4 DEF ActivePending, NoFile
    <2>5. ASSUME NEW f \in processing,
                 prod' = [prod EXCEPT !.pc = "exact", !.handle = <<"processing", f.claim>>]
          PROVE  prod' \in Producer
      <3>1. f.claim \in Nat
        BY DEF Claimed
      <3> QED
        BY <2>5, <3>1 DEF Producer
    <2>6. /\ pending' \in [RecordId -> File \union {NoFile}]
          /\ prod' \in Producer /\ exactSaved' \in BOOLEAN
      BY <1>7, <2>1, <2>2, <2>3, <2>4, <2>5 DEF PersistExact, ActiveProcessing
    <2> QED
      BY <1>7, <2>6 DEF PersistExact
  <1>8. CASE Close
    <2>1. row' \in Row /\ late' \subseteq Operation
      BY <1>8, CoreTyped DEF Close, Operation
    <2>2. prod' \in Producer
      BY <1>8, <1>g DEF Close
    <2> QED
      BY <1>8, <2>1, <2>2 DEF Close
  <1>9. CASE Acknowledge
    BY <1>9, <1>g DEF Acknowledge
  <1>10. CASE RetryLater \/ RejectTerminal
    <2>1. UNCHANGED <<pending, processing, dead>> \/ PendingHandled \/ ClaimHandled
      BY <1>10, Handling
    <2>2. /\ pending' \in [RecordId -> File \union {NoFile}]
          /\ processing' \subseteq Claimed
          /\ dead' \in [RecordId -> Kind \union {"none"}]
      <3>1. CASE PendingHandled
        BY <3>1 DEF PendingHandled, Exists, File
      <3>2. CASE ClaimHandled
        BY <3>2 DEF ClaimHandled, Claimed
      <3> QED
        BY <2>1, <3>1, <3>2
    <2> QED
      BY <1>10, <1>g, <2>2 DEF RetryLater, RejectTerminal
  <1>11. CASE LockTimeout
    BY <1>11, <1>g DEF LockTimeout
  <1>12. CASE ProducerCrash
    BY <1>12, <1>g DEF ProducerCrash
  <1> QED
    BY <1>1, <1>2, <1>3, <1>4, <1>5, <1>6, <1>7, <1>8, <1>9, <1>10, <1>11, <1>12 DEF ProducerStep

\* So do the drainers'.
LEMMA DrainerTyped ==
  ASSUME TypeOK, NEW d \in Drainer, DrainerStep(d) \/ DrainerCrash(d) PROVE TypeOK'
  <1> USE SettlementAssumption DEF TypeOK, files, core, Draining, Drained, RecordId, Key, Overrun
  <1>s. \A l : Step(d, l) /\ l \in {"idle", "listed", "seen", "corrupt", "corruptSaved",
                                    "claimed", "answered", "buried"} => dr' \in [Drainer -> DrainerState]
    BY DEF Step, DrainerState
  <1>d. dr[d] \in DrainerState /\ dr[d].id \in RecordId /\ dr[d].key \in Key
    BY DEF DrainerState
  <1>1. CASE List(d)
    <2>1. dr' \in [Drainer -> DrainerState]
      BY <1>1, ListTyped DEF List
    <2> QED
      BY <1>1, <2>1 DEF List
  <1>2. CASE ListDone(d) \/ Skip(d)
    BY <1>2, <1>s DEF ListDone, Skip
  <1>3. CASE SaveCorrupt(d) \/ UnlinkCorrupt(d)
    BY <1>3, <1>s, <1>d DEF SaveCorrupt, UnlinkCorrupt
  <1>4. ASSUME NEW id \in RecordId, Read(d, id) PROVE TypeOK'
    <2>1. PICK l \in {"listed", "seen", "corrupt"}, k \in Key :
             dr' = [dr EXCEPT ![d].todo = @ \ {id}, ![d].id = id, ![d].pc = l, ![d].key = k]
      <3> DEFINE l == IF ~Exists(id) THEN "corrupt"
                      ELSE IF Due(pending[id].kind) THEN "seen" ELSE "listed"
                 k == IF Exists(id) THEN KeyOf(pending[id].kind) ELSE dr[d].key
      <3>1. l \in {"listed", "seen", "corrupt"} /\ k \in Key
        BY <1>d DEF KeyOf
      <3>2. dr' = [dr EXCEPT ![d].todo = @ \ {id}, ![d].id = id, ![d].pc = l, ![d].key = k]
        BY <1>4 DEF Read
      <3> HIDE DEF l, k
      <3> QED
        BY <3>1, <3>2
    <2>2. dr' \in [Drainer -> DrainerState]
      BY <2>1, ReadTyped
    <2> QED
      BY <1>4, <2>2 DEF Read
  <1>5. CASE Claim(d)
    <2>1. pending[dr[d].id] \in File
      BY <1>5, <1>d DEF Claim, Current
    <2>2. [claim |-> claims + 1, id |-> dr[d].id, kind |-> pending[dr[d].id].kind,
           attempts |-> pending[dr[d].id].attempts] \in Claimed
      BY <2>1, <1>d DEF File, Claimed
    <2>3. dr' \in [Drainer -> DrainerState]
      BY <1>5 DEF Claim, DrainerState
    <2> QED
      BY <1>5, <1>d, <2>2, <2>3 DEF Claim, Timely
  <1>6. ASSUME NEW c \in processing, Dispatch(d, c) PROVE TypeOK'
    <2>1. OpOf(c.kind) \in Operation
      BY DEF Claimed, Kind, OpOf, Operation
    <2>2. row' \in Row /\ late' \subseteq Operation
      BY <1>6, <2>1, CoreTyped DEF Dispatch
    <2> QED
      <3>1. dr' \in [Drainer -> DrainerState]
        <4>1. PICK v \in {"ok", "retry", "terminal"} :
                dr' = [dr EXCEPT ![d].pc = "answered", ![d].verdict = v]
          BY <1>6 DEF Dispatch
        <4> QED
          BY <4>1, AnswerTyped
      <3> QED
        BY <1>6, <2>2, <3>1 DEF Dispatch
  <1>7. ASSUME NEW c \in processing, Complete(d, c) \/ UnlinkBuried(d, c) PROVE TypeOK'
    <2>1. CASE Complete(d, c)
      BY <2>1, <1>s, <1>d DEF Complete, Unlock
    <2>2. CASE UnlinkBuried(d, c)
      BY <2>2, <1>s, <1>d DEF UnlinkBuried, Unlock
    <2> QED
      BY <1>7, <2>1, <2>2
  <1>8. ASSUME NEW c \in processing, ReturnForRetry(d, c) PROVE TypeOK'
    <2>1. [kind |-> c.kind, attempts |-> c.attempts + 1] \in File /\ c.id \in RecordId
      BY <1>8 DEF ReturnForRetry, Claimed, File
    <2> QED
      BY <1>8, <1>s, <1>d, <2>1 DEF ReturnForRetry, Unlock
  <1>9. ASSUME NEW c \in processing, DeadLetter(d, c) PROVE TypeOK'
    BY <1>9, <1>s DEF DeadLetter, Bury, Claimed
  <1>10. ASSUME NEW c \in processing, Reclaim(d, c) PROVE TypeOK'
    <2>1. [kind |-> c.kind, attempts |-> c.attempts] \in File /\ c.id \in RecordId /\ c.kind \in Kind
      BY DEF Claimed, File
    <2> QED
      BY <1>10, <2>1 DEF Reclaim, Bury, Closing
  <1>11. CASE DrainerCrash(d)
    BY <1>11, <1>s DEF DrainerCrash
  <1> QED
    BY <1>1, <1>2, <1>3, <1>4, <1>5, <1>6, <1>7, <1>8, <1>9, <1>10, <1>11 DEF DrainerStep

\* The types, for every step.
LEMMA TypeStep == ASSUME TypeOK, Unique, [Next]_vars PROVE TypeOK'
  <1>1. ASSUME NEW k \in Key, LockExpires(k) PROVE TypeOK'
    BY <1>1 DEF LockExpires, TypeOK, Overrun, Drained, Closing, files, core
  <1>2. ASSUME NEW op \in Operation, LateArrives(op) PROVE TypeOK'
    <2>1. row' \in Row /\ late' \subseteq Operation
      BY <1>2, CoreTyped
    <2> QED
      BY <1>2, <2>1 DEF LateArrives, TypeOK, files
  <1>3. CASE vars' = vars
    BY <1>3 DEF vars, files, core, TypeOK
  <1> QED
    BY <1>1, <1>2, <1>3, ProducerTyped, DrainerTyped DEF Next

\* Drainers, expiring locks and late calls leave the producer and its history alone.
Elsewhere == \/ \E d \in Drainer : DrainerStep(d) \/ DrainerCrash(d)
             \/ \E k \in Key : LockExpires(k)
             \/ \E op \in Operation : LateArrives(op)

LEMMA ElsewhereFrame ==
  ASSUME Elsewhere PROVE UNCHANGED <<prod, dispatched, exactSaved, runs>>
  <1>1. ASSUME NEW d \in Drainer, DrainerStep(d) \/ DrainerCrash(d)
        PROVE  UNCHANGED <<prod, dispatched, exactSaved, runs>>
    BY <1>1 DEF DrainerStep, DrainerCrash, List, ListDone, Skip, SaveCorrupt, UnlinkCorrupt, Read, Claim,
       Dispatch, Complete, ReturnForRetry, DeadLetter, UnlinkBuried, Reclaim, Draining, Drained
  <1>2. ASSUME NEW k \in Key, LockExpires(k) PROVE UNCHANGED <<prod, dispatched, exactSaved, runs>>
    BY <1>2 DEF LockExpires, Drained
  <1>3. ASSUME NEW op \in Operation, LateArrives(op) PROVE UNCHANGED <<prod, dispatched, exactSaved, runs>>
    BY <1>3 DEF LateArrives
  <1> QED
    BY <1>1, <1>2, <1>3 DEF Elsewhere

LEMMA Parts == Next <=> PersistPreReserve \/ ProducerStep \/ ProducerCrash \/ Elsewhere
  BY DEF Next, Elsewhere

\* Core opens a row once and closes it once.
RowMoves == /\ row' = "none" => row = "none"
            /\ row' = "reserved" => row \in {"none", "reserved"}
            /\ row \in {"denied", "released", "fallback", "exact"} => row' = row

LEMMA AfterMoves == ASSUME NEW op \in Operation, row \in Row, row' \in After(op) PROVE RowMoves
  BY DEF After, RowMoves, Row, Operation

LEMMA RowLaw == ASSUME TypeOK, [Next]_vars PROVE RowMoves
  <1>r. row \in Row
    BY DEF TypeOK
  <1>s. row' = row => RowMoves
    BY <1>r DEF RowMoves, Row
  <1>a. ASSUME NEW op \in Operation, NEW v, Answered(op, v) \/ Unbooked(op, v) PROVE RowMoves
    BY <1>a, <1>r, <1>s, AfterMoves DEF Answered, Unbooked
  <1>1. CASE PersistPreReserve \/ ProducerCrash \/ vars' = vars
    BY <1>1, <1>s DEF PersistPreReserve, ProducerCrash, core, vars
  <1>2. CASE ProducerStep
    <2>1. CASE ReserveAnswered
      BY <1>r, <2>1, AfterMoves DEF ReserveAnswered, Operation
    <2>2. CASE ReserveUnanswered
      BY <1>a, <2>2 DEF ReserveUnanswered, Operation
    <2>3. CASE Close
      BY <1>a, <2>3 DEF Close, Operation
    <2>4. CASE Cancel \/ ArmFallback \/ CallProvider \/ PersistExact \/ Acknowledge \/ RetryLater
               \/ RejectTerminal \/ LockTimeout
      BY <1>s, <2>4 DEF Cancel, ArmFallback, CallProvider, PersistExact, Acknowledge, RetryLater,
         RejectTerminal, LockTimeout, core
    <2> QED
      BY <1>2, <2>1, <2>2, <2>3, <2>4 DEF ProducerStep
  <1>3. ASSUME NEW d \in Drainer, DrainerStep(d) \/ DrainerCrash(d) PROVE RowMoves
    <2>1. ASSUME NEW c \in processing, Dispatch(d, c) PROVE RowMoves
      <3>1. OpOf(c.kind) \in Operation
        BY DEF TypeOK, Claimed, Kind, OpOf, Operation
      <3> QED
        BY <1>a, <2>1, <3>1 DEF Dispatch
    <2> QED
      BY <1>3, <1>s, <2>1 DEF DrainerStep, DrainerCrash, List, ListDone, Skip, SaveCorrupt, UnlinkCorrupt,
         Read, Claim, Complete, ReturnForRetry, DeadLetter, UnlinkBuried, Reclaim, core
  <1>4. ASSUME NEW k \in Key, LockExpires(k) PROVE RowMoves
    BY <1>4, <1>s DEF LockExpires, core
  <1>5. ASSUME NEW op \in Operation, LateArrives(op) PROVE RowMoves
    BY <1>5, <1>r, AfterMoves DEF LateArrives
  <1> QED
    BY <1>1, <1>2, <1>3, <1>4, <1>5 DEF Next

\* The reservation that is used is the one that opened the row.
LEMMA DispatchingStep == ASSUME TypeOK, Dispatching, [Next]_vars PROVE Dispatching'
  <1> USE DEF Dispatching
  <1>r. RowMoves
    BY RowLaw
  <1>p. \A l : Go(l) => prod'.pc = l /\ prod'.fresh = prod.fresh
    BY DEF Go, TypeOK, Producer
  <1>1. CASE Elsewhere \/ vars' = vars
    <2>1. prod' = prod /\ dispatched' = dispatched
      BY <1>1, ElsewhereFrame DEF vars
    <2> QED
      BY <1>r, <2>1 DEF RowMoves
  <1>2. CASE ProducerStep
    <2>1. CASE ReserveAnswered
      <3>1. dispatched' = dispatched
        BY <2>1 DEF ReserveAnswered
      <3>2. CASE row' = "reserved" /\ prod' = [prod EXCEPT !.pc = "reserved", !.fresh = (row = "none")]
        <4>1. prod'.pc = "reserved" /\ prod'.fresh = (row = "none")
          BY <3>2 DEF TypeOK, Producer
        <4> QED
          BY <3>1, <3>2, <4>1
      <3>3. CASE Go("denied") \/ Go("idle")
        BY <3>1, <3>3, <1>r, <1>p DEF RowMoves
      <3> QED
        BY <2>1, <3>2, <3>3 DEF ReserveAnswered
    <2>2. CASE ArmFallback
      BY <2>2, <1>p, <1>r DEF ArmFallback, RowMoves, core
    <2>3. CASE CallProvider
      BY <2>3, <1>p DEF CallProvider, core
    <2>4. CASE PersistExact
      <3>1. prod'.pc \in {"idle", "exact"} /\ dispatched' = dispatched /\ row' = row
        <4>1. \A h : prod' = [prod EXCEPT !.pc = "exact", !.handle = h] => prod'.pc = "exact"
          <5>1. prod \in Producer
            BY DEF TypeOK
          <5> QED
            BY <5>1 DEF Producer
        <4>2. \A i, f : SaveExact(i, f) => prod'.pc = "exact"
          BY <4>1 DEF SaveExact
        <4>3. ExactFails => prod'.pc = "idle"
          BY <1>p DEF ExactFails
        <4> QED
          BY <2>4, <4>1, <4>2, <4>3 DEF PersistExact, core
      <3> QED
        BY <3>1
    <2>5. CASE Close
      <3>1. prod'.pc \in {"acknowledge", "retry", "reject"} /\ dispatched' = dispatched
        BY <2>5, <1>p DEF Close
      <3> QED
        BY <3>1, <1>r DEF RowMoves
    <2>6. CASE ReserveUnanswered \/ Cancel \/ Acknowledge \/ RetryLater \/ RejectTerminal \/ LockTimeout
      <3>1. prod'.pc = "idle" /\ dispatched' = dispatched
        BY <2>6, <1>p DEF ReserveUnanswered, Cancel, Acknowledge, RetryLater, RejectTerminal, LockTimeout
      <3> QED
        BY <3>1, <1>r DEF RowMoves
    <2> QED
      BY <1>2, <2>1, <2>2, <2>3, <2>4, <2>5, <2>6 DEF ProducerStep
  <1>3. CASE PersistPreReserve \/ ProducerCrash
    <2>1. prod'.pc \in {"idle", "marked"} /\ dispatched' = dispatched
      BY <1>3, <1>p DEF PersistPreReserve, ProducerCrash
    <2> QED
      BY <2>1, <1>r DEF RowMoves
  <1> QED
    BY <1>1, <1>2, <1>3, Parts

\* Before the key is submitted only an orphaned lock could move, and there is none.
LEMMA NothingBefore ==
  ASSUME TypeOK, Untouched, runs = 0, [Next]_vars
  PROVE  \/ PersistPreReserve
         \/ UNCHANGED <<pending, processing, claims, dead, prod, dr, row, late, dispatched, exactSaved, runs>>
  <1> USE DEF Untouched
  <1>1. CASE ProducerStep \/ ProducerCrash
    BY <1>1 DEF ProducerStep, ProducerCrash, ReserveAnswered, ReserveUnanswered, Cancel, ArmFallback,
       CallProvider, PersistExact, Close, Acknowledge, RetryLater, RejectTerminal, LockTimeout
  <1>2. ASSUME NEW d \in Drainer, DrainerStep(d) \/ DrainerCrash(d) PROVE FALSE
    <2>1. \A i \in RecordId : ~Exists(i)
      BY DEF Exists
    <2> QED
      BY <1>2, <2>1 DEF DrainerStep, DrainerCrash, List, ListDone, Skip, SaveCorrupt, UnlinkCorrupt, Read,
         Claim, Dispatch, Complete, ReturnForRetry, DeadLetter, UnlinkBuried, Reclaim
  <1>3. ASSUME NEW k \in Key, LockExpires(k)
        PROVE  UNCHANGED <<pending, processing, claims, dead, prod, dr, row, late, dispatched, exactSaved, runs>>
    BY <1>3 DEF LockExpires, Drained, files, core
  <1>4. ASSUME NEW op \in Operation, LateArrives(op) PROVE FALSE
    BY <1>4 DEF LateArrives
  <1>5. CASE vars' = vars
    BY <1>5 DEF vars, files, core
  <1> QED
    BY <1>1, <1>2, <1>3, <1>4, <1>5 DEF Next

\* Submissions are only ever added.
LEMMA RunsGrow ==
  ASSUME TypeOK, [Next]_vars
  PROVE  /\ (PersistPreReserve /\ runs' = runs + 1) \/ runs' = runs
         /\ Once' => Once
         /\ PersistPreReserve /\ Once' => runs = 0
         /\ runs' = 0 => runs = 0 /\ ~PersistPreReserve
  <1>1. runs \in Nat
    BY SettlementAssumption DEF TypeOK
  <1>2. PersistPreReserve => runs' = runs + 1
    BY DEF PersistPreReserve
  <1>3. ProducerStep => runs' = runs
    BY DEF ProducerStep, ReserveAnswered, ReserveUnanswered, Cancel, ArmFallback,
       CallProvider, PersistExact, Close, Acknowledge, RetryLater, RejectTerminal, LockTimeout, Producing
  <1>4. ProducerCrash => runs' = runs
    BY DEF ProducerCrash
  <1>5. (PersistPreReserve /\ runs' = runs + 1) \/ runs' = runs
    BY <1>2, <1>3, <1>4, ElsewhereFrame, Parts DEF vars
  <1> QED
    BY <1>1, <1>2, <1>5 DEF Once

LEMMA UntouchedStep == ASSUME TypeOK, Untouched, [Next]_vars PROVE Untouched'
  BY NothingBefore, RunsGrow DEF Untouched

-----------------------------------------------------------------------------
(* What a step may do, told by the variables rather than by the actions.    *)

\* The steps that change no file; each of the others moves at most one record.
Still == UNCHANGED <<pending, processing, claims, dead>>

LEMMA FileCases ==
  ASSUME [Next]_vars
  PROVE  \/ Still \/ PersistPreReserve \/ Cancel \/ ArmFallback \/ PersistExact \/ Acknowledge
         \/ RetryLater \/ RejectTerminal
         \/ \E d \in Drainer :
               \/ UnlinkCorrupt(d) \/ Claim(d)
               \/ \E c \in processing : \/ Complete(d, c) \/ ReturnForRetry(d, c) \/ DeadLetter(d, c)
                                        \/ UnlinkBuried(d, c) \/ Reclaim(d, c)
  <1>1. CASE ProducerStep
    BY <1>1 DEF ProducerStep, ReserveAnswered, ReserveUnanswered, CallProvider, Close, LockTimeout, files, Still
  <1>2. CASE ProducerCrash \/ vars' = vars
    BY <1>2, Zenon DEF ProducerCrash, vars, files, Still
  <1>3. ASSUME NEW d \in Drainer, DrainerStep(d) \/ DrainerCrash(d)
        PROVE  \/ Still \/ UnlinkCorrupt(d) \/ Claim(d)
               \/ \E c \in processing : \/ Complete(d, c) \/ ReturnForRetry(d, c) \/ DeadLetter(d, c)
                                        \/ UnlinkBuried(d, c) \/ Reclaim(d, c)
    BY <1>3 DEF DrainerStep, DrainerCrash, List, ListDone, Skip, SaveCorrupt, Read, Dispatch, files, Still
  <1>4. ASSUME NEW k \in Key, LockExpires(k) PROVE Still
    BY <1>4 DEF LockExpires, files, Still
  <1>5. ASSUME NEW op \in Operation, LateArrives(op) PROVE Still
    BY <1>5 DEF LateArrives, files, Still
  <1> QED
    BY <1>1, <1>2, <1>3, <1>4, <1>5 DEF Next

\* Where the producer goes, and when its history grows.
LEMMA ProducerLaw ==
  ASSUME TypeOK, [Next]_vars
  PROVE  /\ \/ prod'.pc = prod.pc \/ prod'.pc = "idle"
            \/ PersistPreReserve /\ prod'.pc = "marked"
            \/ ReserveAnswered /\ prod'.pc \in {"reserved", "denied"}
            \/ ArmFallback /\ prod'.pc = "armed"
            \/ CallProvider /\ prod'.pc = "called"
            \/ PersistExact /\ prod'.pc = "exact"
            \/ Close /\ prod'.pc \in {"acknowledge", "retry", "reject"}
         /\ dispatched' = dispatched \/ (CallProvider /\ dispatched' = dispatched + 1)
         /\ exactSaved' = exactSaved \/ (PersistExact /\ exactSaved' = TRUE /\ prod'.pc = "exact")
  <1>t. prod \in Producer
    BY DEF TypeOK
  <1>p. \A l : Go(l) => prod'.pc = l
    BY <1>t DEF Go, Producer
  <1>e. \A h : prod' = [prod EXCEPT !.pc = "exact", !.handle = h] => prod'.pc = "exact"
    BY <1>t DEF Producer
  <1>1. CASE ProducerStep
    <2>1. CASE ReserveAnswered
      <3>1. prod' = [prod EXCEPT !.pc = "reserved", !.fresh = (row = "none")] => prod'.pc = "reserved"
        BY <1>t DEF Producer
      <3> QED
        BY <2>1, <1>p, <3>1 DEF ReserveAnswered
    <2>2. CASE ArmFallback
      BY <2>2, <1>p DEF ArmFallback
    <2>3. CASE CallProvider
      BY <2>3, <1>p DEF CallProvider
    <2>4. CASE PersistExact
      <3>1. \A i, f : SaveExact(i, f) => prod'.pc = "exact" /\ exactSaved' = TRUE
        BY <1>e DEF SaveExact
      <3>2. ExactFails => prod'.pc = "idle" /\ exactSaved' = exactSaved
        BY <1>p DEF ExactFails
      <3>3. \/ prod'.pc = "exact" /\ exactSaved' = TRUE
            \/ prod'.pc = "idle" /\ exactSaved' = exactSaved
        BY <2>4, <1>e, <3>1, <3>2 DEF PersistExact
      <3> QED
        BY <2>4, <3>3 DEF PersistExact
    <2>5. CASE Close
      BY <2>5, <1>p DEF Close
    <2>6. CASE ReserveUnanswered \/ Cancel \/ Acknowledge \/ RetryLater \/ RejectTerminal \/ LockTimeout
      BY <2>6, <1>p DEF ReserveUnanswered, Cancel, Acknowledge, RetryLater, RejectTerminal, LockTimeout
    <2> QED
      BY <1>1, <2>1, <2>2, <2>3, <2>4, <2>5, <2>6 DEF ProducerStep
  <1>2. CASE PersistPreReserve \/ ProducerCrash
    BY <1>2, <1>p DEF PersistPreReserve, ProducerCrash
  <1>3. CASE Elsewhere \/ vars' = vars
    BY <1>3, ElsewhereFrame DEF vars
  <1> QED
    BY <1>1, <1>2, <1>3, Parts

\* A step of one drainer leaves the others where they were.
LEMMA OneDrainer ==
  ASSUME TypeOK, [Next]_vars, NEW e \in Drainer
  PROVE  dr'[e] = dr[e] \/ DrainerStep(e) \/ DrainerCrash(e)
  <1>1. CASE ProducerStep
    BY <1>1 DEF ProducerStep, ReserveAnswered, ReserveUnanswered, Cancel, ArmFallback, CallProvider,
       PersistExact, Close, Acknowledge, RetryLater, RejectTerminal, LockTimeout, Producing
  <1>2. CASE PersistPreReserve \/ ProducerCrash \/ vars' = vars
    BY <1>2, Zenon DEF PersistPreReserve, ProducerCrash, vars
  <1>3. ASSUME NEW d \in Drainer, DrainerStep(d) \/ DrainerCrash(d), d # e PROVE dr'[e] = dr[e]
    <2>1. dr \in [Drainer -> DrainerState]
      BY DEF TypeOK
    <2> QED
      BY <1>3, <2>1 DEF DrainerStep, DrainerCrash, Step, List, ListDone, Skip, SaveCorrupt, UnlinkCorrupt,
         Read, Claim, Dispatch, Complete, ReturnForRetry, DeadLetter, UnlinkBuried, Reclaim
  <1>4. ASSUME NEW k \in Key, LockExpires(k) PROVE dr'[e] = dr[e]
    BY <1>4 DEF LockExpires
  <1>5. ASSUME NEW op \in Operation, LateArrives(op) PROVE dr'[e] = dr[e]
    BY <1>5 DEF LateArrives
  <1> QED
    BY <1>1, <1>2, <1>3, <1>4, <1>5 DEF Next

\* How a drainer's claim, its answer and its dead letter come about.
LEMMA DrainerLaw ==
  ASSUME TypeOK, [Next]_vars, NEW e \in Drainer
  PROVE  \/ Claim(e) /\ dr'[e].claim = claims + 1 /\ dr'[e].verdict = "retry" /\ dr'[e].pc # "buried"
         \/ /\ dr'[e].claim = dr[e].claim
            /\ \/ dr'[e].pc = dr[e].pc /\ dr'[e].verdict = dr[e].verdict
               \/ dr'[e].pc \notin {"answered", "buried"}
               \/ /\ dr'[e].pc = "answered"
                  /\ \E c \in processing :
                        /\ Dispatch(e, c)
                        /\ dr'[e].verdict = "ok" => Answered(OpOf(c.kind), "ok")
               \/ dr'[e].pc = "buried" /\ \E c \in processing : DeadLetter(e, c)
  <1>t. dr \in [Drainer -> DrainerState]
    BY DEF TypeOK
  <1>p. \A l : Step(e, l) => /\ dr'[e].pc = l /\ dr'[e].claim = dr[e].claim
                             /\ dr'[e].verdict = dr[e].verdict
    BY <1>t DEF Step, DrainerState
  <1>1. CASE dr'[e] = dr[e]
    BY <1>1
  <1>2. CASE List(e)
    <2>1. dr'[e].pc = "listed" /\ dr'[e].claim = dr[e].claim
      BY <1>2, <1>t DEF List, DrainerState
    <2> QED
      BY <2>1
  <1>3. CASE ListDone(e) \/ Skip(e) \/ SaveCorrupt(e) \/ UnlinkCorrupt(e) \/ DrainerCrash(e)
    BY <1>3, <1>p DEF ListDone, Skip, SaveCorrupt, UnlinkCorrupt, DrainerCrash
  <1>4. ASSUME NEW i \in RecordId, Read(e, i)
        PROVE  dr'[e].pc \notin {"answered", "buried"} /\ dr'[e].claim = dr[e].claim
    BY <1>4, <1>t DEF Read, DrainerState
  <1>5. CASE Claim(e)
    <2>1. dr'[e].claim = claims + 1 /\ dr'[e].verdict = "retry" /\ dr'[e].pc # "buried"
      BY <1>5, <1>t DEF Claim, DrainerState
    <2> QED
      BY <1>5, <2>1
  <1>6. ASSUME NEW c \in processing, Dispatch(e, c)
        PROVE  /\ dr'[e].pc = "answered" /\ dr'[e].claim = dr[e].claim
               /\ dr'[e].verdict = "ok" => Answered(OpOf(c.kind), "ok")
    <2>1. PICK v \in {"ok", "retry", "terminal"} :
             /\ Answered(OpOf(c.kind), v) \/ Unbooked(OpOf(c.kind), v)
             /\ dr' = [dr EXCEPT ![e].pc = "answered", ![e].verdict = v]
      BY <1>6 DEF Dispatch
    <2>2. dr'[e].pc = "answered" /\ dr'[e].claim = dr[e].claim /\ dr'[e].verdict = v
      BY <2>1, <1>t DEF DrainerState
    <2>3. v = "ok" => Answered(OpOf(c.kind), "ok")
      BY <2>1 DEF Unbooked
    <2> QED
      BY <2>2, <2>3
  <1>7. ASSUME NEW c \in processing, Complete(e, c) \/ ReturnForRetry(e, c) \/ UnlinkBuried(e, c)
        PROVE  dr'[e].pc = "listed" /\ dr'[e].claim = dr[e].claim
    BY <1>7, <1>p DEF Complete, ReturnForRetry, UnlinkBuried
  <1>8. ASSUME NEW c \in processing, DeadLetter(e, c)
        PROVE  dr'[e].pc = "buried" /\ dr'[e].claim = dr[e].claim
    BY <1>8, <1>p DEF DeadLetter
  <1>9. ASSUME NEW c \in processing, Reclaim(e, c) PROVE dr'[e] = dr[e]
    BY <1>9 DEF Reclaim
  <1> QED
    BY <1>1, <1>2, <1>3, <1>4, <1>5, <1>6, <1>7, <1>8, <1>9, OneDrainer DEF DrainerStep

\* What is in processing/ was there before, under the same name and of the same
\* kind, or has just been claimed.
LEMMA ClaimLaw ==
  ASSUME TypeOK, Unique, [Next]_vars
  PROVE  \/ \E d \in Drainer : Claim(d)
         \/ /\ claims' = claims
            /\ Unique'
            /\ \A e \in processing' :
                  \E c \in processing : e.claim = c.claim /\ e.kind = c.kind /\ e.id = c.id
  <1> DEFINE Goal == /\ claims' = claims
                     /\ Unique'
                     /\ \A e \in processing' :
                           \E c \in processing : e.claim = c.claim /\ e.kind = c.kind /\ e.id = c.id
  <1>0. claims' = claims /\ processing' \subseteq processing => Goal
    BY DEF Unique
  <1>1. CASE Still \/ PersistPreReserve \/ Cancel \/ ArmFallback \/ PersistExact
    BY <1>1, <1>0 DEF Still, PersistPreReserve, Cancel, ArmFallback, PersistExact
  <1>2. CASE Acknowledge
    BY <1>2, <1>0 DEF Acknowledge
  <1>3. CASE RetryLater \/ RejectTerminal
    <2>1. claims' = claims
      BY <1>3 DEF RetryLater, RejectTerminal
    <2>2. CASE UNCHANGED <<pending, processing, dead>> \/ PendingHandled
      BY <1>0, <2>1, <2>2 DEF PendingHandled
    <2>3. CASE ClaimHandled
      BY <1>0, <2>1, <2>3 DEF ClaimHandled, Unique
    <2> QED
      BY <1>3, <2>2, <2>3, Handling
  <1>4. ASSUME NEW d \in Drainer, UnlinkCorrupt(d) PROVE Goal
    BY <1>4, <1>0 DEF UnlinkCorrupt
  <1>5. ASSUME NEW d \in Drainer, NEW c \in processing,
               \/ Complete(d, c) \/ ReturnForRetry(d, c) \/ DeadLetter(d, c)
               \/ UnlinkBuried(d, c) \/ Reclaim(d, c)
        PROVE  Goal
    <2>1. claims' = claims /\ processing' \subseteq processing
      BY <1>5 DEF Complete, ReturnForRetry, DeadLetter, UnlinkBuried, Reclaim
    <2> QED
      BY <2>1, <1>0
  <1> QED
    BY <1>1, <1>2, <1>3, <1>4, <1>5, FileCases

\* A claim is the next token and the record that was pending.
LEMMA Claiming ==
  ASSUME TypeOK, NEW d \in Drainer, Claim(d)
  PROVE  /\ dr[d].id \in RecordId /\ Exists(dr[d].id) /\ pending[dr[d].id] \in File
         /\ claims' = claims + 1
         /\ pending' = [pending EXCEPT ![dr[d].id] = NoFile]
         /\ \E e : /\ processing' = processing \union {e}
                   /\ e.claim = claims + 1 /\ e.id = dr[d].id /\ e.kind = pending[dr[d].id].kind
         /\ UNCHANGED <<prod, dispatched, exactSaved, runs, row, late, dead>>
         /\ overrun' = (overrun \/ ~Timely(pending[dr[d].id].kind))
  <1>1. dr[d].id \in RecordId
    BY DEF TypeOK, DrainerState
  <1>2. Exists(dr[d].id)
    BY DEF Claim, Current, Exists
  <1>3. pending[dr[d].id] \in File
    BY <1>1, <1>2 DEF TypeOK, Exists
  <1> DEFINE e == [claim |-> claims + 1, id |-> dr[d].id,
                   kind |-> pending[dr[d].id].kind, attempts |-> pending[dr[d].id].attempts]
  <1>4. /\ processing' = processing \union {e}
        /\ e.claim = claims + 1 /\ e.id = dr[d].id /\ e.kind = pending[dr[d].id].kind
    BY DEF Claim
  <1>5. /\ claims' = claims + 1
        /\ pending' = [pending EXCEPT ![dr[d].id] = NoFile]
        /\ UNCHANGED <<prod, dispatched, exactSaved, runs, row, late, dead>>
        /\ overrun' = (overrun \/ ~Timely(pending[dr[d].id].kind))
    BY DEF Claim, Drained, core, Overrun
  <1> HIDE DEF e
  <1> QED
    BY <1>1, <1>2, <1>3, <1>4, <1>5

LEMMA TokensStep == ASSUME TypeOK, Tokens, [Next]_vars PROVE Tokens'
  <1>n. claims \in Nat /\ (\A c \in processing : c.claim \in Nat) /\ \A d \in Drainer : dr[d].claim \in Nat
    BY DEF TypeOK, Claimed, DrainerState
  <1>1. CASE \E d \in Drainer : Claim(d)
    <2>1. PICK d \in Drainer : Claim(d)
      BY <1>1
    <2>2. PICK e : /\ processing' = processing \union {e} /\ e.claim = claims + 1
      BY <2>1, Claiming
    <2>3. claims' = claims + 1
      BY <2>1, Claiming
    <2>4. \A x \in Drainer : dr'[x].claim = dr[x].claim \/ dr'[x].claim = claims + 1
      BY DrainerLaw
    <2> QED
      BY <1>n, <2>2, <2>3, <2>4 DEF Tokens, Unique
  <1>2. CASE /\ claims' = claims
             /\ Unique'
             /\ \A e \in processing' :
                   \E c \in processing : e.claim = c.claim /\ e.kind = c.kind /\ e.id = c.id
    <2>1. \A x \in Drainer : dr'[x].claim = dr[x].claim
      <3>1. \A x \in Drainer : Claim(x) => claims' # claims
        BY <1>n DEF Claim
      <3> QED
        BY <1>2, <3>1, DrainerLaw
    <2> QED
      BY <1>2, <2>1 DEF Tokens
  <1> QED
    BY <1>1, <1>2, ClaimLaw DEF Tokens

\* Only a close that Core accepted is taken for confirmed, and Core keeps it.
LEMMA BookedStep == ASSUME TypeOK, Tokens, Booked, [Next]_vars PROVE Booked'
  <1>r. RowMoves /\ row \in Row /\ row' \in Row
    <2>1. TypeOK'
      BY TypeStep DEF Tokens
    <2>2. row' \in Row
      BY <2>1 DEF TypeOK
    <2>3. row \in Row
      BY DEF TypeOK
    <2> QED
      BY <2>2, <2>3, RowLaw
  <1>n. claims \in Nat /\ (\A c \in processing : c.claim \in Nat) /\ \A d \in Drainer : dr[d].claim \in Nat
    BY DEF TypeOK, Claimed, DrainerState
  <1>1. prod'.pc = "acknowledge" => row' = "exact"
    <2>1. CASE prod.pc = "acknowledge" /\ prod'.pc = "acknowledge"
      BY <2>1, <1>r DEF Booked, RowMoves
    <2>2. CASE Close /\ prod'.pc = "acknowledge"
      <3>1. PICK v \in {"ok", "retry", "terminal"} :
               /\ Answered("exact", v) \/ Unbooked("exact", v)
               /\ Go(CASE v = "ok" -> "acknowledge" [] v = "retry" -> "retry" [] OTHER -> "reject")
        BY <2>2 DEF Close
      <3>2. v = "ok"
        BY <3>1, <2>2 DEF Go, TypeOK, Producer
      <3>3. Answered("exact", "ok")
        BY <3>1, <3>2 DEF Unbooked
      <3> QED
        BY <3>3 DEF Answered, Verdict, After
    <2> QED
      BY <2>1, <2>2, ProducerLaw
  <1>2. ASSUME NEW d \in Drainer, NEW e \in processing',
               e.claim = dr'[d].claim, dr'[d].pc = "answered", dr'[d].verdict = "ok"
        PROVE  row' \notin {"none", "reserved"} /\ (e.kind = "exact" => row' = "exact")
    <2>1. dr'[d].claim = dr[d].claim
      BY <1>2, DrainerLaw
    <2>2. PICK c \in processing : e.claim = c.claim /\ e.kind = c.kind /\ e.id = c.id
      <3>1. ASSUME NEW x \in Drainer, Claim(x) PROVE e \in processing
        <4>1. PICK f : processing' = processing \union {f} /\ f.claim = claims + 1
          BY <3>1, Claiming
        <4> QED
          BY <4>1, <1>2, <1>n, <2>1 DEF Tokens
      <3> QED
        BY <1>2, <3>1, ClaimLaw DEF Tokens
    <2>3. CASE dr'[d].pc = dr[d].pc /\ dr'[d].verdict = dr[d].verdict
      <3>1. row \notin {"none", "reserved"} /\ (c.kind = "exact" => row = "exact")
        BY <1>2, <2>1, <2>2, <2>3 DEF Booked
      <3> QED
        BY <3>1, <2>2, <1>r DEF RowMoves, Row
    <2>4. ASSUME NEW b \in processing, Dispatch(d, b), Answered(OpOf(b.kind), "ok")
          PROVE  row' \notin {"none", "reserved"} /\ (e.kind = "exact" => row' = "exact")
      <3>1. b = c
        BY <1>2, <2>1, <2>2, <2>4 DEF Dispatch, Mine, Tokens, Unique
      <3>2. b.kind \in Kind
        BY DEF TypeOK, Claimed
      <3> QED
        BY <2>2, <2>4, <3>1, <3>2, <1>r DEF Answered, Verdict, After, OpOf, Kind, Row
    <2> QED
      BY <1>2, <2>1, <2>3, <2>4, DrainerLaw
  <1> QED
    BY <1>1, <1>2 DEF Booked

-----------------------------------------------------------------------------
(* The one file of a submission.                                            *)

\* Apart from the three writes of the producer, a step moves the file, counts an
\* attempt on it or removes it, and never changes what it says.
LEMMA FilesMove ==
  ASSUME TypeOK, Unique, OneFile, [Next]_vars, ~PersistPreReserve, ~ArmFallback, ~PersistExact
  PROVE  OneFile' /\ \A k \in Kind : HasFile(k)' => HasFile(k)
  <1> DEFINE Goal == OneFile' /\ \A k \in Kind : HasFile(k)' => HasFile(k)
  <1>t. /\ pending \in [RecordId -> File \union {NoFile}]
        /\ \A c \in processing : c \in Claimed /\ c.id \in RecordId /\ c.kind \in Kind
    BY DEF TypeOK, Claimed
  <1>n. NoFile \notin File /\ NoFile.kind \notin Kind
    BY DEF NoFile, File, Kind
  <1>0. ASSUME \A i \in RecordId : pending'[i] \in {pending[i], NoFile},
               processing' \subseteq processing
        PROVE  Goal
    BY <1>0, <1>n DEF OneFile, HasFile, Exists
  <1>1. CASE Still
    BY <1>1, <1>0 DEF Still
  <1>2. CASE Cancel
    BY <1>2, <1>0, <1>t DEF Cancel
  <1>3. CASE Acknowledge
    BY <1>3, <1>0 DEF Acknowledge
  <1>4. CASE RetryLater \/ RejectTerminal
    <2>1. CASE UNCHANGED <<pending, processing, dead>>
      BY <2>1, <1>0
    <2>2. CASE PendingHandled
      <3>1. PICK i \in RecordId :
               /\ Exists(i)
               /\ processing' = processing
               /\ \/ \E n \in 0 .. MaxAttempts :
                        pending' = [pending EXCEPT ![i] = [kind |-> pending[i].kind, attempts |-> n]]
                  \/ pending' = [pending EXCEPT ![i] = NoFile]
        BY <2>2 DEF PendingHandled
      <3>2. CASE pending' = [pending EXCEPT ![i] = NoFile]
        BY <3>1, <3>2, <1>0, <1>t
      <3>3. ASSUME NEW n \in 0 .. MaxAttempts,
                   pending' = [pending EXCEPT ![i] = [kind |-> pending[i].kind, attempts |-> n]]
            PROVE  Goal
        <4>1. \A j \in RecordId : /\ pending'[j].kind = pending[j].kind
                                  /\ j # i => pending'[j] = pending[j]
          BY <3>3, <1>t
        <4> QED
          BY <3>1, <4>1 DEF OneFile, HasFile, Exists
      <3> QED
        BY <3>1, <3>2, <3>3
    <2>3. CASE ClaimHandled
      <3>1. PICK c \in processing :
               /\ pending' = pending
               /\ \/ \E n \in 0 .. MaxAttempts :
                        processing' = (processing \ {c}) \union
                            {[claim |-> c.claim, id |-> c.id, kind |-> c.kind, attempts |-> n]}
                  \/ processing' = processing \ {c}
        BY <2>3 DEF ClaimHandled
      <3>2. CASE processing' = processing \ {c}
        BY <3>1, <3>2, <1>0
      <3>3. ASSUME NEW n \in 0 .. MaxAttempts,
                   processing' = (processing \ {c}) \union
                       {[claim |-> c.claim, id |-> c.id, kind |-> c.kind, attempts |-> n]}
            PROVE  Goal
        <4>1. processing' = {[claim |-> c.claim, id |-> c.id, kind |-> c.kind, attempts |-> n]}
          BY <3>3 DEF OneFile
        <4> QED
          BY <3>1, <4>1 DEF OneFile, HasFile, Exists
      <3> QED
        BY <3>1, <3>2, <3>3
    <2> QED
      BY <1>4, <2>1, <2>2, <2>3, Handling
  <1>5. ASSUME NEW d \in Drainer, UnlinkCorrupt(d) PROVE Goal
    BY <1>5, <1>0, <1>t DEF UnlinkCorrupt
  <1>6. ASSUME NEW d \in Drainer, Claim(d) PROVE Goal
    <2>1. /\ dr[d].id \in RecordId /\ Exists(dr[d].id)
          /\ pending' = [pending EXCEPT ![dr[d].id] = NoFile]
      BY <1>6, Claiming
    <2>2. PICK e : processing' = processing \union {e} /\ e.kind = pending[dr[d].id].kind
      BY <1>6, Claiming
    <2>3. processing' = {e} /\ \A i \in RecordId : pending'[i] = NoFile
      BY <2>1, <2>2, <1>t DEF OneFile, Exists
    <2> QED
      BY <2>1, <2>2, <2>3, <1>n DEF OneFile, HasFile, Exists
  <1>7. ASSUME NEW d \in Drainer, NEW c \in processing,
               Complete(d, c) \/ DeadLetter(d, c) \/ UnlinkBuried(d, c)
        PROVE  Goal
    BY <1>7, <1>0 DEF Complete, DeadLetter, UnlinkBuried
  <1>8. ASSUME NEW d \in Drainer, NEW c \in processing, ReturnForRetry(d, c) \/ Reclaim(d, c)
        PROVE  Goal
    <2>1. processing' = processing \ {c}
      BY <1>8 DEF ReturnForRetry, Reclaim
    <2>2. ~Exists(c.id) /\ processing' = {} /\ \A i \in RecordId : pending[i] = NoFile
      BY <2>1, <1>t DEF OneFile, Exists
    <2>3. PICK n : pending' = [pending EXCEPT ![c.id] = [kind |-> c.kind, attempts |-> n]]
      BY <1>8, <2>2 DEF ReturnForRetry, Reclaim
    <2>4. \A i \in RecordId : /\ i # c.id => pending'[i] = NoFile
                              /\ i = c.id => pending'[i].kind = c.kind
      BY <2>2, <2>3, <1>t
    <2> QED
      BY <2>2, <2>4, <1>n DEF OneFile, HasFile, Exists
  <1> QED
    BY <1>1, <1>2, <1>3, <1>4, <1>5, <1>6, <1>7, <1>8, FileCases

\* The marker of the first submission.
LEMMA MarkerWritten ==
  ASSUME TypeOK, Untouched, runs = 0, PersistPreReserve
  PROVE  /\ prod'.pc = "marked" /\ dispatched' = 0 /\ ~exactSaved'
         /\ processing' = {} /\ pending'["pre"].kind = "pre_reserve" /\ pending'["close"] = NoFile
         /\ row' = "none" /\ late' = {} /\ dr' = dr
         /\ \A d \in Drainer : dr'[d].pc = "idle"
  <1>1. prod'.pc = "marked"
    BY DEF PersistPreReserve, Go, TypeOK, Producer
  <1>2. ~exactSaved'
    <2>1. exactSaved' = exactSaved
      BY DEF PersistPreReserve
    <2> QED
      BY <2>1 DEF Untouched
  <1> QED
    BY <1>1, <1>2 DEF PersistPreReserve, Untouched, core, RecordId

\* The marker becomes the fallback.
LEMMA FallbackArmed ==
  ASSUME TypeOK, OneFile, ArmFallback
  PROVE  \/ UNCHANGED <<pending, processing>> /\ prod'.pc = "idle"
         \/ /\ prod'.pc \in {"armed", "idle"}
            /\ HasFile("pre_reserve")
            /\ processing' = {} /\ processing = {}
            /\ pending'["pre"] = [kind |-> "fallback", attempts |-> 0] /\ pending'["close"] = NoFile
            /\ \A i \in RecordId : Exists(i) => Exists(i)'
  <1>p. \A l : Go(l) => prod'.pc = l
    BY DEF Go, TypeOK, Producer
  <1>t. pending \in [RecordId -> File \union {NoFile}]
    BY DEF TypeOK
  <1>1. CASE pending["pre"].kind = "pre_reserve"
    <2>1. HasFile("pre_reserve") /\ Exists("pre")
      BY <1>1 DEF HasFile, Exists, RecordId, NoFile
    <2>2. processing = {} /\ pending["close"] = NoFile
      BY <2>1 DEF OneFile, Exists, RecordId
    <2>3. /\ prod'.pc \in {"armed", "idle"} /\ processing' = {}
          /\ pending'["pre"] = [kind |-> "fallback", attempts |-> 0] /\ pending'["close"] = NoFile
      BY <1>1, <1>p, <1>t, <2>1, <2>2 DEF ArmFallback, RecordId
    <2>4. \A i \in RecordId : Exists(i) => Exists(i)'
      BY <2>2, <2>3 DEF Exists, RecordId, NoFile
    <2> QED
      BY <2>1, <2>2, <2>3, <2>4
  <1>2. CASE pending["pre"].kind # "pre_reserve"
    BY <1>2, <1>p DEF ArmFallback
  <1> QED
    BY <1>1, <1>2

\* The measured cost takes the place of the fallback, or a place of its own.
LEMMA ExactWritten ==
  ASSUME TypeOK, OneFile, ~HasFile("pre_reserve"), PersistExact
  PROVE  \/ UNCHANGED <<pending, processing, exactSaved>> /\ prod'.pc = "idle"
         \/ /\ prod'.pc = "exact"
            /\ OneFile' /\ HasFile("exact")' /\ ~HasFile("pre_reserve")' /\ ~HasFile("fallback")'
            /\ \A i \in RecordId : Exists(i) => Exists(i)'
  <1>t. /\ pending \in [RecordId -> File \union {NoFile}]
        /\ \A c \in processing : c \in Claimed /\ c.id \in RecordId /\ c.kind \in Kind
        /\ prod \in Producer
    BY DEF TypeOK, Claimed
  <1>n. NoFile \notin File /\ NoFile.kind = "none" /\ \A f \in File : f.kind \in Kind
    BY DEF NoFile, File, Kind
  <1>q. processing' = processing
    BY DEF PersistExact
  <1> DEFINE Goal == /\ prod'.pc = "exact"
                     /\ OneFile' /\ HasFile("exact")' /\ ~HasFile("pre_reserve")' /\ ~HasFile("fallback")'
                     /\ \A i \in RecordId : Exists(i) => Exists(i)'
  <1>1. ASSUME ExactFails PROVE UNCHANGED <<pending, processing, exactSaved>> /\ prod'.pc = "idle"
    BY <1>1, <1>q, <1>t DEF ExactFails, Go, Producer
  <1>2. ASSUME NEW i \in RecordId, NEW f, f.kind = "exact", f # NoFile, SaveExact(i, f),
               processing = {}, \A j \in RecordId : j # i => pending[j] = NoFile
        PROVE  Goal
    <2>1. prod'.pc = "exact"
      BY <1>2, <1>t DEF SaveExact, Producer
    <2>2. pending'[i] = f /\ \A j \in RecordId : j # i => pending'[j] = NoFile
      BY <1>2, <1>t DEF SaveExact
    <2>3. OneFile'
      BY <1>2, <1>q, <2>2 DEF OneFile, Exists
    <2>4. HasFile("exact")' /\ ~HasFile("pre_reserve")' /\ ~HasFile("fallback")'
      BY <1>2, <1>n, <1>q, <2>2 DEF HasFile
    <2>5. \A j \in RecordId : Exists(j) => Exists(j)'
      BY <1>2, <2>2 DEF Exists
    <2> QED
      BY <2>1, <2>3, <2>4, <2>5
  <1>3. ASSUME NEW i \in ActivePending,
               SaveExact(i, IF pending[i].kind = "exact" THEN pending[i] ELSE [kind |-> "exact", attempts |-> 0])
        PROVE  Goal
    <2> DEFINE f == IF pending[i].kind = "exact" THEN pending[i] ELSE [kind |-> "exact", attempts |-> 0]
    <2>1. i \in RecordId /\ Exists(i)
      BY <1>n DEF ActivePending, Exists
    <2>2. f.kind = "exact" /\ f # NoFile
      BY DEF NoFile
    <2>3. processing = {} /\ \A j \in RecordId : j # i => pending[j] = NoFile
      BY <2>1 DEF OneFile, Exists
    <2>4. SaveExact(i, f)
      BY <1>3
    <2> HIDE DEF f
    <2> QED
      BY <1>2, <2>1, <2>2, <2>3, <2>4
  <1>4. ASSUME NEW f \in ActiveProcessing, f.kind = "exact", UNCHANGED pending,
               prod' = [prod EXCEPT !.pc = "exact", !.handle = <<"processing", f.claim>>]
        PROVE  Goal
    <2>1. prod'.pc = "exact"
      BY <1>4, <1>t DEF Producer
    <2>2. f \in processing /\ (\A c \in processing : c = f) /\ \A i \in RecordId : pending[i] = NoFile
      BY DEF ActiveProcessing, OneFile, Exists
    <2> QED
      BY <1>4, <1>q, <1>n, <2>1, <2>2 DEF OneFile, HasFile, Exists
  <1>5. ASSUME ActivePending = {}, ActiveProcessing = {}, SaveExact("close", [kind |-> "exact", attempts |-> 0])
        PROVE  Goal
    <2>1. processing = {}
      BY <1>5, <1>t DEF ActiveProcessing, HasFile, Kind
    <2>2. \A i \in RecordId : pending[i] = NoFile
      BY <1>5, <1>t, <1>n DEF ActivePending, HasFile, Kind
    <2>3. "close" \in RecordId
      BY DEF RecordId
    <2> QED
      BY <1>2, <1>5, <2>1, <2>2, <2>3 DEF NoFile
  <1> QED
    BY <1>1, <1>3, <1>4, <1>5 DEF PersistExact

LEMMA ProgressStep ==
  ASSUME TypeOK, Dispatching, Untouched, Unique, Once => OneFile /\ Progress, Once', [Next]_vars
  PROVE  OneFile' /\ Progress'
  <1>o. Once /\ OneFile /\ Progress
    BY RunsGrow
  <1>d. dispatched \in {0, 1}
    BY DEF Dispatching
  <1>1. CASE PersistPreReserve
    <2>1. runs = 0
      BY <1>1, RunsGrow
    <2>2. /\ prod'.pc = "marked" /\ dispatched' = 0 /\ ~exactSaved'
          /\ processing' = {} /\ pending'["close"] = NoFile
      BY <1>1, <2>1, MarkerWritten
    <2> QED
      BY <2>2 DEF OneFile, Progress, RecordId, Exists
  <1>2. CASE ArmFallback
    <2>1. prod.pc = "reserved" /\ dispatched' = dispatched /\ exactSaved' = exactSaved
      BY <1>2 DEF ArmFallback
    <2>2. dispatched = 0 /\ ~exactSaved
      BY <1>o, <2>1 DEF Progress
    <2>3. CASE UNCHANGED <<pending, processing>> /\ prod'.pc = "idle"
      <3>1. OneFile' /\ \A k : HasFile(k)' <=> HasFile(k)
        BY <2>3, <1>o DEF OneFile, HasFile, Exists
      <3> QED
        BY <1>o, <2>1, <2>2, <2>3, <3>1 DEF Progress
    <2>4. CASE /\ prod'.pc \in {"armed", "idle"}
               /\ processing' = {}
               /\ pending'["pre"] = [kind |-> "fallback", attempts |-> 0] /\ pending'["close"] = NoFile
      <3>1. OneFile' /\ ~HasFile("pre_reserve")'
        BY <2>4 DEF OneFile, HasFile, Exists, RecordId, NoFile
      <3> QED
        BY <2>1, <2>2, <2>4, <3>1 DEF Progress
    <2> QED
      BY <1>2, <1>o, <2>3, <2>4, FallbackArmed
  <1>3. CASE PersistExact
    <2>1. prod.pc = "called" /\ dispatched' = dispatched
      BY <1>3 DEF PersistExact
    <2>2. dispatched = 1 /\ ~HasFile("pre_reserve")
      BY <1>o, <2>1 DEF Progress
    <2>3. CASE UNCHANGED <<pending, processing, exactSaved>> /\ prod'.pc = "idle"
      <3>1. OneFile' /\ \A k : HasFile(k)' <=> HasFile(k)
        BY <2>3, <1>o DEF OneFile, HasFile, Exists
      <3> QED
        BY <1>o, <2>1, <2>2, <2>3, <3>1 DEF Progress
    <2>4. CASE prod'.pc = "exact" /\ OneFile' /\ ~HasFile("pre_reserve")' /\ ~HasFile("fallback")'
      BY <2>1, <2>2, <2>4 DEF Progress
    <2> QED
      BY <1>3, <1>o, <2>2, <2>3, <2>4, ExactWritten
  <1>4. CASE ~PersistPreReserve /\ ~ArmFallback /\ ~PersistExact
    <2>1. OneFile' /\ \A k \in Kind : HasFile(k)' => HasFile(k)
      BY <1>4, <1>o, FilesMove
    <2>2. exactSaved' = exactSaved
      BY <1>4, ProducerLaw
    <2>3. (HasFile("pre_reserve")' => HasFile("pre_reserve")) /\ (HasFile("fallback")' => HasFile("fallback"))
      BY <2>1 DEF Kind
    <2>4. CASE CallProvider
      <3>1. prod.pc = "armed" /\ prod'.pc = "called" /\ dispatched' = dispatched + 1
        BY <2>4 DEF CallProvider, Go, TypeOK, Producer
      <3>2. dispatched = 0 /\ ~exactSaved /\ ~HasFile("pre_reserve")
        BY <1>o, <3>1 DEF Dispatching, Progress
      <3> QED
        BY <2>1, <2>2, <2>3, <3>1, <3>2 DEF Progress
    <2>5. CASE ~CallProvider
      <3>1. dispatched' = dispatched
        BY <2>5, ProducerLaw
      <3>2. \/ prod'.pc = prod.pc \/ prod'.pc = "idle"
            \/ prod.pc = "marked" /\ prod'.pc \in {"reserved", "denied"}
            \/ prod.pc = "exact" /\ prod'.pc \in {"acknowledge", "retry", "reject"}
        BY <1>4, <2>5, ProducerLaw DEF ReserveAnswered, Close
      <3> QED
        BY <1>o, <2>1, <2>2, <2>3, <3>1, <3>2 DEF Progress
    <2> QED
      BY <2>4, <2>5
  <1> QED
    BY <1>1, <1>2, <1>3, <1>4

-----------------------------------------------------------------------------
(* Recovery and dead letters.                                               *)

\* A reservation is given back because the marker was claimed.
LEMMA RecoverLaw ==
  ASSUME TypeOK, Unique, [Next]_vars, Recovering'
  PROVE  Recovering \/ \E d \in Drainer : Claim(d) /\ pending[dr[d].id].kind = "pre_reserve"
  <1>r. row \in Row
    BY DEF TypeOK
  <1>k. \A c \in processing : c.kind \in Kind
    BY DEF TypeOK, Claimed
  <1>1. CASE \E e \in processing' : e.kind = "pre_reserve"
    <2>1. PICK e \in processing' : e.kind = "pre_reserve"
      BY <1>1
    <2>2. ASSUME NEW d \in Drainer, Claim(d)
          PROVE  Recovering \/ (Claim(d) /\ pending[dr[d].id].kind = "pre_reserve")
      <3>1. PICK f : processing' = processing \union {f} /\ f.kind = pending[dr[d].id].kind
        BY <2>2, Claiming
      <3> QED
        BY <2>1, <2>2, <3>1 DEF Recovering
    <2> QED
      BY <2>1, <2>2, ClaimLaw DEF Recovering
  <1>a. ASSUME NEW op \in Operation, op # "recover", NEW v, Answered(op, v) \/ Unbooked(op, v),
               "recover" \in late' \/ row' = "released"
        PROVE  Recovering
    BY <1>a, <1>r DEF Answered, Unbooked, After, Operation, Row, Recovering
  <1>2. CASE "recover" \in late' \/ row' = "released"
    <2>1. CASE late' = late /\ row' = row
      BY <1>2, <2>1 DEF Recovering
    <2>2. CASE ReserveAnswered
      BY <1>2, <1>r, <2>2 DEF ReserveAnswered, After, Row, Recovering
    <2>3. CASE ReserveUnanswered
      BY <1>2, <1>a, <2>3 DEF ReserveUnanswered, Operation
    <2>4. CASE Close
      BY <1>2, <1>a, <2>4 DEF Close, Operation
    <2>5. CASE ProducerStep
      <3>1. \/ ReserveAnswered \/ ReserveUnanswered \/ Close
            \/ late' = late /\ row' = row
        BY <2>5 DEF ProducerStep, Cancel, ArmFallback, CallProvider, PersistExact, Acknowledge, RetryLater,
           RejectTerminal, LockTimeout, core
      <3> QED
        BY <2>1, <2>2, <2>3, <2>4, <3>1
    <2>6. CASE PersistPreReserve \/ ProducerCrash \/ vars' = vars
      BY <2>1, <2>6 DEF PersistPreReserve, ProducerCrash, core, vars
    <2>7. ASSUME NEW d \in Drainer, DrainerStep(d) \/ DrainerCrash(d) PROVE Recovering
      <3>1. ASSUME NEW c \in processing, Dispatch(d, c) PROVE Recovering
        <4>1. CASE c.kind = "pre_reserve"
          BY <4>1 DEF Recovering
        <4>2. CASE c.kind # "pre_reserve"
          <5>1. OpOf(c.kind) \in Operation /\ OpOf(c.kind) # "recover"
            BY <1>k, <4>2 DEF OpOf, Kind, Operation
          <5> QED
            BY <1>2, <1>a, <3>1, <5>1 DEF Dispatch
        <4> QED
          BY <4>1, <4>2
      <3>2. (\E c \in processing : Dispatch(d, c)) \/ (late' = late /\ row' = row)
        BY <2>7 DEF DrainerStep, DrainerCrash, List, ListDone, Skip, SaveCorrupt, UnlinkCorrupt,
           Read, Claim, Complete, ReturnForRetry, DeadLetter, UnlinkBuried, Reclaim, core
      <3> QED
        BY <1>2, <3>1, <3>2 DEF Recovering
    <2>8. ASSUME NEW k \in Key, LockExpires(k) PROVE late' = late /\ row' = row
      BY <2>8 DEF LockExpires, core
    <2>9. ASSUME NEW op \in Operation, LateArrives(op) PROVE Recovering
      BY <1>2, <1>r, <2>9 DEF LateArrives, After, Operation, Row, Recovering
    <2> QED
      BY <2>1, <2>5, <2>6, <2>7, <2>8, <2>9 DEF Next
  <1> QED
    BY <1>1, <1>2 DEF Recovering

\* A deadline that has passed stays passed.
LEMMA OverrunStays == ASSUME TypeOK, [Next]_vars, overrun PROVE overrun'
  <1>1. CASE ProducerStep \/ PersistPreReserve \/ ProducerCrash \/ vars' = vars
    <2>1. overrun' = overrun
      BY <1>1 DEF ProducerStep, ReserveAnswered, ReserveUnanswered, Cancel, ArmFallback, CallProvider,
         PersistExact, Close, Acknowledge, RetryLater, RejectTerminal, LockTimeout, Producing,
         PersistPreReserve, ProducerCrash, vars
    <2> QED
      BY <2>1
  <1>2. ASSUME NEW d \in Drainer, DrainerStep(d) \/ DrainerCrash(d) PROVE overrun'
    <2>1. CASE Claim(d)
      BY <2>1 DEF Claim, Overrun
    <2>2. ASSUME NEW c \in processing, Reclaim(d, c) PROVE overrun'
      BY <2>2 DEF Reclaim, Overrun
    <2>3. Claim(d) \/ (\E c \in processing : Reclaim(d, c)) \/ overrun' = overrun
      BY <1>2 DEF DrainerStep, DrainerCrash, List, ListDone, Skip, SaveCorrupt, UnlinkCorrupt,
         Read, Dispatch, Complete, ReturnForRetry, DeadLetter, UnlinkBuried, Draining
    <2> QED
      BY <2>1, <2>2, <2>3
  <1>3. ASSUME NEW k \in Key, LockExpires(k) PROVE overrun'
    BY <1>3 DEF LockExpires, Overrun
  <1>4. ASSUME NEW op \in Operation, LateArrives(op) PROVE overrun'
    BY <1>4 DEF LateArrives
  <1> QED
    BY <1>1, <1>2, <1>3, <1>4 DEF Next

\* A producer that stopped before its call does not make it.
LEMMA RecoveryStep ==
  ASSUME TypeOK, Untouched, Unique, Once => OneFile /\ Progress /\ Recovery, Once', [Next]_vars
  PROVE  Recovery'
  <1>o. Once /\ OneFile /\ Progress /\ Recovery
    BY RunsGrow
  <1>1. SUFFICES ASSUME ~overrun', Recovering' PROVE prod'.pc = "idle" /\ dispatched' = 0
    BY DEF Recovery
  <1>2. ~overrun
    BY <1>1, OverrunStays
  <1>3. ~PersistPreReserve
    <2>1. SUFFICES ASSUME PersistPreReserve PROVE FALSE
      OBVIOUS
    <2>2. runs = 0
      BY <2>1, RunsGrow
    <2>3. processing' = {} /\ row' = "none" /\ late' = {}
      BY <2>1, <2>2, MarkerWritten
    <2> QED
      BY <1>1, <2>3 DEF Recovering
  <1>4. prod.pc = "idle" /\ dispatched = 0
    <2>1. CASE Recovering
      BY <1>o, <1>2, <2>1 DEF Recovery
    <2>2. ASSUME NEW d \in Drainer, Claim(d), pending[dr[d].id].kind = "pre_reserve"
          PROVE  prod.pc = "idle" /\ dispatched = 0
      <3>1. Timely("pre_reserve") /\ dr[d].id \in RecordId
        <4>1. dr[d].id \in RecordId /\ overrun' = (overrun \/ ~Timely(pending[dr[d].id].kind))
          BY <2>2, Claiming
        <4> QED
          BY <1>1, <2>2, <4>1
      <3>2. prod.pc \notin {"marked", "denied", "reserved"}
        BY <3>1 DEF Timely
      <3>3. HasFile("pre_reserve")
        BY <2>2, <3>1 DEF HasFile
      <3> QED
        BY <1>o, <3>2, <3>3 DEF Progress
    <2> QED
      BY <1>1, <2>1, <2>2, RecoverLaw
  <1> QED
    BY <1>3, <1>4, ProducerLaw DEF ReserveAnswered, ArmFallback, CallProvider, PersistExact, Close

\* A dead letter repeats a file that was there.
LEMMA DeadLaw ==
  ASSUME TypeOK, Unique, [Next]_vars
  PROVE  \/ dead' = dead
         \/ \E i \in RecordId : Exists(i) /\ dead' = [dead EXCEPT ![i] = pending[i].kind]
         \/ \E c \in processing : dead' = [dead EXCEPT ![c.id] = c.kind]
  <1>1. CASE RetryLater \/ RejectTerminal
    BY <1>1, Handling DEF PendingHandled, ClaimHandled
  <1>2. CASE Still \/ PersistPreReserve \/ Cancel \/ ArmFallback \/ PersistExact \/ Acknowledge
    BY <1>2 DEF Still, PersistPreReserve, Cancel, ArmFallback, PersistExact, Acknowledge
  <1>3. ASSUME NEW d \in Drainer,
               \/ UnlinkCorrupt(d) \/ Claim(d)
               \/ \E c \in processing : Complete(d, c) \/ ReturnForRetry(d, c) \/ UnlinkBuried(d, c)
        PROVE  dead' = dead
    BY <1>3 DEF UnlinkCorrupt, Claim, Complete, ReturnForRetry, UnlinkBuried
  <1>4. ASSUME NEW d \in Drainer, NEW c \in processing, DeadLetter(d, c) \/ Reclaim(d, c)
        PROVE  dead' = dead \/ dead' = [dead EXCEPT ![c.id] = c.kind]
    BY <1>4 DEF DeadLetter, Reclaim, Bury
  <1> QED
    BY <1>1, <1>2, <1>3, <1>4, FileCases

\* The dead letter is on the disk when its claim is unlinked.
LEMMA BuriedStep ==
  ASSUME TypeOK, Tokens, OneFile, Buried, [Next]_vars PROVE Buried'
  <1>n. claims \in Nat /\ (\A c \in processing : c.claim \in Nat) /\ \A d \in Drainer : dr[d].claim \in Nat
    BY DEF TypeOK, Claimed, DrainerState
  <1>u. Unique
    BY DEF Tokens
  <1>d. dead \in [RecordId -> Kind \union {"none"}] /\ \A c \in processing : c.id \in RecordId
    BY DEF TypeOK, Claimed
  <1>1. SUFFICES ASSUME NEW d \in Drainer, NEW e \in processing',
                        e.claim = dr'[d].claim, dr'[d].pc = "buried"
                 PROVE  dead'[e.id] = e.kind
    BY DEF Buried
  <1>2. dr'[d].claim = dr[d].claim
    BY <1>1, DrainerLaw
  <1>3. PICK c \in processing : e.claim = c.claim /\ e.kind = c.kind /\ e.id = c.id
    <2>1. ASSUME NEW x \in Drainer, Claim(x) PROVE e \in processing
      <3>1. PICK f : processing' = processing \union {f} /\ f.claim = claims + 1
        BY <2>1, Claiming
      <3> QED
        BY <3>1, <1>1, <1>2, <1>n DEF Tokens
    <2> QED
      BY <1>1, <1>u, <2>1, ClaimLaw
  <1>4. CASE dr'[d].pc = dr[d].pc
    <2>1. dead[c.id] = c.kind
      BY <1>1, <1>2, <1>3, <1>4 DEF Buried
    <2>2. CASE dead' = dead
      BY <1>3, <2>1, <2>2
    <2>3. ASSUME NEW i \in RecordId, Exists(i) PROVE FALSE
      BY <2>3 DEF OneFile
    <2>4. ASSUME NEW b \in processing, dead' = [dead EXCEPT ![b.id] = b.kind] PROVE dead'[c.id] = c.kind
      <3>1. b = c
        BY DEF OneFile
      <3> QED
        BY <2>4, <3>1, <1>d
    <2> QED
      BY <1>3, <1>u, <2>2, <2>3, <2>4, DeadLaw
  <1>5. ASSUME NEW b \in processing, DeadLetter(d, b) PROVE dead'[e.id] = e.kind
    <2>1. b = c
      BY DEF OneFile
    <2> QED
      BY <1>3, <1>5, <2>1, <1>d DEF DeadLetter, Bury
  <1> QED
    BY <1>1, <1>4, <1>5, DrainerLaw

-----------------------------------------------------------------------------
(* Any number of drainers.                                                  *)

LEMMA InitInv == Init => Inv
  <1>1. SUFFICES ASSUME Init PROVE Inv
    OBVIOUS
  <1>p. prod \in Producer
    <2>1. <<"pending", "pre">> \in {<<"pending", i>> : i \in RecordId}
      BY DEF RecordId
    <2> QED
      BY <1>1, <2>1 DEF Init, Producer
  <1>d. dr \in [Drainer -> DrainerState]
    BY <1>1 DEF Init, DrainerState, RecordId, Key
  <1>2. TypeOK
    <2>1. /\ pending \in [RecordId -> File \union {NoFile}]
          /\ dead \in [RecordId -> Kind \union {"none"}]
          /\ lock \in [Key -> Drainer \union {"free", "orphan"}]
      BY <1>1 DEF Init
    <2>2. row \in Row
      BY <1>1 DEF Init, Row
    <2>3. runs \in 0 .. MaxRuns /\ crashes \in 0 .. MaxTrouble
      BY <1>1, SettlementAssumption DEF Init
    <2>4. /\ processing \subseteq Claimed /\ claims \in Nat /\ falseCorrupt \subseteq RecordId
          /\ late \subseteq Operation /\ dispatched \in Nat
          /\ exactSaved \in BOOLEAN /\ overrun \in BOOLEAN
      BY <1>1 DEF Init
    <2> QED
      BY <1>p, <1>d, <2>1, <2>2, <2>3, <2>4 DEF TypeOK
  <1>3. Dispatching /\ Untouched /\ Tokens /\ Booked
    BY <1>1 DEF Init, Dispatching, Untouched, Tokens, Unique, Booked
  <1>4. OneFile /\ Progress /\ Recovery /\ Buried
    BY <1>1 DEF Init, OneFile, Progress, Recovery, Recovering, Buried, HasFile, Exists, NoFile
  <1> QED
    BY <1>2, <1>3, <1>4 DEF Inv

LEMMA InvStep == ASSUME Inv, [Next]_vars PROVE Inv'
  <1>1. TypeOK /\ Dispatching /\ Untouched /\ Tokens /\ Unique /\ Booked
    BY DEF Inv, Tokens
  <1>2. TypeOK' /\ Dispatching' /\ Untouched' /\ Tokens' /\ Booked'
    BY <1>1, TypeStep, DispatchingStep, UntouchedStep, TokensStep, BookedStep
  <1>3. ASSUME Once' PROVE OneFile' /\ Progress' /\ Recovery' /\ Buried'
    <2>1. Once /\ OneFile /\ Progress /\ Recovery /\ Buried
      BY <1>1, <1>3, RunsGrow DEF Inv
    <2> QED
      BY <1>1, <1>3, <2>1, ProgressStep, RecoveryStep, BuriedStep
  <1> QED
    BY <1>2, <1>3 DEF Inv

LEMMA Invariance == Spec => []Inv
  <1>1. Inv /\ [Next]_vars => Inv'
    BY InvStep
  <1> QED
    BY <1>1, InitInv, PTL DEF Spec

\* Every file, claim, lock and answer stays what its reader takes it for.
THEOREM SettlementTyped == Spec => []TypeOK
  <1>1. Inv => TypeOK
    BY DEF Inv
  <1> QED
    BY <1>1, Invariance, PTL

\* However often the key is submitted, by whatever is crashed, late or drained
\* twice, the provider is called once: the reservation that is used is the one
\* that opened the row (armFallback's caller refuses a replay).
THEOREM CalledOnce == Spec => []OneDispatch
  <1>1. Inv => OneDispatch
    BY DEF Inv, Dispatching, OneDispatch
  <1> QED
    BY <1>1, Invariance, PTL

\* recoverPreDispatch gives money back only for a call that was not and will not
\* be made, as long as the producer kept to its delay.
THEOREM ReleasedRightly == Spec => []PromptReleasedUndispatched
  <1>1. Inv => PromptReleasedUndispatched
    BY DEF Inv, Recovery, Recovering, PromptReleasedUndispatched, ReleasedUndispatched
  <1> QED
    BY <1>1, Invariance, PTL

-----------------------------------------------------------------------------
(* One poll loop.                                                           *)

LEMMA FinishedStep ==
  ASSUME Inv, OneLoop, Once => Finished, Once', [Next]_vars PROVE Finished'
  <1>o. /\ Once /\ Finished /\ OneFile /\ Progress
        /\ TypeOK /\ Untouched /\ Unique
    BY RunsGrow DEF Inv, Tokens
  <1>t. dr \in [Drainer -> DrainerState] /\ pending \in [RecordId -> File \union {NoFile}]
    BY <1>o DEF TypeOK
  <1> DEFINE Fine(d) ==
        /\ dr'[d].pc \notin {"idle", "listed"} => dr'[d].id \notin dr'[d].todo
        /\ dr'[d].pc # "idle" => \A i \in dr'[d].todo : Exists(i)' \/ prod'.pc = "idle"
        /\ dr'[d].pc \in {"corrupt", "corruptSaved"} => pending'[dr'[d].id] = NoFile /\ prod'.pc = "idle"
  <1>1. SUFFICES ASSUME NEW d \in Drainer PROVE Fine(d)
    BY DEF Finished, Exists
  <1>x. dr[d].id \in RecordId /\ dr[d].todo \subseteq RecordId
    BY <1>t DEF DrainerState
  <1>f. /\ dr[d].pc \notin {"idle", "listed"} => dr[d].id \notin dr[d].todo
        /\ dr[d].pc # "idle" => \A i \in dr[d].todo : Exists(i) \/ prod.pc = "idle"
        /\ dr[d].pc \in {"corrupt", "corruptSaved"} => ~Exists(dr[d].id) /\ prod.pc = "idle"
    BY <1>o DEF Finished
  <1>s. \A l : Step(d, l) => dr'[d].pc = l /\ dr'[d].todo = dr[d].todo /\ dr'[d].id = dr[d].id
    BY <1>t DEF Step, DrainerState
  <1>2. CASE dr' = dr /\ pending' = pending /\ (prod'.pc = prod.pc \/ prod'.pc = "idle")
    BY <1>2, <1>f DEF Exists
  <1>3. CASE PersistPreReserve
    <2>1. runs = 0
      BY <1>o, <1>3, RunsGrow
    <2>2. dr'[d].pc = "idle"
      BY <1>o, <1>3, <2>1, MarkerWritten
    <2> QED
      BY <2>2
  <1>4. CASE ProducerStep \/ ProducerCrash
    <2>1. dr' = dr
      BY <1>4 DEF ProducerStep, ProducerCrash, ReserveAnswered, ReserveUnanswered, Cancel, ArmFallback,
         CallProvider, PersistExact, Close, Acknowledge, RetryLater, RejectTerminal, LockTimeout, Producing
    <2>2. prod.pc # "idle"
      BY <1>4 DEF ProducerStep, ProducerCrash, ReserveAnswered, ReserveUnanswered, Cancel, ArmFallback,
         CallProvider, PersistExact, Close, Acknowledge, RetryLater, RejectTerminal, LockTimeout
    <2>3. ASSUME prod'.pc # "idle", NEW i \in RecordId, Exists(i) PROVE Exists(i)'
      <3>1. CASE ArmFallback
        BY <1>o, <2>3, <3>1, FallbackArmed
      <3>2. CASE PersistExact
        <4>1. ~HasFile("pre_reserve")
          BY <1>o, <3>2 DEF PersistExact, Progress
        <4> QED
          BY <1>o, <2>3, <3>2, <4>1, ExactWritten
      <3>3. CASE Cancel \/ Acknowledge \/ RetryLater \/ RejectTerminal \/ ReserveUnanswered
                 \/ LockTimeout \/ ProducerCrash
        <4>1. prod'.pc = "idle"
          BY <1>o, <3>3 DEF Cancel, Acknowledge, RetryLater, RejectTerminal, ReserveUnanswered, LockTimeout,
             ProducerCrash, Go, TypeOK, Producer
        <4> QED
          BY <2>3, <4>1
      <3>4. CASE ReserveAnswered \/ CallProvider \/ Close
        <4>1. pending' = pending
          BY <3>4 DEF ReserveAnswered, CallProvider, Close, files
        <4> QED
          BY <2>3, <4>1 DEF Exists
      <3> QED
        BY <1>4, <3>1, <3>2, <3>3, <3>4 DEF ProducerStep
    <2> QED
      BY <1>f, <1>x, <2>1, <2>2, <2>3
  <1>5. CASE List(d)
    <2>1. dr'[d].pc = "listed" /\ dr'[d].todo = {i \in RecordId : Exists(i)} /\ pending' = pending
      BY <1>5, <1>t DEF List, DrainerState, files
    <2> QED
      BY <2>1 DEF Exists
  <1>6. ASSUME NEW i \in RecordId, Read(d, i) PROVE Fine(d)
    <2>1. /\ dr[d].pc = "listed" /\ i \in dr[d].todo
          /\ dr'[d].todo = dr[d].todo \ {i} /\ dr'[d].id = i
          /\ dr'[d].pc = "corrupt" => ~Exists(i)
          /\ dr'[d].pc # "corruptSaved"
          /\ pending' = pending /\ prod' = prod
      BY <1>6, <1>t DEF Read, DrainerState, files, Draining, Drained
    <2> QED
      BY <1>f, <2>1 DEF Exists
  <1>7. CASE ListDone(d) \/ DrainerCrash(d)
    BY <1>7, <1>s DEF ListDone, DrainerCrash
  <1>8. CASE Skip(d) \/ SaveCorrupt(d)
    <2>1. /\ dr'[d].todo = dr[d].todo /\ dr'[d].id = dr[d].id
          /\ pending' = pending /\ prod' = prod
          /\ \/ dr[d].pc = "seen" /\ dr'[d].pc = "listed"
             \/ dr[d].pc = "corrupt" /\ dr'[d].pc = "corruptSaved"
      BY <1>8, <1>s DEF Skip, SaveCorrupt, files, Draining, Drained
    <2> QED
      BY <1>f, <2>1 DEF Exists
  <1>9. CASE UnlinkCorrupt(d)
    <2>1. /\ dr[d].pc = "corruptSaved" /\ dr'[d].pc = "listed" /\ dr'[d].todo = dr[d].todo
          /\ prod' = prod
          /\ pending' = [pending EXCEPT ![dr[d].id] = NoFile]
      BY <1>9, <1>s DEF UnlinkCorrupt, Draining, Drained
    <2> QED
      BY <1>f, <1>t, <1>x, <2>1 DEF Exists
  <1>10. CASE Claim(d)
    <2>1. /\ dr[d].pc = "seen" /\ dr'[d].pc \in {"answered", "claimed"}
          /\ dr'[d].todo = dr[d].todo /\ dr'[d].id = dr[d].id
      BY <1>10, <1>t DEF Claim, DrainerState
    <2>2. prod' = prod /\ pending' = [pending EXCEPT ![dr[d].id] = NoFile]
      BY <1>o, <1>10, Claiming
    <2> QED
      BY <1>f, <1>t, <1>x, <2>1, <2>2 DEF Exists
  <1>11. ASSUME NEW c \in processing,
                Dispatch(d, c) \/ Complete(d, c) \/ DeadLetter(d, c) \/ UnlinkBuried(d, c)
                \/ ReturnForRetry(d, c)
         PROVE  Fine(d)
    <2>1. dr[d].pc \in {"claimed", "answered", "buried"} /\ prod' = prod
      BY <1>11 DEF Dispatch, Complete, DeadLetter, UnlinkBuried, ReturnForRetry, Draining, Drained
    <2>2. dr'[d].pc \in {"listed", "answered", "buried"} /\ dr'[d].todo = dr[d].todo /\ dr'[d].id = dr[d].id
      <3>1. CASE Dispatch(d, c)
        BY <3>1, <1>t DEF Dispatch, DrainerState
      <3>2. CASE Complete(d, c) \/ DeadLetter(d, c) \/ UnlinkBuried(d, c) \/ ReturnForRetry(d, c)
        BY <3>2, <1>s DEF Complete, DeadLetter, UnlinkBuried, ReturnForRetry
      <3> QED
        BY <1>11, <3>1, <3>2
    <2>3. \A i \in RecordId : Exists(i) => Exists(i)'
      <3>1. CASE pending' = pending
        BY <3>1 DEF Exists
      <3>2. CASE ReturnForRetry(d, c)
        <4>1. c.id \in RecordId
          BY <1>o DEF TypeOK, Claimed
        <4> QED
          BY <3>2, <4>1, <1>t DEF ReturnForRetry, Exists
      <3> QED
        BY <1>11, <3>1, <3>2 DEF Dispatch, Complete, DeadLetter, UnlinkBuried, files
    <2> QED
      BY <1>f, <1>x, <2>1, <2>2, <2>3
  <1>12. ASSUME NEW c \in processing, Reclaim(d, c) PROVE Fine(d)
    BY <1>12 DEF Reclaim
  <1>13. ASSUME NEW k \in Key, LockExpires(k) PROVE Fine(d)
    BY <1>2, <1>13 DEF LockExpires, files, Drained
  <1>14. ASSUME NEW op \in Operation, LateArrives(op) PROVE Fine(d)
    BY <1>2, <1>14 DEF LateArrives, files
  <1>15. CASE vars' = vars
    BY <1>2, <1>15 DEF vars, files
  <1>16. ASSUME NEW e \in Drainer, DrainerStep(e) \/ DrainerCrash(e) PROVE Fine(d)
    <2>1. e = d
      BY DEF OneLoop
    <2> QED
      BY <1>16, <2>1, <1>5, <1>6, <1>7, <1>8, <1>9, <1>10, <1>11, <1>12 DEF DrainerStep
  <1> QED
    BY <1>3, <1>4, <1>13, <1>14, <1>15, <1>16 DEF Next

\* A record that stands for the paid call stays on the disk, as a file or as a
\* dead letter, until Core has booked what it says.
LEMMA DiskKept ==
  ASSUME Inv, Once, Finished, [Next]_vars, ~PersistPreReserve, ~ArmFallback, ~Cancel,
         ~HasFile("pre_reserve"),
         NEW K \in SUBSET Kind, "exact" \in K, "fallback" \in K \/ ~HasFile("fallback"),
         OnDisk(K)
  PROVE  OnDisk(K)' \/ row = "exact" \/ ("fallback" \in K /\ row \notin {"none", "reserved"})
  <1>o. OneFile /\ Buried /\ TypeOK /\ Unique /\ Booked
    BY DEF Inv, Tokens
  <1>t. /\ pending \in [RecordId -> File \union {NoFile}]
        /\ \A c \in processing : c.id \in RecordId /\ c.kind \in Kind
        /\ dead \in [RecordId -> Kind \union {"none"}]
    BY <1>o DEF TypeOK, Claimed
  <1>n. NoFile.kind \notin Kind /\ \A f \in File : f.kind \in Kind
    BY DEF NoFile, File, Kind
  <1>a. /\ \A i \in RecordId : Exists(i) => pending[i].kind \in K
        /\ \A c \in processing : c.kind \in K
    <2>1. \A k \in Kind : HasFile(k) => k \in K
      BY DEF Kind
    <2> QED
      BY <1>t, <1>n, <2>1 DEF HasFile, Exists
  <1>1. ASSUME NEW i \in RecordId, dead[i] \in K PROVE OnDisk(K)'
    <2>1. dead'[i] \in K
      BY <1>1, <1>o, <1>t, <1>a, DeadLaw
    <2> QED
      BY <2>1 DEF OnDisk
  <1>2. CASE (\E i \in RecordId : pending[i].kind \in K) \/ \E c \in processing : c.kind \in K
    <2>1. CASE Still
      BY <1>2, <2>1 DEF Still, OnDisk
    <2>2. CASE PersistExact
      <3>1. CASE UNCHANGED <<pending, processing>>
        BY <1>2, <3>1 DEF OnDisk
      <3>2. CASE HasFile("exact")'
        BY <3>2 DEF HasFile, OnDisk
      <3> QED
        BY <1>o, <2>2, <3>1, <3>2, ExactWritten
    <2>3. CASE Acknowledge
      BY <1>o, <2>3 DEF Acknowledge, Booked
    <2>4. CASE RetryLater \/ RejectTerminal
      <3>1. CASE UNCHANGED <<pending, processing, dead>>
        BY <1>2, <3>1 DEF OnDisk
      <3>2. CASE PendingHandled
        <4>1. PICK i \in RecordId :
                 /\ Exists(i)
                 /\ \/ \E n \in 0 .. MaxAttempts :
                          pending' = [pending EXCEPT ![i] = [kind |-> pending[i].kind, attempts |-> n]]
                    \/ dead' = [dead EXCEPT ![i] = pending[i].kind]
          BY <3>2 DEF PendingHandled
        <4>2. pending'[i].kind = pending[i].kind \/ dead'[i] = pending[i].kind
          BY <4>1, <1>t
        <4> QED
          BY <4>1, <4>2, <1>a DEF OnDisk
      <3>3. CASE ClaimHandled
        <4>1. PICK c \in processing :
                 \/ \E n \in 0 .. MaxAttempts :
                       processing' = (processing \ {c}) \union
                           {[claim |-> c.claim, id |-> c.id, kind |-> c.kind, attempts |-> n]}
                 \/ dead' = [dead EXCEPT ![c.id] = c.kind]
          BY <3>3 DEF ClaimHandled
        <4>2. (\E e \in processing' : e.kind = c.kind) \/ dead'[c.id] = c.kind
          <5>1. ASSUME NEW n \in 0 .. MaxAttempts,
                       processing' = (processing \ {c}) \union
                           {[claim |-> c.claim, id |-> c.id, kind |-> c.kind, attempts |-> n]}
                PROVE  \E e \in processing' : e.kind = c.kind
            <6> DEFINE e == [claim |-> c.claim, id |-> c.id, kind |-> c.kind, attempts |-> n]
            <6>1. e \in processing' /\ e.kind = c.kind
              BY <5>1
            <6> HIDE DEF e
            <6> QED
              BY <6>1
          <5>2. dead' = [dead EXCEPT ![c.id] = c.kind] => dead'[c.id] = c.kind
            BY <1>t
          <5> QED
            BY <4>1, <5>1, <5>2
        <4> QED
          BY <4>1, <4>2, <1>a, <1>t DEF OnDisk
      <3> QED
        BY <1>o, <2>4, <3>1, <3>2, <3>3, Handling
    <2>5. ASSUME NEW d \in Drainer, UnlinkCorrupt(d) PROVE OnDisk(K)'
      <3>1. pending[dr[d].id] = NoFile
        BY <2>5 DEF UnlinkCorrupt, Finished, Exists
      <3>2. pending' = pending /\ processing' = processing
        BY <2>5, <3>1, <1>t DEF UnlinkCorrupt
      <3> QED
        BY <1>2, <3>2 DEF OnDisk
    <2>6. ASSUME NEW d \in Drainer, Claim(d) PROVE OnDisk(K)'
      <3>1. dr[d].id \in RecordId /\ Exists(dr[d].id)
        BY <1>o, <2>6, Claiming
      <3>2. PICK e : processing' = processing \union {e} /\ e.kind = pending[dr[d].id].kind
        BY <1>o, <2>6, Claiming
      <3> QED
        BY <3>1, <3>2, <1>a DEF OnDisk
    <2>7. ASSUME NEW d \in Drainer, NEW c \in processing, Complete(d, c)
          PROVE  row = "exact" \/ ("fallback" \in K /\ row \notin {"none", "reserved"})
      <3>1. row \notin {"none", "reserved"} /\ (c.kind = "exact" => row = "exact")
        BY <1>o, <2>7 DEF Complete, Mine, Booked
      <3>2. c.kind = "exact" \/ "fallback" \in K
        BY <1>t DEF HasFile, Kind
      <3> QED
        BY <3>1, <3>2
    <2>8. ASSUME NEW d \in Drainer, NEW c \in processing, ReturnForRetry(d, c) \/ Reclaim(d, c)
          PROVE  OnDisk(K)'
      <3>1. ~Exists(c.id) /\ c.id \in RecordId
        BY <1>o, <1>t DEF OneFile
      <3>2. PICK n : pending' = [pending EXCEPT ![c.id] = [kind |-> c.kind, attempts |-> n]]
        BY <2>8, <3>1 DEF ReturnForRetry, Reclaim
      <3>3. pending'[c.id].kind = c.kind
        BY <3>1, <3>2, <1>t
      <3> QED
        BY <3>1, <3>3, <1>a DEF OnDisk
    <2>9. ASSUME NEW d \in Drainer, NEW c \in processing, DeadLetter(d, c) PROVE OnDisk(K)'
      BY <1>2, <2>9 DEF DeadLetter, OnDisk
    <2>10. ASSUME NEW d \in Drainer, NEW c \in processing, UnlinkBuried(d, c) PROVE OnDisk(K)'
      <3>1. dead[c.id] = c.kind
        BY <1>o, <2>10 DEF UnlinkBuried, Mine, Buried
      <3> QED
        BY <3>1, <1>1, <1>a, <1>t
    <2> QED
      BY <2>1, <2>2, <2>3, <2>4, <2>5, <2>6, <2>7, <2>8, <2>9, <2>10, FileCases
  <1> QED
    BY <1>1, <1>2 DEF OnDisk

\* Both guarantees, step by step.
LEMMA CoveredStep ==
  ASSUME Inv, Once => Finished /\ Covered /\ Kept, Once', [Next]_vars PROVE Covered' /\ Kept'
  <1>o. /\ Once /\ Finished /\ Covered /\ Kept /\ OneFile /\ Progress
        /\ TypeOK /\ Dispatching /\ Untouched
    BY RunsGrow DEF Inv
  <1>r. RowMoves
    BY <1>o, RowLaw
  <1>1. CASE PersistPreReserve
    <2>1. runs = 0
      BY <1>o, <1>1, RunsGrow
    <2>2. prod'.pc = "marked" /\ dispatched' = 0 /\ ~exactSaved'
      BY <1>o, <1>1, <2>1, MarkerWritten
    <2> QED
      BY <2>2 DEF Covered, Kept
  <1>2. ASSUME ~PersistPreReserve, prod.pc = "armed" \/ dispatched = 1 PROVE ~ArmFallback /\ ~Cancel
    BY <1>2, <1>o DEF ArmFallback, Cancel, Progress
  <1>3. ASSUME ~PersistPreReserve PROVE Covered'
    <2>1. SUFFICES ASSUME prod'.pc = "armed" \/ dispatched' > 0, row' = "reserved"
                   PROVE  OnDisk({"fallback", "exact"})'
      BY DEF Covered
    <2>2. row \in {"none", "reserved"}
      BY <2>1, <1>r DEF RowMoves
    <2>3. CASE ArmFallback
      <3>1. prod.pc = "reserved" /\ dispatched' = dispatched /\ dispatched = 0
        BY <1>o, <2>3 DEF ArmFallback, Progress
      <3>2. pending'["pre"] = [kind |-> "fallback", attempts |-> 0]
        BY <1>o, <2>1, <2>3, <3>1, FallbackArmed
      <3> QED
        BY <3>2 DEF OnDisk, RecordId
    <2>4. CASE ~ArmFallback
      <3>1. prod.pc = "armed" \/ dispatched = 1
        <4>1. dispatched \in {0, 1}
          BY <1>o DEF Dispatching
        <4>2. CASE CallProvider
          BY <4>2 DEF CallProvider
        <4>3. CASE ~CallProvider
          <5>1. dispatched' = dispatched
            BY <1>o, <4>3, ProducerLaw
          <5>2. prod'.pc = "armed" => prod.pc = "armed"
            BY <1>o, <2>4, ProducerLaw
          <5> QED
            BY <2>1, <4>1, <5>1, <5>2
        <4> QED
          BY <4>2, <4>3
      <3>2. row = "reserved"
        BY <1>o, <2>2, <3>1 DEF Dispatching
      <3>3. OnDisk({"fallback", "exact"})
        BY <1>o, <3>1, <3>2 DEF Covered
      <3>4. ~HasFile("pre_reserve")
        BY <1>o, <3>1 DEF Progress
      <3>5. {"fallback", "exact"} \in SUBSET Kind
        BY DEF Kind
      <3>6. ~Cancel
        BY <1>2, <1>3, <3>1
      <3> QED
        BY <1>o, <1>3, <2>4, <3>2, <3>3, <3>4, <3>5, <3>6, DiskKept
    <2> QED
      BY <2>3, <2>4
  <1>4. ASSUME ~PersistPreReserve PROVE Kept'
    <2>1. SUFFICES ASSUME exactSaved' PROVE row' = "exact" \/ OnDisk({"exact"})'
      BY DEF Kept
    <2>2. CASE PersistExact /\ prod'.pc = "exact"
      <3>1. ~HasFile("pre_reserve")
        BY <1>o, <2>2 DEF PersistExact, Progress
      <3>2. HasFile("exact")'
        BY <1>o, <2>2, <3>1, ExactWritten
      <3> QED
        BY <3>2 DEF HasFile, OnDisk
    <2>3. CASE exactSaved' = exactSaved
      <3>0. exactSaved
        BY <2>1, <2>3
      <3>1. dispatched = 1 /\ ~HasFile("fallback") /\ ~HasFile("pre_reserve")
        BY <1>o, <3>0 DEF Progress
      <3>2. CASE row = "exact"
        BY <3>2, <1>r DEF RowMoves
      <3>3. CASE OnDisk({"exact"})
        <4>1. {"exact"} \in SUBSET Kind /\ "fallback" \notin {"exact"}
          BY DEF Kind
        <4>2. ~ArmFallback /\ ~Cancel
          BY <1>2, <1>4, <3>1
        <4>3. OnDisk({"exact"})' \/ row = "exact"
          BY <1>o, <1>4, <3>1, <3>3, <4>1, <4>2, DiskKept
        <4> QED
          BY <3>2, <4>3
      <3> QED
        BY <1>o, <3>0, <3>2, <3>3 DEF Kept
    <2> QED
      BY <1>o, <2>2, <2>3, ProducerLaw
  <1> QED
    BY <1>1, <1>3, <1>4

LEMMA LoopInvariance == ASSUME OneLoop PROVE Spec => []LoopInv
  <1>1. Init => LoopInv
    <2>1. Init => Finished /\ Covered /\ Kept
      BY DEF Init, Finished, Covered, Kept
    <2> QED
      BY <2>1, InitInv DEF LoopInv
  <1>2. LoopInv /\ [Next]_vars => LoopInv'
    <2>1. SUFFICES ASSUME LoopInv, [Next]_vars PROVE LoopInv'
      OBVIOUS
    <2>2. Inv /\ (Once => Finished /\ Covered /\ Kept)
      BY <2>1 DEF LoopInv
    <2>3. Inv'
      BY <2>1, <2>2, InvStep
    <2>4. Once' => Finished' /\ Covered' /\ Kept'
      BY <2>1, <2>2, FinishedStep, CoveredStep
    <2> QED
      BY <2>3, <2>4 DEF LoopInv
  <1> QED
    BY <1>1, <1>2, PTL DEF Spec

\* With one poll loop, no crash, lost answer or late call takes the account of a
\* paid call off the disk before Core has closed the row.
THEOREM PaidCallCovered == ASSUME OneLoop PROVE Spec => []DispatchCovered
  <1>1. LoopInv => DispatchCovered
    BY DEF LoopInv, Covered, DispatchCovered
  <1>2. Spec => []LoopInv
    BY LoopInvariance
  <1> QED
    BY <1>1, <1>2, PTL

\* Nor does anything lose the measured cost that persistExact reported as saved.
THEOREM MeasuredCostKept == ASSUME OneLoop PROVE Spec => []ExactPreserved
  <1>1. LoopInv => ExactPreserved
    BY DEF LoopInv, Kept, ExactPreserved
  <1>2. Spec => []LoopInv
    BY LoopInvariance
  <1> QED
    BY <1>1, <1>2, PTL
=============================================================================
