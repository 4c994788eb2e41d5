------------------------ MODULE DeliveryOutboxProofs ------------------------
(***************************************************************************)
(* For every set of intents, every number of dispatcher loops and every    *)
(* lease length: the outbox never publishes an intent twice, its stored    *)
(* verdicts agree with the provider, and it implements AtMostOnceDelivery. *)
(*                                                                         *)
(* The argument follows the right to create a page.  A pending row carries *)
(* it; a claim passes it to one dispatcher; an abandoned request (late)    *)
(* inherits it; every conclusion other than "unknown", whether still in    *)
(* the dispatcher, on the wire or stored, is reached only after the right  *)
(* is spent or forfeited.                                                  *)
(***************************************************************************)
EXTENDS DeliveryOutbox, FiniteSetTheorems, TLAPS

Untaken == {"absent", "pending"}
Refused == {"skipped", "dead"}

\* A loop that is not idle works on a row that was taken, and is the only one.
Holders ==
    /\ \A w \in Worker : job[w].pc # "idle" =>
          job[w].id \in Delivery /\ status[job[w].id] \notin Untaken
    /\ \A v, w \in Worker :
          job[v].pc # "idle" /\ job[w].pc # "idle" /\ job[v].id = job[w].id => v = w

\* A loop about to publish has not published, and nobody has concluded anything.
Claims ==
    \A w \in Worker : job[w].pc = "claimed" =>
        /\ status[job[w].id] \in {"dispatching", "unknown"}
        /\ pages[job[w].id] = 0
        /\ job[w].id \notin late
        /\ \A c \in calls : c.id # job[w].id

\* A conclusion a loop is about to report is true.
Goals ==
    \A w \in Worker : job[w].pc \in {"completing", "awaiting"} =>
        /\ job[w].goal = "sent" => pages[job[w].id] = 1
        /\ job[w].goal \in Refused => pages[job[w].id] = 0
        /\ job[w].goal # "unknown" => job[w].id \notin late

\* So is one on the wire.
Calls ==
    \A c \in calls :
        /\ status[c.id] \notin Untaken
        /\ c.status = "sent" => pages[c.id] = 1
        /\ c.status \in Refused => pages[c.id] = 0
        /\ c.status # "unknown" => c.id \notin late

\* An abandoned request is the only thing that can still create its page.
Abandoned ==
    \A d \in late : pages[d] = 0 /\ status[d] \in {"dispatching", "unknown"}

Rights == /\ Holders /\ Claims /\ Goals /\ Calls /\ Abandoned
          /\ AtMostOnePage /\ VerdictMatchesProvider

LEMMA SeqType == ASSUME TypeOK PROVE Cardinality(Created) \in Nat
BY DeliveryAssumption, FS_CardinalityType, FS_Subset DEF Created

\* The two statements that rewrite whole rows keep their columns well typed.
LEMMA RowType ==
    ASSUME TypeOK
    PROVE  /\ \A S \in SUBSET Delivery, s \in Status : ExpireThen(S, s) =>
                 status' \in [Delivery -> Status] /\ lastError' \in [Delivery -> Error]
           /\ \A c \in calls : CompleteRow(c) =>
                 status' \in [Delivery -> Status] /\ lastError' \in [Delivery -> Error]
<1>1. ASSUME NEW S \in SUBSET Delivery, NEW s \in Status, ExpireThen(S, s)
      PROVE  status' \in [Delivery -> Status] /\ lastError' \in [Delivery -> Error]
  BY <1>1 DEF ExpireThen, TypeOK, Status, Terminal, Error
<1>2. ASSUME NEW c \in calls, CompleteRow(c)
      PROVE  status' \in [Delivery -> Status] /\ lastError' \in [Delivery -> Error]
  BY <1>2 DEF CompleteRow, ErrorOf, TypeOK, Call, Status, Error, table
<1>3. QED
  BY <1>1, <1>2

LEMMA JobUpdates ==
    ASSUME TypeOK, NEW w \in Worker, job[w].pc # "idle"
    PROVE  /\ Idle \in JobState
           /\ AfterFailedComplete(w) \in JobState
           /\ AfterFailedComplete(w).pc # "idle" => AfterFailedComplete(w).id \in Delivery
           /\ \A g \in Terminal : [job[w] EXCEPT !.pc = "completing", !.goal = g] \in JobState
           /\ [job[w] EXCEPT !.pc = "awaiting"] \in JobState
<1>1. job[w] \in JobState /\ job[w].id \in Delivery
  BY DEF TypeOK
<1>2. Idle \in JobState
  BY DeliveryAssumption DEF Idle, JobState, Terminal
<1>3. \A g \in Terminal : [job[w] EXCEPT !.pc = "completing", !.goal = g] \in JobState
  BY <1>1 DEF JobState
<1>4. [job[w] EXCEPT !.pc = "awaiting"] \in JobState
  BY <1>1 DEF JobState
<1>5. AfterFailedComplete(w) \in JobState
  BY <1>2, <1>3 DEF AfterFailedComplete, Terminal
<1>6. AfterFailedComplete(w).pc # "idle" => AfterFailedComplete(w).id \in Delivery
  BY <1>1 DEF AfterFailedComplete, Idle, JobState
<1>7. QED
  BY <1>2, <1>3, <1>4, <1>5, <1>6

\* Type correctness: no step of Core, of a dispatcher or of the network
\* leaves the declared ranges, retries and lease ages included.
THEOREM TypeCorrect == Spec => []TypeOK
<1>1. Init => TypeOK
  BY DeliveryAssumption DEF Init, TypeOK, Idle, JobState, Status, Terminal, Payload, Error
<1>2. TypeOK /\ [Next]_vars => TypeOK'
  <2> SUFFICES ASSUME TypeOK, [Next]_vars PROVE TypeOK'
    OBVIOUS
  <2> USE DeliveryAssumption DEF TypeOK, table
  <2>1. ASSUME NEW d \in Delivery, NEW p \in Payload \ {"altered"}, Enqueue(d, p)
        PROVE  TypeOK'
    BY <2>1, SeqType DEF Enqueue, Status
  <2>2. ASSUME NEW d \in Delivery, Alter(d) PROVE TypeOK'
    BY <2>2 DEF Alter, Payload
  <2>3. ASSUME NEW d \in Delivery, LatePublish(d) \/ LateLost(d) PROVE TypeOK'
    BY <2>3 DEF LatePublish, LateLost
  <2>4. ASSUME NEW w \in Worker, ClaimNone(w) PROVE TypeOK'
    BY <2>4, RowType DEF ClaimNone, Status, Terminal
  <2>5. ASSUME NEW w \in Worker, NEW d \in Delivery,
               ClaimAltered(w, d) \/ Claim(w, d) \/ ClaimLost(w, d)
        PROVE  TypeOK'
    <3>1. {d} \in SUBSET Delivery /\ "dead" \in Status /\ "dispatching" \in Status
      BY DEF Status, Terminal
    <3>2. status' \in [Delivery -> Status] /\ lastError' \in [Delivery -> Error]
      BY <2>5, <3>1, RowType DEF ClaimAltered, Claim, ClaimLost, TakeRow
    <3>3. QED
      BY <2>5, <3>2 DEF ClaimAltered, Claim, ClaimLost, TakeRow, JobState, Terminal
  <2>6. ASSUME NEW w \in Worker,
               \/ Unconfigured(w) \/ RejectPayload(w) \/ SendComplete(w)
               \/ PublishOk(w) \/ PublishRateLimited(w)
               \/ PublishRefused(w) \/ PublishUnclear(w)
        PROVE  TypeOK'
    <3>1. CASE Unconfigured(w) \/ RejectPayload(w) \/ PublishRefused(w)
      BY <3>1 DEF Unconfigured, RejectPayload, PublishRefused, Resolve, CanPublish,
                  JobState, Terminal
    <3>2. CASE SendComplete(w)
      BY <3>2 DEF SendComplete, JobState, Call
    <3>3. CASE PublishOk(w)
      <4>1. job[w].pc # "idle" /\ "sent" \in Terminal
        BY <3>3 DEF PublishOk, CanPublish, Terminal
      <4>2. job' \in [Worker -> JobState]
        BY <3>3, <4>1, JobUpdates DEF PublishOk, Resolve
      <4>3. QED
        BY <3>3, <4>1, <4>2 DEF PublishOk, Resolve, JobState
    <3>6. CASE PublishUnclear(w)
      <4>1. job[w].pc # "idle" /\ "unknown" \in Terminal
        BY <3>6 DEF PublishUnclear, CanPublish, Terminal
      <4>2. job' \in [Worker -> JobState]
        BY <3>6, <4>1, JobUpdates DEF PublishUnclear, Resolve
      <4>3. QED
        BY <3>6, <4>1, <4>2 DEF PublishUnclear, Resolve, JobState
    <3>4. CASE PublishRateLimited(w)
      BY <3>4 DEF PublishRateLimited, CanPublish, JobState
    <3>5. QED
      BY <2>6, <3>1, <3>2, <3>3, <3>4, <3>6
  <2>7. ASSUME NEW w \in Worker, NEW c \in calls, CompleteAnswered(w, c) PROVE TypeOK'
    <3>1. /\ job' \in [Worker -> JobState]
          /\ \A v \in Worker : job'[v].pc # "idle" => job'[v].id \in Delivery
      BY <2>7, JobUpdates DEF CompleteAnswered, AwaitedBy, Idle
    <3>2. UNCHANGED <<payload, token, seq, age>>
      BY <2>7 DEF CompleteAnswered, CompleteRow
    <3>3. QED
      BY <2>7, <3>1, <3>2, RowType DEF CompleteAnswered
  <2>8. ASSUME NEW w \in Worker, CompleteFails(w) \/ Crash(w) PROVE TypeOK'
    <3>1. /\ job' \in [Worker -> JobState]
          /\ \A v \in Worker : job'[v].pc # "idle" => job'[v].id \in Delivery
      <4>1. CASE CompleteFails(w)
        BY <4>1, JobUpdates DEF CompleteFails
      <4>2. CASE Crash(w)
        BY <4>2, JobUpdates DEF Crash, Idle
      <4>3. QED
        BY <2>8, <4>1, <4>2
    <3>2. late' \subseteq Delivery
      BY <2>8 DEF CompleteFails, Crash, CanPublish
    <3>3. QED
      BY <2>8, <3>1, <3>2 DEF CompleteFails, Crash
  <2>9. ASSUME NEW c \in calls, CompleteUnanswered(c) PROVE TypeOK'
    <3>1. UNCHANGED <<payload, token, seq, age>>
      BY <2>9 DEF CompleteUnanswered, CompleteRow
    <3>2. QED
      BY <2>9, <3>1, RowType DEF CompleteUnanswered
  <2>10. CASE Tick
    BY <2>10 DEF Tick
  <2>11. CASE UNCHANGED vars
    BY <2>11 DEF vars
  <2>12. QED
    BY <2>1, <2>2, <2>3, <2>4, <2>5, <2>6, <2>7, <2>8, <2>9, <2>10, <2>11
    DEF Next, ClaimStep, DrainStep
<1>3. QED
  BY <1>1, <1>2, PTL DEF Spec

-----------------------------------------------------------------------------
LEMMA RightsStep == TypeOK /\ TypeOK' /\ Rights /\ [Next]_vars => Rights'
<1> SUFFICES ASSUME TypeOK, TypeOK', Rights, [Next]_vars PROVE Rights'
  OBVIOUS
<1> USE DEF Rights, Holders, Claims, Goals, Calls, Abandoned, AtMostOnePage,
            VerdictMatchesProvider, Untaken, Refused, TypeOK, table, JobState, Call, Terminal
<1>1. ASSUME NEW d \in Delivery, NEW p \in Payload \ {"altered"}, Enqueue(d, p)
      PROVE  Rights'
  BY <1>1 DEF Enqueue
<1>2. ASSUME NEW d \in Delivery, Alter(d) PROVE Rights'
  BY <1>2 DEF Alter
<1>3. ASSUME NEW d \in Delivery, LatePublish(d) PROVE Rights'
  BY <1>3 DEF LatePublish
<1>4. ASSUME NEW d \in Delivery, LateLost(d) PROVE Rights'
  BY <1>4 DEF LateLost
<1>5. ASSUME NEW w \in Worker, ClaimNone(w) PROVE Rights'
  BY <1>5 DEF ClaimNone, ExpireThen, Expired
<1>6. ASSUME NEW w \in Worker, NEW d \in Delivery, ClaimAltered(w, d) PROVE Rights'
  BY <1>6 DEF ClaimAltered, TakeRow, Claimable, Pending, ExpireThen, Expired
<1>7. ASSUME NEW w \in Worker, NEW d \in Delivery, Claim(w, d) PROVE Rights'
  BY <1>7 DEF Claim, TakeRow, Claimable, Pending, ExpireThen, Expired
<1>8. ASSUME NEW w \in Worker, NEW d \in Delivery, ClaimLost(w, d) PROVE Rights'
  BY <1>8 DEF ClaimLost, TakeRow, Claimable, Pending, ExpireThen, Expired
<1>9. ASSUME NEW w \in Worker, Unconfigured(w) \/ RejectPayload(w) \/ PublishRefused(w)
      PROVE  Rights'
  <2>1. PICK g \in Refused : Resolve(w, g)
    BY <1>9 DEF Unconfigured, RejectPayload, PublishRefused
  <2>2. job[w].pc = "claimed" /\ UNCHANGED <<table, minted, calls, late, pages>>
    BY <1>9 DEF Unconfigured, RejectPayload, PublishRefused, CanPublish
  <2>3. QED
    BY <2>1, <2>2 DEF Resolve
<1>10. ASSUME NEW w \in Worker, PublishOk(w) PROVE Rights'
  BY <1>10 DEF PublishOk, CanPublish, Resolve
<1>11. ASSUME NEW w \in Worker, PublishUnclear(w) PROVE Rights'
  BY <1>11 DEF PublishUnclear, CanPublish, Resolve
<1>12. ASSUME NEW w \in Worker, PublishRateLimited(w) PROVE Rights'
  BY <1>12 DEF PublishRateLimited, CanPublish
<1>13. ASSUME NEW w \in Worker, SendComplete(w) PROVE Rights'
  BY <1>13 DEF SendComplete
<1>14. ASSUME NEW w \in Worker, NEW c \in calls, CompleteAnswered(w, c) PROVE Rights'
  \* The effect on the table, with the loop left alone, is that of step <1>17 ...
  <2>1. /\ c.id \in Delivery /\ c.status \in Terminal
        /\ UNCHANGED <<late, pages>> /\ calls' = calls \ {c}
        /\ \/ status[c.id] = "dispatching" /\ status' = [status EXCEPT ![c.id] = c.status]
           \/ UNCHANGED status
    BY <1>14 DEF CompleteAnswered, CompleteRow, CompleteApplies
  \* ... and the loop, which waited, stops or turns to reporting "unknown".
  <2>2. job[w].pc = "awaiting"
    BY <1>14 DEF CompleteAnswered, AwaitedBy
  <2>3. /\ \A v \in Worker : v # w => job'[v] = job[v]
        /\ \/ job'[w].pc = "idle"
           \/ job'[w].pc = "completing" /\ job'[w].goal = "unknown" /\ job'[w].id = job[w].id
    <3>1. job'[w] = Idle \/ job'[w] = [job[w] EXCEPT !.pc = "completing", !.goal = "unknown"]
      BY <1>14 DEF CompleteAnswered, AfterFailedComplete
    <3>2. job[w] \in JobState /\ \A v \in Worker : v # w => job'[v] = job[v]
      BY <1>14 DEF CompleteAnswered
    <3>3. CASE job'[w] = Idle
      BY <3>2, <3>3 DEF Idle
    <3>4. CASE job'[w] = [job[w] EXCEPT !.pc = "completing", !.goal = "unknown"]
      <4>1. job'[w].pc = "completing" /\ job'[w].goal = "unknown" /\ job'[w].id = job[w].id
        BY ONLY <3>2, <3>4 DEF JobState
      <4>2. QED
        BY <3>2, <4>1
    <3>5. QED
      BY <3>1, <3>3, <3>4
  <2>4. /\ \A d \in Delivery : d # c.id => status'[d] = status[d]
        /\ status'[c.id] = status[c.id]
             \/ (status[c.id] = "dispatching" /\ status'[c.id] = c.status)
    BY <2>1
  <2>5. \A v \in Worker : job'[v].pc # "idle" => job[v].pc # "idle" /\ job'[v].id = job[v].id
    BY <2>2, <2>3
  <2>6. \A v \in Worker : job'[v].pc = "claimed" =>
            job[v].pc = "claimed" /\ job'[v].id = job[v].id /\ job[v].id # c.id
    BY <2>2, <2>3
  <2>7. \A d \in Delivery : status[d] \notin Untaken => status'[d] \notin Untaken
    BY <2>1, <2>4
  <2>8. Holders'
    <3>1. \A v \in Worker : job'[v].pc # "idle" =>
             job'[v].id \in Delivery /\ status'[job'[v].id] \notin Untaken
      BY <2>5, <2>7
    <3>2. \A u, v \in Worker :
             job'[u].pc # "idle" /\ job'[v].pc # "idle" /\ job'[u].id = job'[v].id => u = v
      BY <2>5
    <3>3. QED
      BY <3>1, <3>2
  <2>9. Claims'
    <3>1. ASSUME NEW v \in Worker, job'[v].pc = "claimed"
          PROVE  /\ status'[job'[v].id] \in {"dispatching", "unknown"}
                 /\ pages'[job'[v].id] = 0 /\ job'[v].id \notin late'
                 /\ \A e \in calls' : e.id # job'[v].id
      <4>1. job[v].pc = "claimed" /\ job'[v].id = job[v].id /\ job[v].id # c.id
        BY <2>6, <3>1
      <4>2. /\ status[job[v].id] \in {"dispatching", "unknown"} /\ job[v].id \in Delivery
            /\ pages[job[v].id] = 0 /\ job[v].id \notin late
            /\ \A e \in calls : e.id # job[v].id
        BY <4>1
      <4>3. status'[job[v].id] = status[job[v].id]
        BY <2>4, <4>1, <4>2
      <4>4. QED
        BY <2>1, <4>1, <4>2, <4>3
    <3>2. QED
      BY <3>1
  <2>10. Goals' /\ Calls' /\ AtMostOnePage'
    <3>1. Goals'
      <4>1. ASSUME NEW v \in Worker, job'[v].pc \in {"completing", "awaiting"}
            PROVE  \/ job'[v].goal = "unknown"
                   \/ job'[v] = job[v]
        BY <2>3, <4>1
      <4>2. QED
        BY <2>1, <4>1
    <3>2. Calls'
      <4>1. \A e \in calls' : e \in calls /\ status'[e.id] \notin Untaken
        BY <2>1, <2>7
      <4>2. QED
        BY <2>1, <4>1
    <3>3. QED
      BY <2>1, <3>1, <3>2
  <2>11. Abandoned'
    BY <2>1, <2>4
  <2>12. VerdictMatchesProvider'
    <3>1. \A d \in Delivery : status'[d] = "sent" => pages[d] = 1
      BY <2>1, <2>4
    <3>2. \A d \in Delivery : status'[d] \in Untaken \union Refused =>
             \/ status[d] \in Untaken \union Refused
             \/ d = c.id /\ c.status \in Refused
      BY <2>1, <2>4
    <3>3. ASSUME NEW d \in Delivery, status'[d] \in Untaken \union Refused
          PROVE  pages[d] = 0 /\ d \notin late
      BY <3>2, <3>3
    <3>4. ASSUME NEW d \in Delivery, status'[d] \in Untaken \union Refused,
                 NEW v \in Worker, job'[v].id = d
          PROVE  job'[v].pc # "claimed"
      BY <2>6, <3>2, <3>4
    <3>5. QED
      BY <2>1, <3>1, <3>3, <3>4
  <2>13. QED
    BY <2>8, <2>9, <2>10, <2>11, <2>12
<1>15. ASSUME NEW w \in Worker, CompleteFails(w) PROVE Rights'
  BY <1>15 DEF CompleteFails, AfterFailedComplete, Idle
<1>16. ASSUME NEW w \in Worker, Crash(w) PROVE Rights'
  BY <1>16 DEF Crash, CanPublish, Idle
<1>17. ASSUME NEW c \in calls, CompleteUnanswered(c) PROVE Rights'
  BY <1>17 DEF CompleteUnanswered, CompleteRow, CompleteApplies
<1>18. CASE Tick
  BY <1>18 DEF Tick
<1>19. CASE UNCHANGED vars
  BY <1>19 DEF vars
<1>20. QED
  BY <1>1, <1>2, <1>3, <1>4, <1>5, <1>6, <1>7, <1>8, <1>9, <1>10, <1>11, <1>12, <1>13,
     <1>14, <1>15, <1>16, <1>17, <1>18, <1>19
  DEF Next, ClaimStep, DrainStep

LEMMA RightsInv == Spec => []Rights
<1>1. Init => Rights
  BY DEF Init, Idle, Rights, Holders, Claims, Goals, Calls, Abandoned, AtMostOnePage,
         VerdictMatchesProvider
<1>2. QED
  BY <1>1, RightsStep, TypeCorrect, PTL DEF Spec

\* drainNotionOutbox and OutboxService.claim/complete create at most one page
\* per committed intent, for any number of intents and dispatcher loops.
THEOREM OnePage == Spec => []AtMostOnePage
BY RightsInv, PTL DEF Rights

\* A stored "sent", "dead" or "skipped" agrees with what Notion holds.
THEOREM HonestVerdict == Spec => []VerdictMatchesProvider
BY RightsInv, PTL DEF Rights

-----------------------------------------------------------------------------
(* Refinement *)

LEMMA VerdictValues ==
    /\ VerdictOf("absent") = "none" /\ VerdictOf("pending") = "queued"
    /\ VerdictOf("dispatching") = "open" /\ VerdictOf("unknown") = "ambiguous"
    /\ VerdictOf("sent") = "delivered"
    /\ VerdictOf("skipped") = "notDelivered" /\ VerdictOf("dead") = "notDelivered"
BY DEF VerdictOf

\* A claim call maps to Sweep over the rows it expires.
LEMMA ClaimMapsToSweep ==
    ASSUME TypeOK, pages' = pages,
           \/ ExpireThen({}, "unknown")
           \/ \E d \in Delivery, s \in {"dead", "dispatching"} :
                status[d] = "pending" /\ ExpireThen({d}, s)
    PROVE  Abs!AbsNext
<1>1. Expired \in SUBSET Delivery /\ \A d \in Expired : status[d] = "dispatching"
  BY DEF Expired
<1>2. CASE ExpireThen({}, "unknown")
  <2>1. Abs!Sweep(Expired)
    BY <1>1, <1>2, VerdictValues DEF Abs!Sweep, ExpireThen
  <2>2. QED
    BY <1>1, <2>1 DEF Abs!AbsNext
<1>3. ASSUME NEW d \in Delivery, NEW s \in {"dead", "dispatching"},
             status[d] = "pending", ExpireThen({d}, s)
      PROVE  Abs!AbsNext
  <2>1. Abs!Sweep(Expired)
    BY <1>1, <1>3, VerdictValues DEF Abs!Sweep, ExpireThen
  <2>2. QED
    BY <1>1, <2>1 DEF Abs!AbsNext
<1>4. QED
  BY <1>2, <1>3

\* Core's processing of a completion maps to Close or to a stutter.
LEMMA CompleteMapsToClose ==
    ASSUME TypeOK, Rights, NEW c \in calls, CompleteRow(c), pages' = pages
    PROVE  Abs!AbsNext \/ UNCHANGED <<status, pages>>
<1>1. c.id \in Delivery /\ c.status \in Terminal
  BY DEF TypeOK, Call
<1>2. CASE ~CompleteApplies(c)
  BY <1>2 DEF CompleteRow, table
<1>3. CASE CompleteApplies(c)
  <2>1. Abs!Close(c.id, VerdictOf(c.status))
    BY <1>1, <1>3, VerdictValues
    DEF Abs!Close, CompleteRow, CompleteApplies, Rights, Calls, Refused, Terminal, TypeOK
  <2>2. QED
    BY <1>1, <2>1, VerdictValues DEF Abs!AbsNext, Terminal
<1>4. QED
  BY <1>2, <1>3

\* A dispatcher's publish, or Notion performing an abandoned one, maps to Perform.
LEMMA PublishMapsToPerform ==
    ASSUME TypeOK, NEW d \in Delivery, status[d] \in {"dispatching", "unknown"},
           pages[d] = 0, pages' = [pages EXCEPT ![d] = @ + 1], status' = status
    PROVE  Abs!AbsNext
<1>1. Abs!Perform(d)
  BY VerdictValues DEF Abs!Perform, TypeOK
<1>2. QED
  BY <1>1 DEF Abs!AbsNext

\* OutboxService and drainNotionOutbox implement at-most-once delivery: the
\* rows tell a reader no more and no less than AtMostOnceDelivery allows.
THEOREM Refinement == Spec => ImplementsAtMostOnce
<1>1. Init => Abs!AbsInit
  BY VerdictValues DEF Init, Abs!AbsInit
<1>2. TypeOK /\ Rights /\ [Next]_vars => [Abs!AbsNext]_(Abs!absVars)
  <2> SUFFICES ASSUME TypeOK, Rights, [Next]_vars
               PROVE  Abs!AbsNext \/ UNCHANGED <<status, pages>>
    BY DEF Abs!absVars
  <2>1. ASSUME NEW d \in Delivery, NEW p \in Payload, Enqueue(d, p) PROVE Abs!AbsNext
    <3>1. Abs!Queue(d)
      BY <2>1, VerdictValues DEF Enqueue, Abs!Queue, TypeOK
    <3>2. QED
      BY <3>1 DEF Abs!AbsNext
  <2>2. ASSUME NEW d \in Delivery, Alter(d) \/ LateLost(d) PROVE UNCHANGED <<status, pages>>
    BY <2>2 DEF Alter, LateLost, table
  <2>3. ASSUME NEW d \in Delivery, LatePublish(d) PROVE Abs!AbsNext
    BY <2>3, PublishMapsToPerform DEF LatePublish, table, Rights, Abandoned
  <2>4. ASSUME NEW w \in Worker, ClaimStep(w) PROVE Abs!AbsNext
    BY <2>4, ClaimMapsToSweep
    DEF ClaimStep, ClaimNone, ClaimAltered, Claim, ClaimLost, TakeRow, Claimable, Pending
  <2>5. ASSUME NEW w \in Worker, PublishOk(w) PROVE Abs!AbsNext
    BY <2>5, PublishMapsToPerform
    DEF PublishOk, CanPublish, table, Rights, Claims, TypeOK
  <2>6. ASSUME NEW w \in Worker,
               \/ Unconfigured(w) \/ RejectPayload(w) \/ SendComplete(w) \/ CompleteFails(w)
               \/ PublishRateLimited(w) \/ PublishRefused(w) \/ PublishUnclear(w) \/ Crash(w)
        PROVE  UNCHANGED <<status, pages>>
    BY <2>6 DEF Unconfigured, RejectPayload, SendComplete, CompleteFails, PublishRateLimited,
                PublishRefused, PublishUnclear, Crash, table
  <2>7. ASSUME NEW w \in Worker, NEW c \in calls, CompleteAnswered(w, c)
        PROVE  Abs!AbsNext \/ UNCHANGED <<status, pages>>
    BY <2>7, CompleteMapsToClose DEF CompleteAnswered
  <2>8. ASSUME NEW c \in calls, CompleteUnanswered(c)
        PROVE  Abs!AbsNext \/ UNCHANGED <<status, pages>>
    BY <2>8, CompleteMapsToClose DEF CompleteUnanswered
  <2>9. CASE Tick \/ UNCHANGED vars
    BY <2>9 DEF Tick, vars, table
  <2>10. QED
    BY <2>1, <2>2, <2>3, <2>4, <2>5, <2>6, <2>7, <2>8, <2>9 DEF Next, DrainStep
<1>3. QED
  BY <1>1, <1>2, TypeCorrect, RightsInv, PTL DEF Spec, ImplementsAtMostOnce, Abs!AbsSpec
=============================================================================
