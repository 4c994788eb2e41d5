--------------------------- MODULE DeliveryOutbox ---------------------------
(***************************************************************************)
(* Core's transport outbox (apps/core/src/outbox/outbox.service.ts) and    *)
(* the Notion dispatcher that drains it (apps/agents/src/                  *)
(* outbox-dispatcher.ts).  Core moves an intent to "dispatching" before    *)
(* the external call and never back to "pending"; the dispatcher publishes *)
(* one page per claim and reports the outcome under its lease token.       *)
(*                                                                         *)
(* The network between dispatcher and Core delays, loses and reorders      *)
(* calls: a completion is a message in "calls" that the caller may stop    *)
(* waiting for while Core still applies it.                                *)
(***************************************************************************)
EXTENDS Naturals, FiniteSets

CONSTANTS Delivery,         \* committed intents of destination "notion-report"
          Worker,           \* concurrent dispatcher loops
          NoDelivery,       \* "no row"
          UnknownAfter,     \* DISPATCH_UNKNOWN_AFTER_MS in ticks
          MaxRateLimitRetries

ASSUME DeliveryAssumption ==
    /\ NoDelivery \notin Delivery
    /\ IsFiniteSet(Delivery) /\ IsFiniteSet(Worker)
    /\ UnknownAfter \in Nat \ {0}
    /\ MaxRateLimitRetries \in Nat

\* The outbox_delivery table, one function per column.
VARIABLES status, payload, token, lastError,
          seq,      \* createdAt: the order of insertion
          age       \* ticks since claimedAt, counted up to UnknownAfter

VARIABLES minted,   \* lease tokens issued so far (randomUUID: never repeated)
          job,      \* the control state of each dispatcher loop
          calls,    \* completion requests that Core has not processed yet
          late,     \* publish requests abandoned by their caller, still in flight
          pages     \* Notion pages created from each intent

table == <<status, payload, token, lastError, seq, age>>
vars  == <<table, minted, job, calls, late, pages>>

Terminal == {"sent", "skipped", "unknown", "dead"}
Status   == {"absent", "pending", "dispatching"} \union Terminal

\* "altered": the payload no longer matches payloadHash;
\* "malformed": it matches, but parseNotionReport rejects it.
Payload == {"report", "malformed", "altered"}
Error   == {"none", "claim", "worker"}     \* lastError: null, set by claim, set by complete

Call == [id : Delivery, token : Nat, status : Terminal]

JobState == [pc : {"idle", "claimed", "completing", "awaiting"},
             id : Delivery \union {NoDelivery}, token : Nat,
             retries : 0..MaxRateLimitRetries, goal : Terminal]

Idle == [pc |-> "idle", id |-> NoDelivery, token |-> 0, retries |-> 0, goal |-> "unknown"]

TypeOK ==
    /\ status \in [Delivery -> Status]
    /\ payload \in [Delivery -> Payload]
    /\ token \in [Delivery -> Nat]
    /\ lastError \in [Delivery -> Error]
    /\ seq \in [Delivery -> Nat]
    /\ age \in [Delivery -> 0..UnknownAfter]
    /\ minted \in Nat
    /\ job \in [Worker -> JobState]
    /\ \A w \in Worker : job[w].pc # "idle" => job[w].id \in Delivery
    /\ calls \subseteq Call
    /\ late \subseteq Delivery
    /\ pages \in [Delivery -> Nat]

Init ==
    /\ status = [d \in Delivery |-> "absent"]
    /\ payload = [d \in Delivery |-> "report"]
    /\ token = [d \in Delivery |-> 0]
    /\ lastError = [d \in Delivery |-> "none"]
    /\ seq = [d \in Delivery |-> 0]
    /\ age = [d \in Delivery |-> 0]
    /\ minted = 0
    /\ job = [w \in Worker |-> Idle]
    /\ calls = {}
    /\ late = {}
    /\ pages = [d \in Delivery |-> 0]

-----------------------------------------------------------------------------
(* Core *)

Created == {d \in Delivery : status[d] # "absent"}

\* TasksService.commitAgentRun inserts the intent with the task's outcome.
Enqueue(d, p) ==
    /\ status[d] = "absent"
    /\ status'  = [status EXCEPT ![d] = "pending"]
    /\ payload' = [payload EXCEPT ![d] = p]
    /\ seq'     = [seq EXCEPT ![d] = Cardinality(Created)]
    /\ UNCHANGED <<token, lastError, age, minted, job, calls, late, pages>>

\* Somebody edits the stored payload after the commit that hashed it.
Alter(d) ==
    /\ status[d] = "pending"
    /\ payload[d] # "altered"
    /\ payload' = [payload EXCEPT ![d] = "altered"]
    /\ UNCHANGED <<status, token, lastError, seq, age, minted, job, calls, late, pages>>

\* A claim older than the lease: the provider may have accepted the request.
Expired == {d \in Delivery : status[d] = "dispatching" /\ age[d] >= UnknownAfter}

Pending == {d \in Delivery : status[d] = "pending"}

\* ORDER BY createdAt with SKIP LOCKED: the oldest pending row that none of
\* the other concurrent claims has locked.
Claimable(d) ==
    /\ d \in Pending
    /\ Cardinality({e \in Pending : seq[e] < seq[d]}) < Cardinality(Worker)

\* Mutant: an expired claim returns to the queue instead of turning ambiguous.
ExpireThenReclaims(taken, s) ==
    /\ status' = [e \in Delivery |-> IF e \in taken THEN s
                                     ELSE IF e \in Expired THEN "pending" ELSE status[e]]
    /\ lastError' = lastError

\* Mutant: nothing ever expires a claim.
ExpireThenKeeps(taken, s) ==
    /\ status' = [e \in Delivery |-> IF e \in taken THEN s ELSE status[e]]
    /\ lastError' = lastError

\* The statuses one claim call writes: every expired claim becomes "unknown",
\* then the row it takes, if any, gets status s.
ExpireThen(taken, s) ==
    /\ status' = [e \in Delivery |-> IF e \in taken THEN s
                                     ELSE IF e \in Expired THEN "unknown" ELSE status[e]]
    /\ lastError' = [e \in Delivery |->
                       IF e \in taken THEN (IF s = "dead" THEN "claim" ELSE "none")
                       ELSE IF e \in Expired THEN "claim" ELSE lastError[e]]

TakeRow(d, s) ==
    /\ Claimable(d)
    /\ ExpireThen({d}, s)
    /\ minted' = minted + 1
    /\ token' = [token EXCEPT ![d] = minted + 1]
    /\ age' = [age EXCEPT ![d] = 0]

\* Nothing is pending, or the pending rows are locked by other claims: the
\* call only expires stale rows.
ClaimNone(w) ==
    /\ job[w].pc = "idle"
    /\ Cardinality(Pending) < Cardinality(Worker)
    /\ ExpireThen({}, "unknown")
    /\ UNCHANGED <<payload, token, seq, age, minted, job, calls, late, pages>>

\* The payload hash does not match: the intent dies and the caller gets null.
ClaimAltered(w, d) ==
    /\ job[w].pc = "idle"
    /\ payload[d] = "altered"
    /\ TakeRow(d, "dead")
    /\ UNCHANGED <<payload, seq, job, calls, late, pages>>

Claim(w, d) ==
    /\ job[w].pc = "idle"
    /\ payload[d] # "altered"
    /\ TakeRow(d, "dispatching")
    /\ job' = [job EXCEPT ![w] = [pc |-> "claimed", id |-> d, token |-> minted + 1,
                                  retries |-> 0, goal |-> "unknown"]]
    /\ UNCHANGED <<payload, seq, calls, late, pages>>

\* Core commits the claim, the response never reaches the dispatcher.
ClaimLost(w, d) ==
    /\ job[w].pc = "idle"
    /\ payload[d] # "altered"
    /\ TakeRow(d, "dispatching")
    /\ UNCHANGED <<payload, seq, job, calls, late, pages>>

\* Mutant: the CAS compares the token but not the status.
CompleteAppliesAnyStatus(c) == token[c.id] = c.token

\* OutboxService.complete: CAS on (dispatching, leaseToken).
CompleteApplies(c) == status[c.id] = "dispatching" /\ token[c.id] = c.token

ErrorOf(c) == IF c.status = "sent" THEN "none" ELSE "worker"

\* The exact retry of a completion whose response was lost (providerRef is
\* written by "sent" alone, so equal statuses have equal references).
CompleteReplays(c) ==
    token[c.id] = c.token /\ status[c.id] = c.status /\ lastError[c.id] = ErrorOf(c)

CompleteRow(c) ==
    \/ /\ CompleteApplies(c)
       /\ status' = [status EXCEPT ![c.id] = c.status]
       /\ lastError' = [lastError EXCEPT ![c.id] = ErrorOf(c)]
       /\ UNCHANGED <<payload, token, seq, age>>
    \/ /\ ~CompleteApplies(c)
       /\ UNCHANGED table

-----------------------------------------------------------------------------
(* The dispatcher: one iteration of drainNotionOutbox *)

Resolve(w, goal) ==
    job' = [job EXCEPT ![w].pc = "completing", ![w].goal = goal]

\* NOTION_TOKEN or NOTION_PARENT_PAGE_ID is not set in this process.
Unconfigured(w) ==
    /\ job[w].pc = "claimed"
    /\ job[w].retries = 0
    /\ Resolve(w, "skipped")
    /\ UNCHANGED <<table, minted, calls, late, pages>>

RejectPayload(w) ==
    /\ job[w].pc = "claimed"
    /\ payload[job[w].id] = "malformed"
    /\ Resolve(w, "dead")
    /\ UNCHANGED <<table, minted, calls, late, pages>>

CanPublish(w) == job[w].pc = "claimed" /\ payload[job[w].id] # "malformed"

PublishOk(w) ==
    /\ CanPublish(w)
    /\ pages' = [pages EXCEPT ![job[w].id] = @ + 1]
    /\ Resolve(w, "sent")
    /\ UNCHANGED <<table, minted, calls, late>>

\* 429: the request was refused; retry it under the same claim.
PublishRateLimited(w) ==
    /\ CanPublish(w)
    /\ job[w].retries < MaxRateLimitRetries
    /\ job' = [job EXCEPT ![w].retries = @ + 1]
    /\ UNCHANGED <<table, minted, calls, late, pages>>

\* 400, 401, 403, 404, or 429 with the retries exhausted: no page exists.
PublishRefused(w) ==
    /\ CanPublish(w)
    /\ Resolve(w, "dead")
    /\ UNCHANGED <<table, minted, calls, late, pages>>

\* Mutant: a timeout counts as a refusal.
PublishUnclearDies(w) ==
    /\ CanPublish(w)
    /\ late' = late \union {job[w].id}
    /\ Resolve(w, "dead")
    /\ UNCHANGED <<table, minted, calls, pages>>

\* 5xx, a broken response or a 15 s abort: the request may still be applied.
PublishUnclear(w) ==
    /\ CanPublish(w)
    /\ late' = late \union {job[w].id}
    /\ Resolve(w, "unknown")
    /\ UNCHANGED <<table, minted, calls, pages>>

\* Notion performs an abandoned request.
LatePublish(d) ==
    /\ d \in late
    /\ late' = late \ {d}
    /\ pages' = [pages EXCEPT ![d] = @ + 1]
    /\ UNCHANGED <<table, minted, job, calls>>

\* Notion never saw the abandoned request.
LateLost(d) ==
    /\ d \in late
    /\ late' = late \ {d}
    /\ UNCHANGED <<table, minted, job, calls, pages>>

SendComplete(w) ==
    /\ job[w].pc = "completing"
    /\ calls' = calls \union {[id |-> job[w].id, token |-> job[w].token,
                               status |-> job[w].goal]}
    /\ job' = [job EXCEPT ![w].pc = "awaiting"]
    /\ UNCHANGED <<table, minted, late, pages>>

AwaitedBy(w, c) == /\ job[w].pc = "awaiting"
                   /\ c = [id |-> job[w].id, token |-> job[w].token, status |-> job[w].goal]

\* A failed completion: inside the try block of a successful publish it is
\* caught and reported as "unknown"; elsewhere it ends the drain.
AfterFailedComplete(w) ==
    IF job[w].goal = "sent"
    THEN [job[w] EXCEPT !.pc = "completing", !.goal = "unknown"]
    ELSE Idle

\* Core processes a completion somebody still waits for.
CompleteAnswered(w, c) ==
    /\ c \in calls
    /\ AwaitedBy(w, c)
    /\ CompleteRow(c)
    /\ job' = [job EXCEPT ![w] = IF CompleteApplies(c) \/ CompleteReplays(c)
                                 THEN Idle ELSE AfterFailedComplete(w)]
    /\ calls' = calls \ {c}
    /\ UNCHANGED <<minted, late, pages>>

\* Core processes a completion; the response is lost or nobody waits for it.
CompleteUnanswered(c) ==
    /\ c \in calls
    /\ CompleteRow(c)
    /\ calls' = calls \ {c}
    /\ UNCHANGED <<minted, job, late, pages>>

\* The 10 s client timeout, or a transport error.
CompleteFails(w) ==
    /\ job[w].pc = "awaiting"
    /\ job' = [job EXCEPT ![w] = AfterFailedComplete(w)]
    /\ UNCHANGED <<table, minted, calls, late, pages>>

\* The agents process dies and its loop starts over; a publish request that
\* it had on the wire may still reach Notion.
Crash(w) ==
    /\ job[w].pc # "idle"
    /\ job' = [job EXCEPT ![w] = Idle]
    /\ \/ UNCHANGED late
       \/ CanPublish(w) /\ late' = late \union {job[w].id}
    /\ UNCHANGED <<table, minted, calls, pages>>

Tick ==
    /\ \E d \in Delivery : status[d] = "dispatching" /\ age[d] < UnknownAfter
    /\ age' = [d \in Delivery |->
                 IF status[d] = "dispatching" /\ age[d] < UnknownAfter
                 THEN age[d] + 1 ELSE age[d]]
    /\ UNCHANGED <<status, payload, token, lastError, seq, minted, job, calls, late, pages>>

ClaimStep(w) ==
    \/ ClaimNone(w)
    \/ \E d \in Delivery : ClaimAltered(w, d) \/ Claim(w, d) \/ ClaimLost(w, d)

DrainStep(w) ==
    \/ Unconfigured(w) \/ RejectPayload(w) \/ SendComplete(w)
    \/ PublishOk(w) \/ PublishRateLimited(w) \/ PublishRefused(w) \/ PublishUnclear(w)
    \/ CompleteFails(w)
    \/ \E c \in calls : CompleteAnswered(w, c)

Next ==
    \/ \E d \in Delivery : \/ \E p \in Payload \ {"altered"} : Enqueue(d, p)
                           \/ Alter(d) \/ LatePublish(d) \/ LateLost(d)
    \/ \E w \in Worker : ClaimStep(w) \/ DrainStep(w) \/ Crash(w)
    \/ \E c \in calls : CompleteUnanswered(c)
    \/ Tick

Spec == Init /\ [][Next]_vars

\* The agents process polls forever (the drain runs on every task poll) and
\* time passes; nothing is assumed about crashes, Notion or lost calls.
Fairness ==
    /\ WF_vars(Tick)
    /\ \A w \in Worker : WF_vars(ClaimStep(w)) /\ WF_vars(DrainStep(w))

FairSpec == Spec /\ Fairness

-----------------------------------------------------------------------------
(* Properties *)

\* Notion has no idempotency key, so a second publish of one intent would be
\* a second page: whatever is lost, delayed, retried after 429, expired or
\* restarted, drainNotionOutbox creates at most one page per committed intent.
AtMostOnePage == \A d \in Delivery : pages[d] <= 1

\* The operator acts on the status Core stores.  "sent" is never stored for a
\* page that does not exist, and once a row says "dead" or "skipped" no page
\* exists and none can appear: no claim, and no abandoned request, is left
\* that could still create one.
VerdictMatchesProvider ==
    \A d \in Delivery :
        /\ status[d] = "sent" => pages[d] = 1
        /\ status[d] \in {"absent", "pending", "skipped", "dead"} =>
              /\ pages[d] = 0
              /\ d \notin late
              /\ \A w \in Worker : job[w].id = d => job[w].pc # "claimed"

\* Every committed intent reaches a terminal status although claims are lost,
\* dispatchers crash and completions never arrive: "ни одна из пауз не должна
\* оставлять durable outbox навсегда pending" (apps/agents/src/index.ts:642).
EventuallySettled ==
    \A d \in Delivery : (status[d] = "pending") ~> (status[d] \in Terminal)

-----------------------------------------------------------------------------
(* Refinement: what a reader of outbox_delivery may conclude *)

VerdictOf(s) == CASE s = "absent" -> "none"
                  [] s = "pending" -> "queued"
                  [] s = "dispatching" -> "open"
                  [] s = "sent" -> "delivered"
                  [] s \in {"skipped", "dead"} -> "notDelivered"
                  [] s = "unknown" -> "ambiguous"

Abs == INSTANCE AtMostOnceDelivery WITH
          verdict  <- [d \in Delivery |-> VerdictOf(status[d])],
          happened <- {d \in Delivery : pages[d] > 0}

\* The outbox implements at-most-once delivery with honest verdicts: a row is
\* opened once, its effect needs an open or ambiguous row, and a closed row is
\* never closed again with another verdict.
ImplementsAtMostOnce == Abs!AbsSpec
=============================================================================
