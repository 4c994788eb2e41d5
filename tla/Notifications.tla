---------------------------- MODULE Notifications --------------------------
(***************************************************************************)
(* Urgent notifications: events in Core's journal, the query that selects  *)
(* the ones not yet delivered (apps/core/src/events/events.service.ts,     *)
(* rules/rules.service.ts), and the bot that polls it, sends each message  *)
(* to Telegram and then acknowledges it (apps/bot/src/notifier.ts and the  *)
(* delivery loop of apps/bot/src/index.ts).                                *)
(*                                                                         *)
(* An event carries the time its producer gave it, which may lie before    *)
(* the moment it becomes visible.  The bot moves its lower bound to the    *)
(* start of a finished scan less an overlap, and knows nothing after a     *)
(* restart but a look-back of some days; what has been delivered is kept   *)
(* in Core.  The chats of the owner are one: a message that reaches any    *)
(* of them counts.                                                         *)
(***************************************************************************)
EXTENDS Integers, Sequences, FiniteSets

CONSTANTS Event,         \* events an immediate rule selects
          Overlap,       \* a new scan starts this long before the last one
          Lookback,      \* and the first one this long before the restart
          Page,          \* events in one answer (PENDING_EVENTS_LIMIT)
          Batch,         \* messages in one round (NOTIFIER_DELIVERY_BATCH)
          MemoryLimit,   \* no more is fetched above this many unacknowledged
          MaxNow, MaxFaults

ASSUME NotificationAssumption ==
    /\ Overlap \in Nat /\ Lookback \in Nat
    /\ Page \in Nat \ {0} /\ Batch \in Nat \ {0} /\ MemoryLimit \in Nat \ {0}
    /\ MaxNow \in Nat /\ MaxFaults \in Nat

Unborn  == -1
NoScan  == -1
NoEvent == <<>>

ASSUME NoEventAssumption == NoEvent \notin Event

VARIABLES now,
          at,            \* event.occurred_at, Unborn before the row is visible
          delivered,     \* notification_delivery
          since, until,  \* bounds of the scan, until is NoScan between scans
          after,         \* its page cursor
          pending,       \* notes fetched and not acknowledged, in order
          acked,         \* notes acknowledged by this process
          turn,          \* "rest", "send" or "ack" the head of pending
          left,          \* messages left in this round
          told,          \* how often each message reached the owner
          lastTold,
          faults

bot == <<since, until, after, pending, acked, turn, left>>
feedVars == <<now, at, delivered, bot, told, lastTold, faults>>

FeedInit ==
    /\ now = 0
    /\ at = [e \in Event |-> Unborn]
    /\ delivered = {}
    /\ since = -Lookback
    /\ until = NoScan
    /\ after = NoEvent
    /\ pending = <<>>
    /\ acked = {}
    /\ turn = "rest"
    /\ left = 0
    /\ told = [e \in Event |-> 0]
    /\ lastTold = NoEvent
    /\ faults = 0

Visible(e) == at[e] # Unborn

\* A row becomes visible with the time its producer gave it; the journal
\* keeps the first row of a client key.
Publish(e, t) == at' = [at EXCEPT ![e] = IF Visible(e) THEN @ ELSE t]

Fault == faults < MaxFaults /\ faults' = faults + 1

---------------------------------------------------------------------------
\* RulesService.pending: one page, oldest first, less what was delivered.

Upper == IF until = NoScan THEN now ELSE until

\* Rows of one producer differ in their time; the id breaks ties of others.
Matches(e) ==
    /\ Visible(e)
    /\ since =< at[e] /\ at[e] =< Upper
    /\ after # NoEvent => at[after] < at[e]

Matching == {e \in Event : Matches(e)}

\* The first ones of a set, and its members in the order of their times.
FirstOf(S) == {e \in S : Cardinality({f \in S : at[f] < at[e]}) < Page}

InTime(S) == {q \in [1 .. Cardinality(S) -> S] :
                 \A i, j \in DOMAIN q : i < j => at[q[i]] < at[q[j]]}

Held == {pending[i] : i \in DOMAIN pending}

---------------------------------------------------------------------------
\* The delivery round of the bot: one at a time.

StartSending(q) ==
    /\ left' = IF Len(q) =< Batch THEN Len(q) ELSE Batch
    /\ turn' = IF q = <<>> THEN "rest" ELSE "send"

\* Mutant: a scan that ends moves the lower bound up to the present.
ScanEndsNow ==
    /\ since' = now
    /\ until' = NoScan
    /\ after' = NoEvent

ScanEnds ==
    /\ since' = Upper - Overlap
    /\ until' = NoScan
    /\ after' = NoEvent

\* collect: the next page of this scan, or of a new one that starts now.
Collect ==
    /\ turn = "rest"
    /\ Len(pending) < MemoryLimit
    /\ \E news \in InTime(FirstOf(Matching) \ (delivered \cup acked \cup Held)) :
          /\ pending' = pending \o news
          /\ StartSending(pending \o news)
    /\ IF FirstOf(Matching) = Matching
       THEN ScanEnds
       ELSE /\ \E last \in FirstOf(Matching) :
                  /\ \A e \in FirstOf(Matching) : at[e] =< at[last]
                  /\ after' = last
            /\ until' = Upper
            /\ since' = since
    /\ UNCHANGED <<now, at, delivered, acked, told, lastTold, faults>>

\* collect with a full memory: only what is held already.
CollectHeld ==
    /\ turn = "rest"
    /\ Len(pending) >= MemoryLimit
    /\ StartSending(pending)
    /\ UNCHANGED <<now, at, delivered, since, until, after, pending, acked,
                   told, lastTold, faults>>

\* The request fails: the scan keeps the bound it was given.
CollectFails ==
    /\ turn = "rest"
    /\ Len(pending) < MemoryLimit
    /\ Fault
    /\ until' = Upper
    /\ UNCHANGED <<now, at, delivered, since, after, pending, acked, turn,
                   left, told, lastTold>>

Reaches(e) ==
    /\ told' = [told EXCEPT ![e] = @ + 1]
    /\ lastTold' = e

Send ==
    /\ turn = "send"
    /\ Reaches(Head(pending))
    /\ turn' = "ack"
    /\ UNCHANGED <<now, at, delivered, since, until, after, pending, acked,
                   left, faults>>

\* Mutant: the note that could not be sent goes to the end of the line.
SendFailsGoesOn ==
    /\ turn = "send"
    /\ Fault
    /\ pending' = Append(Tail(pending), Head(pending))
    /\ turn' = "rest"
    /\ UNCHANGED <<now, at, delivered, since, until, after, acked, left, told,
                   lastTold>>

\* No chat took the message: the round ends, so that nothing overtakes it.
SendFails ==
    /\ turn = "send"
    /\ Fault
    /\ turn' = "rest"
    /\ UNCHANGED <<now, at, delivered, since, until, after, pending, acked,
                   left, told, lastTold>>

\* Telegram took it and the answer was lost.
SendUnclear ==
    /\ turn = "send"
    /\ Fault
    /\ Reaches(Head(pending))
    /\ turn' = "rest"
    /\ UNCHANGED <<now, at, delivered, since, until, after, pending, acked,
                   left>>

Remember(e) == IF Cardinality(acked \cup {e}) > MemoryLimit
               THEN {} ELSE acked \cup {e}

\* Mutant: the delivery is remembered by the process alone.
AckInMemory ==
    /\ turn = "ack"
    /\ pending' = Tail(pending)
    /\ acked' = Remember(Head(pending))
    /\ left' = left - 1
    /\ turn' = IF left = 1 THEN "rest" ELSE "send"
    /\ UNCHANGED <<now, at, delivered, since, until, after, told, lastTold,
                   faults>>

Ack ==
    /\ turn = "ack"
    /\ delivered' = delivered \cup {Head(pending)}
    /\ pending' = Tail(pending)
    /\ acked' = Remember(Head(pending))
    /\ left' = left - 1
    /\ turn' = IF left = 1 THEN "rest" ELSE "send"
    /\ UNCHANGED <<now, at, since, until, after, told, lastTold, faults>>

\* Core is not reached.
AckFails ==
    /\ turn = "ack"
    /\ Fault
    /\ turn' = "rest"
    /\ UNCHANGED <<now, at, delivered, since, until, after, pending, acked,
                   left, told, lastTold>>

\* Core keeps the key and its answer is lost: the note stays in memory.
AckUnheard ==
    /\ turn = "ack"
    /\ Fault
    /\ delivered' = delivered \cup {Head(pending)}
    /\ turn' = "rest"
    /\ UNCHANGED <<now, at, since, until, after, pending, acked, left, told,
                   lastTold>>

Restart ==
    /\ Fault
    /\ since' = now - Lookback
    /\ until' = NoScan
    /\ after' = NoEvent
    /\ pending' = <<>>
    /\ acked' = {}
    /\ turn' = "rest"
    /\ left' = 0
    /\ UNCHANGED <<now, at, delivered, told, lastTold>>

BotStep ==
    \/ Collect \/ CollectHeld \/ CollectFails
    \/ Send \/ SendFails \/ SendUnclear
    \/ Ack \/ AckFails \/ AckUnheard
    \/ Restart

\* The timer fires for ever, and a round that has begun goes on: exactly one
\* of these is enabled at any time.
BotFairness == WF_feedVars(Collect \/ CollectHeld \/ Send \/ Ack)
=============================================================================
