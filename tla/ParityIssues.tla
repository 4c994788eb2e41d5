---------------------------- MODULE ParityIssues ---------------------------
(***************************************************************************)
(* The parity check of one machine and day (apps/core/src/ourvend/         *)
(* ourvend-parity.service.ts) as a producer of notifications: a scan reads *)
(* both sides, and its reconcile (parity-issue.service.ts) opens, reopens  *)
(* or resolves the issue with its task and writes the event the bot        *)
(* delivers, all in one transaction under an advisory lock and a watermark *)
(* of scan starts.  The data may change and the owner may close the task   *)
(* at any moment; scans may overlap and fail.                              *)
(*                                                                         *)
(* An event carries the start of its scan, not the time of its commit: how *)
(* long a scan may take is a parameter.                                    *)
(***************************************************************************)
EXTENDS Notifications

CONSTANTS Scan,          \* daily() runs under way
          MaxScan,       \* the longest a scan takes
          MaxEpisode,    \* times the issue is opened
          MaxFlips       \* changes of the data and closings of the task

ASSUME ParityAssumption ==
    /\ MaxScan \in Nat /\ MaxEpisode \in Nat \ {0} /\ MaxFlips \in Nat
    /\ Event = {"opened", "resolved"} \X (1 .. MaxEpisode)

VARIABLES bad,           \* the two sides differ
          scan,          \* where each scan stands
          issue,         \* operational_issue: status and episode
          task,          \* its task: "none", "todo" or "closed"
          watermark,     \* operational_projection_state
          flips

parityVars == <<bad, scan, issue, task, watermark, flips>>
vars == <<feedVars, parityVars>>

Asleep == [step |-> "idle"]

Init ==
    /\ FeedInit
    /\ bad = FALSE
    /\ scan = [s \in Scan |-> Asleep]
    /\ issue = [status |-> "none", episode |-> 0]
    /\ task = "none"
    /\ watermark = Unborn
    /\ flips = 0

\* Time passes; no scan takes longer than MaxScan.
Tick ==
    /\ now < MaxNow
    /\ \A s \in Scan : scan[s] # Asleep => now < scan[s].start + MaxScan
    /\ now' = now + 1
    /\ UNCHANGED <<at, delivered, bot, told, lastTold, faults, parityVars>>

\* Corrections and new sales change the data.
DataChanges ==
    /\ flips < MaxFlips
    /\ flips' = flips + 1
    /\ bad' = ~bad
    /\ UNCHANGED <<feedVars, scan, issue, task, watermark>>

\* A person closes the task, whatever the data say.
CloseTask ==
    /\ task = "todo"
    /\ flips < MaxFlips
    /\ flips' = flips + 1
    /\ task' = "closed"
    /\ UNCHANGED <<feedVars, bad, scan, issue, watermark>>

StartScan(s) ==
    /\ scan[s] = Asleep
    /\ scan' = [scan EXCEPT ![s] = [step |-> "started", start |-> now]]
    /\ UNCHANGED <<feedVars, bad, issue, task, watermark, flips>>

\* The report: whether the sides differ, or that the scope has no data, in
\* which case it is not covered.
ReadSides(s) ==
    /\ scan[s].step = "started"
    /\ \E sees \in {IF bad THEN "bad" ELSE "good", "uncovered"} :
          scan' = [scan EXCEPT ![s] = [step |-> "read", start |-> @.start,
                                       sees |-> sees]]
    /\ UNCHANGED <<feedVars, bad, issue, task, watermark, flips>>

---------------------------------------------------------------------------
\* reconcile.

\* Mutant: a scan is only stale when it is older than itself.
NeverStale(s) == watermark < Unborn

Stale(s) == watermark >= scan[s].start

Done(s) == scan' = [scan EXCEPT ![s] = Asleep]

SkipStale(s) ==
    /\ scan[s].step = "read"
    /\ Stale(s)
    /\ Done(s)
    /\ UNCHANGED <<feedVars, bad, issue, task, watermark, flips>>

\* A task its owner closed is returned like a resolved issue.
Reopens == issue.status = "resolved" \/ task = "closed"

\* create or reopen: a new episode, its task and its event.
Open(s) ==
    /\ scan[s].step = "read" /\ ~Stale(s)
    /\ scan[s].sees = "bad"
    /\ issue.status = "none" \/ Reopens
    /\ issue.episode < MaxEpisode
    /\ issue' = [status |-> "open", episode |-> issue.episode + 1]
    /\ task' = "todo"
    /\ Publish(<<"opened", issue.episode + 1>>, scan[s].start)
    /\ watermark' = scan[s].start
    /\ Done(s)
    /\ UNCHANGED <<now, delivered, bot, told, lastTold, faults, bad, flips>>

Resolve(s) ==
    /\ scan[s].step = "read" /\ ~Stale(s)
    /\ scan[s].sees = "good"
    /\ issue.status = "open"
    /\ issue' = [issue EXCEPT !.status = "resolved"]
    /\ task' = "closed"
    /\ Publish(<<"resolved", issue.episode>>, scan[s].start)
    /\ watermark' = scan[s].start
    /\ Done(s)
    /\ UNCHANGED <<now, delivered, bot, told, lastTold, faults, bad, flips>>

\* refresh, retain, or nothing to do: no event.
Confirm(s) ==
    /\ scan[s].step = "read" /\ ~Stale(s)
    /\ \/ scan[s].sees = "bad" /\ issue.status = "open" /\ ~Reopens
       \/ scan[s].sees = "good" /\ issue.status # "open"
       \/ scan[s].sees = "uncovered"
    /\ watermark' = scan[s].start
    /\ Done(s)
    /\ UNCHANGED <<feedVars, bad, issue, task, flips>>

\* The scan or its transaction fails: the issue stays as it is.
ScanFails(s) ==
    /\ scan[s] # Asleep
    /\ Done(s)
    /\ UNCHANGED <<feedVars, bad, issue, task, watermark, flips>>

ParityStep ==
    \/ Tick \/ DataChanges \/ CloseTask
    \/ \E s \in Scan :
          \/ StartScan(s) \/ ReadSides(s) \/ SkipStale(s) \/ Open(s)
          \/ Resolve(s) \/ Confirm(s) \/ ScanFails(s)

Next == ParityStep \/ (BotStep /\ UNCHANGED parityVars)

Spec == Init /\ [][Next]_vars /\ BotFairness

---------------------------------------------------------------------------

\* State of the journal, the deliveries, the bot and the parity projection.
TypeOK ==
    /\ now \in Nat
    /\ at \in [Event -> Nat \cup {Unborn}]
    /\ delivered \subseteq Event /\ acked \subseteq Event
    /\ since \in Int /\ until \in Nat \cup {NoScan}
    /\ after \in Event \cup {NoEvent}
    /\ pending \in Seq(Event)
    /\ turn \in {"rest", "send", "ack"} /\ left \in Nat
    /\ turn # "rest" => left > 0 /\ left =< Len(pending)
    /\ told \in [Event -> Nat] /\ lastTold \in Event \cup {NoEvent}
    /\ issue \in [status : {"none", "open", "resolved"}, episode : 0 .. MaxEpisode]
    /\ task \in {"none", "todo", "closed"}
    /\ watermark \in Nat \cup {Unborn}
    /\ faults \in Nat /\ flips \in Nat

\* The newest event of the journal says what the issue is: overlapping scans
\* cannot leave an issue open after the news that it was resolved, nor the
\* other way round (parity-issue.service.ts:403-411).
NewestEventIsTrue ==
    \A e \in Event :
        Visible(e) /\ (\A f \in Event : at[f] =< at[e])
            => e = <<IF issue.status = "open" THEN "opened" ELSE "resolved",
                     issue.episode>>

\* The owner is never told an older event after a newer one, the first time
\* or again: a recovery does not overtake the alarm it belongs to
\* (bot/src/index.ts:866).
ToldInOrder ==
    [][lastTold # NoEvent /\ told' # told => at[lastTold] =< at[lastTold']]_vars

\* A message is repeated only after a failure: no more often than failures
\* happen, whatever scans overlap and however the memory of the bot is cut.
RepeatsNeedFaults == \A e \in Event : told[e] =< 1 + faults

\* What counts as delivered has reached the owner.
DeliveredWasTold == \A e \in delivered : told[e] > 0

\* Core's deliveries and the messages of the owner agree, up to failures,
\* although a message and its acknowledgement are two calls (index.ts:881).
DeliveredAsTold == RepeatsNeedFaults /\ DeliveredWasTold

\* Every event reaches the owner, although sending, answers and the bot fail,
\* unless it is older than the look-back of a restart.
EventuallyTold ==
    []<>(\A e \in Event :
            Visible(e) => told[e] > 0 \/ at[e] + Lookback < now)
=============================================================================
