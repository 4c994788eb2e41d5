------------------------- MODULE ParityIssuesProofs ------------------------
(***************************************************************************)
(* For any number of events, scans and failures: what was acknowledged was *)
(* told, a message is repeated no more often than something failed, the    *)
(* newest event of the journal says what the issue is and, as long as a    *)
(* scan takes no longer than the overlap, the owner is told in order.      *)
(***************************************************************************)
EXTENDS ParityIssues, FiniteSetTheorems, TLAPS

Scans == {Asleep} \cup [step : {"started"}, start : Nat]
           \cup [step : {"read"}, start : Nat, sees : {"bad", "good", "uncovered"}]

\* No note is held twice, and the one to acknowledge has been told.
Memory ==
    /\ \A i, j \in DOMAIN pending : pending[i] = pending[j] => i = j
    /\ turn = "ack" => told[Head(pending)] > 0

\* A message told once more than there were failures is not told again: it is
\* about to be acknowledged, or delivered and forgotten.
Repeats ==
    \A e \in Event :
        \/ told[e] =< faults
        \/ /\ told[e] = faults + 1
           /\ (e \in delivered /\ e \notin Held) \/ (turn = "ack" /\ e = Head(pending))

\* The event of the present issue is the newest of the journal.
Current == <<IF issue.status = "open" THEN "opened" ELSE "resolved", issue.episode>>

Journal ==
    /\ \A e \in Event : Visible(e) => at[e] =< watermark /\ e[2] =< issue.episode
    /\ issue.status = "none" => issue.episode = 0
    /\ issue.status # "none" =>
          /\ Current \in Event /\ Visible(Current)
          /\ \A f \in Event : Visible(f) /\ f # Current => at[f] < at[Current]
    /\ issue.status = "open" => ~Visible(<<"resolved", issue.episode>>)

Inv == /\ TypeOK /\ scan \in [Scan -> Scans]
       /\ Memory /\ DeliveredWasTold /\ Repeats /\ Journal

---------------------------------------------------------------------------
\* Types.

\* The parity check keeps them.
LEMMA ParityTyped ==
  ASSUME TypeOK, scan \in [Scan -> Scans], ParityStep
  PROVE  TypeOK' /\ scan' \in [Scan -> Scans]
  <1> USE NotificationAssumption, ParityAssumption
      DEF TypeOK, Scans, feedVars, bot, parityVars, Done, Asleep, Publish, Visible
  <1>1. CASE Tick
    BY <1>1 DEF Tick
  <1>2. CASE DataChanges
    BY <1>2 DEF DataChanges
  <1>3. CASE CloseTask
    BY <1>3 DEF CloseTask
  <1>4. ASSUME NEW s \in Scan, StartScan(s) PROVE TypeOK' /\ scan' \in [Scan -> Scans]
    BY <1>4 DEF StartScan
  <1>5. ASSUME NEW s \in Scan, ReadSides(s) PROVE TypeOK' /\ scan' \in [Scan -> Scans]
    BY <1>5 DEF ReadSides
  <1>6. ASSUME NEW s \in Scan, SkipStale(s) PROVE TypeOK' /\ scan' \in [Scan -> Scans]
    BY <1>6 DEF SkipStale
  <1>7. ASSUME NEW s \in Scan, Open(s) PROVE TypeOK' /\ scan' \in [Scan -> Scans]
    BY <1>7 DEF Open
  <1>8. ASSUME NEW s \in Scan, Resolve(s) PROVE TypeOK' /\ scan' \in [Scan -> Scans]
    <2>1. issue' \in [status : {"none", "open", "resolved"}, episode : 0 .. MaxEpisode]
      BY <1>8 DEF Resolve
    <2>a. scan[s] \in Scans /\ scan[s].step = "read"
      BY <1>8 DEF Resolve
    <2>b. scan[s].start \in Nat
      BY <2>a
    <2>2. scan[s].start \in Nat /\ scan' \in [Scan -> Scans]
      BY <1>8, <2>b DEF Resolve
    <2>3. at' \in [Event -> Nat \cup {Unborn}]
      BY <1>8, <2>2 DEF Resolve
    <2> QED
      BY <1>8, <2>1, <2>2, <2>3 DEF Resolve
  <1>9. ASSUME NEW s \in Scan, Confirm(s) PROVE TypeOK' /\ scan' \in [Scan -> Scans]
    BY <1>9 DEF Confirm
  <1>10. ASSUME NEW s \in Scan, ScanFails(s) PROVE TypeOK' /\ scan' \in [Scan -> Scans]
    BY <1>10 DEF ScanFails
  <1> QED
    BY <1>1, <1>2, <1>3, <1>4, <1>5, <1>6, <1>7, <1>8, <1>9, <1>10 DEF ParityStep

\* Notes in the order of their times are a sequence of the set.
LEMMA InTimeSeq ==
  ASSUME NEW S, S \subseteq Event, IsFiniteSet(S), NEW q \in InTime(S)
  PROVE  /\ q \in Seq(Event) /\ DOMAIN q = 1 .. Len(q) /\ \A i \in DOMAIN q : q[i] \in S
  <1>1. Cardinality(S) \in Nat
    BY FS_CardinalityType
  <1> QED
    BY <1>1 DEF InTime

\* The events are finitely many.
LEMMA EventsFinite == \A S \in SUBSET Event : IsFiniteSet(S)
  <1>1. IsFiniteSet({"opened", "resolved"})
    <2>1. IsFiniteSet({} \cup {"opened"})
      BY FS_EmptySet, FS_AddElement
    <2>2. IsFiniteSet(({} \cup {"opened"}) \cup {"resolved"})
      BY <2>1, FS_AddElement
    <2>3. ({} \cup {"opened"}) \cup {"resolved"} = {"opened", "resolved"}
      OBVIOUS
    <2> QED
      BY <2>2, <2>3
  <1>2. IsFiniteSet(1 .. MaxEpisode)
    BY FS_Interval, ParityAssumption
  <1>3. IsFiniteSet(Event)
    BY <1>1, <1>2, FS_Product, ParityAssumption
  <1> QED
    BY <1>3, FS_Subset

\* A collected page brings notes that differ from each other and that were
\* neither held nor delivered.
LEMMA Collected ==
  ASSUME TypeOK, Collect
  PROVE  \E news \in Seq(Event) :
            /\ pending' = pending \o news
            /\ StartSending(pending \o news)
            /\ \A i \in 1 .. Len(news) : news[i] \notin delivered \cup Held
            /\ \A i, j \in 1 .. Len(news) : news[i] = news[j] => i = j
  <1> DEFINE S == FirstOf(Matching) \ (delivered \cup acked \cup Held)
  <1>1. S \subseteq Event
    BY DEF FirstOf, Matching
  <1>2. PICK news \in InTime(S) : pending' = pending \o news /\ StartSending(pending \o news)
    BY DEF Collect
  <1> HIDE DEF S
  <1>3. /\ news \in Seq(Event) /\ DOMAIN news = 1 .. Len(news)
        /\ \A i \in DOMAIN news : news[i] \in S
    BY <1>1, <1>2, EventsFinite, InTimeSeq
  <1>4. \A i \in 1 .. Len(news) : news[i] \notin delivered \cup Held
    BY <1>3 DEF S
  <1>5. \A i, j \in 1 .. Len(news) : i < j => at[news[i]] < at[news[j]]
    BY <1>2, <1>3 DEF InTime
  <1>6. \A e \in Event : at[e] \in Int
    BY DEF TypeOK, Unborn
  <1>7. \A i \in 1 .. Len(news) : at[news[i]] \in Int
    BY <1>1, <1>3, <1>6
  <1>8. \A i, j \in 1 .. Len(news) : news[i] = news[j] => i = j
    <2> SUFFICES ASSUME NEW i \in 1 .. Len(news), NEW j \in 1 .. Len(news), news[i] = news[j], i # j
                 PROVE  FALSE
      OBVIOUS
    <2>1. Len(news) \in Nat
      BY <1>3
    <2>2. i < j \/ j < i
      BY <2>1
    <2> QED
      BY <1>5, <1>7, <2>2
  <1> QED
    BY <1>2, <1>3, <1>4, <1>8

\* The bot keeps them.
LEMMA BotTyped == ASSUME TypeOK, BotStep, UNCHANGED parityVars PROVE TypeOK'
  <1> USE NotificationAssumption DEF TypeOK, parityVars, Fault, StartSending, Reaches, Remember
  <1>0. \A p \in Seq(Event) : p # <<>> => /\ Head(p) \in Event /\ Tail(p) \in Seq(Event)
                                          /\ Len(Tail(p)) = Len(p) - 1
    OBVIOUS
  <1>1. CASE Collect
    <2>1. PICK news \in Seq(Event) : pending' = pending \o news /\ StartSending(pending \o news)
      BY <1>1, Collected
    <2>2. pending' \in Seq(Event) /\ Len(pending') \in Nat
      BY <2>1
    <2>3. pending' = <<>> \/ Len(pending') > 0
      BY <2>2
    <2>4. /\ turn' \in {"rest", "send", "ack"} /\ left' \in Nat
          /\ turn' # "rest" => left' > 0 /\ left' =< Len(pending')
      BY <2>1, <2>2, <2>3
    <2>5. since' \in Int /\ until' \in Nat \cup {NoScan} /\ after' \in Event \cup {NoEvent}
      <3>1. Upper \in Nat
        BY DEF Upper
      <3>2. FirstOf(Matching) \subseteq Event
        BY DEF FirstOf, Matching
      <3>3. CASE FirstOf(Matching) = Matching
        BY <1>1, <3>1, <3>3 DEF Collect, ScanEnds
      <3>4. CASE FirstOf(Matching) # Matching
        BY <1>1, <3>1, <3>2, <3>4 DEF Collect
      <3> QED
        BY <3>3, <3>4
    <2> QED
      BY <1>1, <2>2, <2>4, <2>5 DEF Collect
  <1>2. CASE CollectHeld
    BY <1>2 DEF CollectHeld
  <1>3. CASE CollectFails
    BY <1>3 DEF CollectFails, Upper
  <1>4. CASE Send
    BY <1>0, <1>4 DEF Send
  <1>5. CASE SendFails
    BY <1>5 DEF SendFails
  <1>6. CASE SendUnclear
    BY <1>0, <1>6 DEF SendUnclear
  <1>7. CASE Ack
    BY <1>0, <1>7 DEF Ack
  <1>8. CASE AckFails
    BY <1>8 DEF AckFails
  <1>9. CASE AckUnheard
    BY <1>0, <1>9 DEF AckUnheard
  <1>10. CASE Restart
    BY <1>10 DEF Restart
  <1> QED
    BY <1>1, <1>2, <1>3, <1>4, <1>5, <1>6, <1>7, <1>8, <1>9, <1>10 DEF BotStep

---------------------------------------------------------------------------
\* Notes.

Notes == Memory /\ DeliveredWasTold /\ Repeats

\* The head of what is held, and what is left without it.
LEMMA HeadLeaves ==
  ASSUME TypeOK, Memory, turn # "rest"
  PROVE  /\ Head(pending) = pending[1] /\ Head(pending) \in Event
         /\ Head(pending) \in Held
         /\ \A i \in DOMAIN Tail(pending) : Tail(pending)[i] # Head(pending)
         /\ \A i \in DOMAIN Tail(pending) : Tail(pending)[i] \in Held
         /\ \A i, j \in DOMAIN Tail(pending) : Tail(pending)[i] = Tail(pending)[j] => i = j
  <1>1. pending \in Seq(Event) /\ Len(pending) \in Nat /\ Len(pending) > 0
    BY DEF TypeOK
  <1>2. /\ DOMAIN pending = 1 .. Len(pending) /\ 1 \in DOMAIN pending
        /\ Head(pending) = pending[1] /\ pending[1] \in Event
    BY <1>1
  <1>3. /\ DOMAIN Tail(pending) = 1 .. Len(pending) - 1
        /\ \A i \in DOMAIN Tail(pending) : i + 1 \in DOMAIN pending /\ Tail(pending)[i] = pending[i + 1]
    BY <1>1
  <1>4. \A i \in DOMAIN Tail(pending) : Tail(pending)[i] # Head(pending)
    BY <1>1, <1>2, <1>3 DEF Memory
  <1>5. \A i, j \in DOMAIN Tail(pending) : Tail(pending)[i] = Tail(pending)[j] => i = j
    BY <1>1, <1>3 DEF Memory
  <1> QED
    BY <1>2, <1>3, <1>4, <1>5 DEF Held

\* What is collected is new to the bot and to the journal of deliveries.
LEMMA CollectNotes == ASSUME TypeOK, Notes, Collect PROVE Notes'
  <1>1. PICK news \in Seq(Event) :
            /\ pending' = pending \o news
            /\ StartSending(pending \o news)
            /\ \A i \in 1 .. Len(news) : news[i] \notin delivered \cup Held
            /\ \A i, j \in 1 .. Len(news) : news[i] = news[j] => i = j
    BY Collected
  <1>2. turn = "rest" /\ turn' # "ack" /\ UNCHANGED <<delivered, told, faults>>
    BY <1>1 DEF Collect, StartSending
  <1>3. pending \in Seq(Event) /\ Len(pending) \in Nat /\ Len(news) \in Nat
    BY DEF TypeOK
  <1>4. /\ DOMAIN pending = 1 .. Len(pending)
        /\ DOMAIN pending' = 1 .. Len(pending) + Len(news)
        /\ \A i \in 1 .. Len(pending) : pending'[i] = pending[i]
        /\ \A i \in Len(pending) + 1 .. Len(pending) + Len(news) :
              i - Len(pending) \in 1 .. Len(news) /\ pending'[i] = news[i - Len(pending)]
    BY <1>1, <1>3
  <1>5. \A i \in 1 .. Len(pending) : pending'[i] \in Held
    BY <1>4 DEF Held
  <1>6. \A i \in DOMAIN pending' :
            \/ i \in 1 .. Len(pending)
            \/ i \in Len(pending) + 1 .. Len(pending) + Len(news)
    BY <1>3, <1>4
  <1>7. Memory'
    <2> SUFFICES ASSUME NEW i \in DOMAIN pending', NEW j \in DOMAIN pending', pending'[i] = pending'[j]
                 PROVE  i = j
      BY <1>2 DEF Memory
    <2>1. CASE i \in 1 .. Len(pending) /\ j \in 1 .. Len(pending)
      BY <1>4, <2>1 DEF Notes, Memory
    <2>2. CASE i \in 1 .. Len(pending) /\ j \in Len(pending) + 1 .. Len(pending) + Len(news)
      BY <1>1, <1>4, <1>5, <2>2
    <2>3. CASE j \in 1 .. Len(pending) /\ i \in Len(pending) + 1 .. Len(pending) + Len(news)
      BY <1>1, <1>4, <1>5, <2>3
    <2>4. CASE /\ i \in Len(pending) + 1 .. Len(pending) + Len(news)
               /\ j \in Len(pending) + 1 .. Len(pending) + Len(news)
      <3>0. /\ i - Len(pending) \in 1 .. Len(news) /\ pending'[i] = news[i - Len(pending)]
            /\ j - Len(pending) \in 1 .. Len(news) /\ pending'[j] = news[j - Len(pending)]
        BY <1>4, <2>4
      <3>1. i - Len(pending) = j - Len(pending)
        BY <1>1, <3>0, Zenon
      <3> QED
        BY <1>3, <2>4, <3>1
    <2> QED
      BY <1>6, <2>1, <2>2, <2>3, <2>4
  <1>8. \A e \in delivered : e \notin Held => e \notin Held'
    BY <1>1, <1>4, <1>5, <1>6 DEF Held
  <1>9. Repeats'
    BY <1>2, <1>8 DEF Notes, Repeats
  <1> QED
    BY <1>2, <1>7, <1>9 DEF Notes, DeliveredWasTold

\* Sending tells the head, which was told no more often than something failed.
LEMMA SendNotes == ASSUME TypeOK, Notes, Send \/ SendUnclear PROVE Notes'
  <1> DEFINE h == Head(pending)
  <1>1. turn = "send" /\ h \in Event /\ h \in Held /\ UNCHANGED <<pending, delivered>>
    BY HeadLeaves DEF Notes, Send, SendUnclear
  <1>2. told[h] \in Nat /\ faults \in Nat /\ told \in [Event -> Nat]
    BY <1>1 DEF TypeOK
  <1>3. told[h] =< faults
    BY <1>1 DEF Notes, Repeats
  <1>4. told' = [told EXCEPT ![h] = @ + 1]
    BY DEF Send, SendUnclear, Reaches
  <1>5. told'[h] = told[h] + 1 /\ \A e \in Event : e # h => told'[e] = told[e]
    BY <1>1, <1>2, <1>4
  <1>6. \/ turn' = "ack" /\ faults' = faults
        \/ turn' = "rest" /\ faults' = faults + 1
    BY DEF Send, SendUnclear, Fault
  <1>7. Held' = Held
    BY <1>1 DEF Held
  <1> HIDE DEF h
  <1>8. Memory'
    BY <1>1, <1>2, <1>5 DEF Notes, Memory, h
  <1>9. DeliveredWasTold'
    BY <1>1, <1>2, <1>5 DEF Notes, DeliveredWasTold, TypeOK
  <1>10. Repeats'
    <2> SUFFICES ASSUME NEW e \in Event
                 PROVE  \/ told'[e] =< faults'
                        \/ /\ told'[e] = faults' + 1
                           /\ (e \in delivered' /\ e \notin Held') \/ (turn' = "ack" /\ e = Head(pending)')
      BY DEF Repeats
    <2>1. told[e] \in Nat
      BY <1>2
    <2>2. CASE e = h
      BY <1>1, <1>2, <1>3, <1>5, <1>6, <2>2 DEF h
    <2>3. CASE e # h
      <3>1. told'[e] = told[e]
        BY <1>5, <2>3
      <3>2. told[e] =< faults \/ (told[e] = faults + 1 /\ e \in delivered /\ e \notin Held)
        BY <1>1 DEF Notes, Repeats
      <3> QED
        BY <1>1, <1>2, <1>6, <1>7, <2>1, <3>1, <3>2
    <2> QED
      BY <2>2, <2>3
  <1> QED
    BY <1>8, <1>9, <1>10 DEF Notes

\* What is acknowledged was told, and is held no more.
LEMMA AckNotes == ASSUME TypeOK, Notes, Ack PROVE Notes'
  <1> DEFINE h == Head(pending)
  <1>1. /\ turn = "ack" /\ h \in Event /\ told[h] > 0
        /\ \A i \in DOMAIN Tail(pending) : Tail(pending)[i] # h
        /\ \A i \in DOMAIN Tail(pending) : Tail(pending)[i] \in Held
        /\ \A i, j \in DOMAIN Tail(pending) : Tail(pending)[i] = Tail(pending)[j] => i = j
    BY HeadLeaves DEF Notes, Memory, Ack
  <1>2. /\ delivered' = delivered \cup {h} /\ pending' = Tail(pending) /\ turn' # "ack"
        /\ UNCHANGED <<told, faults>>
    BY DEF Ack
  <1>3. h \notin Held' /\ Held' \subseteq Held
    BY <1>1, <1>2 DEF Held
  <1> HIDE DEF h
  <1>4. Memory'
    BY <1>1, <1>2 DEF Memory
  <1>5. DeliveredWasTold'
    BY <1>1, <1>2 DEF Notes, DeliveredWasTold
  <1>6. Repeats'
    BY <1>1, <1>2, <1>3 DEF Notes, Repeats, h
  <1> QED
    BY <1>4, <1>5, <1>6 DEF Notes

\* A failure may cost one repetition of any message.
LEMMA FaultNotes ==
  ASSUME TypeOK, Notes, CollectFails \/ SendFails \/ AckFails \/ AckUnheard \/ Restart
  PROVE  Notes'
  <1>1. /\ told' = told /\ faults' = faults + 1 /\ turn' # "ack"
        /\ pending' = pending \/ pending' = <<>>
    BY DEF CollectFails, SendFails, AckFails, AckUnheard, Restart, Fault
  <1>2. \/ delivered' = delivered
        \/ delivered' = delivered \cup {Head(pending)} /\ told[Head(pending)] > 0
    BY DEF CollectFails, SendFails, AckFails, AckUnheard, Restart, Notes, Memory
  <1>3. Memory'
    BY <1>1 DEF Notes, Memory
  <1>4. DeliveredWasTold'
    BY <1>1, <1>2 DEF Notes, DeliveredWasTold
  <1>5. \A e \in Event : told[e] \in Nat /\ faults \in Nat
    BY DEF TypeOK
  <1>6. Repeats'
    BY <1>1, <1>5 DEF Notes, Repeats
  <1> QED
    BY <1>3, <1>4, <1>6 DEF Notes

\* Every step of the bot keeps them.
LEMMA BotNotes == ASSUME TypeOK, Notes, BotStep PROVE Notes'
  <1>1. CASE CollectHeld
    BY <1>1 DEF CollectHeld, StartSending, Notes, Memory, DeliveredWasTold, Repeats, Held
  <1> QED
    BY <1>1, CollectNotes, SendNotes, AckNotes, FaultNotes DEF BotStep

---------------------------------------------------------------------------
\* The journal of events.

\* A scan that is not stale has started after everything it may publish over.
LEMMA Fresh ==
  ASSUME TypeOK, scan \in [Scan -> Scans], NEW s \in Scan, scan[s].step = "read", ~Stale(s)
  PROVE  scan[s].start \in Nat /\ watermark < scan[s].start
  <1>1. scan[s].start \in Nat
    BY DEF Scans, Asleep
  <1> QED
    BY <1>1 DEF TypeOK, Unborn, Stale

\* A new event is the newest of the journal.
LEMMA Published ==
  ASSUME TypeOK, Journal, NEW e \in Event, ~Visible(e), NEW t \in Nat, watermark < t, Publish(e, t)
  PROVE  /\ at' \in [Event -> Nat \cup {Unborn}] /\ at'[e] = t
         /\ \A f \in Event : f # e => at'[f] = at[f]
         /\ \A f \in Event : f # e /\ Visible(f) => at[f] < t
  <1>1. at' = [at EXCEPT ![e] = t]
    BY DEF Publish
  <1>2. \A f \in Event : Visible(f) => at[f] \in Nat /\ at[f] =< watermark
    BY DEF Journal, TypeOK, Visible
  <1>3. watermark \in Int
    BY DEF TypeOK, Unborn
  <1>4. \A f \in Event : f # e /\ Visible(f) => at[f] < t
    BY <1>2, <1>3
  <1> QED
    BY <1>1, <1>4 DEF TypeOK

\* The journal follows the issue when it is opened.
LEMMA OpenJournal ==
  ASSUME TypeOK, scan \in [Scan -> Scans], Journal, NEW s \in Scan, Open(s)
  PROVE  Journal'
  <1> DEFINE t == scan[s].start
  <1>0. PICK n : n = issue.episode + 1
    OBVIOUS
  <1> DEFINE e == <<"opened", n>>
  <1>1. t \in Nat /\ watermark < t
    BY Fresh DEF Open
  <1>2. n \in 1 .. MaxEpisode /\ issue.episode \in Nat /\ issue.episode < n
    BY <1>0, ParityAssumption DEF Open, TypeOK
  <1>3. e \in Event /\ <<"resolved", n>> \in Event
    BY <1>2, ParityAssumption
  <1>4. \A f \in Event : Visible(f) => f[2] =< issue.episode /\ f[2] \in Nat
    BY ParityAssumption DEF Journal
  <1>5. ~Visible(e) /\ ~Visible(<<"resolved", n>>)
    BY <1>2, <1>3, <1>4
  <1>6. /\ Publish(e, t) /\ watermark' = t
        /\ issue' = [status |-> "open", episode |-> n]
    BY <1>0 DEF Open
  <1> HIDE DEF t
  <1>7. /\ at'[e] = t /\ \A f \in Event : f # e => at'[f] = at[f]
        /\ \A f \in Event : f # e /\ Visible(f) => at[f] < t
    BY <1>1, <1>3, <1>5, <1>6, Published
  <1>8. issue'.status = "open" /\ issue'.episode = n /\ Current' = e
    BY <1>6 DEF Current
  <1>9. \A f \in Event : f # e => (Visible(f)' <=> Visible(f))
    BY <1>7 DEF Visible
  <1>10. Visible(e)'
    BY <1>1, <1>7 DEF Visible, Unborn
  <1>11. \A f \in Event : Visible(f)' => at'[f] =< watermark' /\ f[2] =< issue'.episode
    <2> SUFFICES ASSUME NEW f \in Event, Visible(f)'
                 PROVE  at'[f] =< t /\ f[2] =< n
      BY <1>6, <1>8
    <2>1. CASE f = e
      BY <1>1, <1>2, <1>7, <2>1
    <2>2. CASE f # e
      <3>1. Visible(f) /\ at'[f] = at[f] /\ at[f] < t /\ f[2] =< issue.episode /\ f[2] \in Nat
        BY <1>4, <1>7, <1>9, <2>2
      <3>2. at[f] \in Int
        BY DEF TypeOK, Unborn
      <3> QED
        BY <1>1, <1>2, <3>1, <3>2
    <2> QED
      BY <2>1, <2>2
  <1>12. \A f \in Event : Visible(f)' /\ f # Current' => at'[f] < at'[Current']
    BY <1>7, <1>8, <1>9
  <1>13. ~Visible(<<"resolved", n>>)'
    BY <1>3, <1>5, <1>9
  <1>14. Visible(Current)' /\ Current' \in Event
    BY <1>3, <1>8, <1>10 DEF Visible
  <1>15. ~Visible(<<"resolved", issue.episode>>)'
    BY <1>8, <1>13 DEF Visible
  <1> QED
    BY <1>8, <1>11, <1>12, <1>14, <1>15 DEF Journal

\* And when it is resolved.
LEMMA ResolveJournal ==
  ASSUME TypeOK, scan \in [Scan -> Scans], Journal, NEW s \in Scan, Resolve(s)
  PROVE  Journal'
  <1> DEFINE t == scan[s].start
             n == issue.episode
             e == <<"resolved", n>>
  <1>1. t \in Nat /\ watermark < t
    BY Fresh DEF Resolve
  <1>2. issue.status = "open" /\ Current = <<"opened", n>> /\ Current \in Event
    BY DEF Resolve, Journal, Current
  <1>3. n \in 1 .. MaxEpisode /\ e \in Event
    BY <1>2, ParityAssumption
  <1>4. ~Visible(e)
    BY <1>2 DEF Journal
  <1>5. /\ Publish(e, t) /\ watermark' = t
        /\ issue' = [issue EXCEPT !.status = "resolved"]
    BY DEF Resolve
  <1>6. issue'.status = "resolved" /\ issue'.episode = n /\ Current' = e
    BY <1>5 DEF Current, TypeOK
  <1> HIDE DEF t, n
  <1>7. /\ at'[e] = t /\ \A f \in Event : f # e => at'[f] = at[f]
        /\ \A f \in Event : f # e /\ Visible(f) => at[f] < t
    BY <1>1, <1>3, <1>4, <1>5, Published
  <1>8. \A f \in Event : f # e => (Visible(f)' <=> Visible(f))
    BY <1>7 DEF Visible
  <1>9. \A f \in Event : Visible(f)' => at'[f] =< watermark' /\ f[2] =< issue'.episode
    <2> SUFFICES ASSUME NEW f \in Event, Visible(f)'
                 PROVE  at'[f] =< t /\ f[2] =< n
      BY <1>5, <1>6
    <2>1. CASE f = e
      BY <1>1, <1>3, <1>7, <2>1
    <2>2. CASE f # e
      <3>1. Visible(f) /\ at'[f] = at[f] /\ at[f] < t /\ f[2] =< n
        BY <1>7, <1>8, <2>2 DEF Journal, n
      <3>2. at[f] \in Int
        BY DEF TypeOK, Unborn
      <3> QED
        BY <1>1, <3>1, <3>2
    <2> QED
      BY <2>1, <2>2
  <1>10. \A f \in Event : Visible(f)' /\ f # Current' => at'[f] < at'[Current']
    BY <1>6, <1>7, <1>8
  <1>11. Visible(Current)' /\ Current' \in Event
    BY <1>1, <1>3, <1>6, <1>7 DEF Visible, Unborn
  <1> QED
    BY <1>6, <1>9, <1>10, <1>11 DEF Journal

\* The other steps leave the journal and the issue as they are.
LEMMA QuietJournal ==
  ASSUME TypeOK, Journal, UNCHANGED <<at, issue>>,
         watermark' \in Int, watermark =< watermark'
  PROVE  Journal'
  <1>1. \A e \in Event : at[e] \in Int
    BY DEF TypeOK, Unborn
  <1>2. watermark \in Int
    BY DEF TypeOK, Unborn
  <1>3. \A e \in Event : Visible(e)' => at'[e] =< watermark' /\ e[2] =< issue'.episode
    BY <1>1, <1>2 DEF Journal, Visible
  <1>4. Current' = Current /\ \A e \in Event : Visible(e)' = Visible(e)
    BY DEF Current, Visible
  <1> QED
    BY <1>3, <1>4 DEF Journal, Visible

\* Every step of the parity check keeps the journal.
LEMMA ParityJournal ==
  ASSUME TypeOK, scan \in [Scan -> Scans], Journal, ParityStep
  PROVE  Journal'
  <1>0. watermark \in Int
    BY DEF TypeOK, Unborn
  <1>1. CASE Tick \/ DataChanges \/ CloseTask
    BY <1>0, <1>1, QuietJournal DEF Tick, DataChanges, CloseTask, feedVars, parityVars
  <1>2. ASSUME NEW s \in Scan, StartScan(s) \/ ReadSides(s) \/ SkipStale(s) \/ ScanFails(s) PROVE Journal'
    BY <1>0, <1>2, QuietJournal DEF StartScan, ReadSides, SkipStale, ScanFails, feedVars
  <1>3. ASSUME NEW s \in Scan, Confirm(s) PROVE Journal'
    <2>1. watermark' \in Int /\ watermark =< watermark' /\ UNCHANGED <<at, issue>>
      BY <1>0, <1>3, Fresh DEF Confirm, feedVars
    <2> QED
      BY <2>1, QuietJournal
  <1> QED
    BY <1>1, <1>2, <1>3, OpenJournal, ResolveJournal DEF ParityStep

---------------------------------------------------------------------------
\* The invariant and what follows from it.

\* It holds at the start.
LEMMA InitInv == Init => Inv
  <1> SUFFICES ASSUME Init PROVE Inv
    OBVIOUS
  <1>1. TypeOK /\ scan \in [Scan -> Scans]
    BY NotificationAssumption, ParityAssumption
       DEF Init, FeedInit, TypeOK, Scans, Unborn, NoScan, NoEvent
  <1>2. Memory /\ DeliveredWasTold /\ Repeats
    BY DEF Init, FeedInit, Memory, DeliveredWasTold, Repeats
  <1>3. Journal
    BY DEF Init, FeedInit, Journal, Visible
  <1> QED
    BY <1>1, <1>2, <1>3 DEF Inv

\* And after every step.
LEMMA Invariance == Inv /\ [Next]_vars => Inv'
  <1> SUFFICES ASSUME Inv, [Next]_vars PROVE Inv'
    OBVIOUS
  <1>0. TypeOK /\ scan \in [Scan -> Scans] /\ Notes /\ Journal
    BY DEF Inv, Notes
  <1>1. CASE ParityStep
    <2>1. UNCHANGED <<delivered, pending, turn, told, faults>>
      BY <1>1 DEF ParityStep, Tick, DataChanges, CloseTask, StartScan, ReadSides, SkipStale, Open,
                  Resolve, Confirm, ScanFails, feedVars, bot
    <2>2. Notes'
      BY <1>0, <2>1 DEF Notes, Memory, DeliveredWasTold, Repeats, Held
    <2> QED
      BY <1>0, <1>1, <2>2, ParityTyped, ParityJournal DEF Inv, Notes
  <1>2. CASE BotStep /\ UNCHANGED parityVars
    <2>1. UNCHANGED <<at, issue, watermark, scan>>
      BY <1>2 DEF BotStep, Collect, CollectHeld, CollectFails, Send, SendFails, SendUnclear, Ack,
                  AckFails, AckUnheard, Restart, parityVars
    <2>2. Journal'
      BY <1>0, <2>1, QuietJournal DEF TypeOK, Unborn
    <2> QED
      BY <1>0, <1>2, <2>1, <2>2, BotTyped, BotNotes DEF Inv, Notes
  <1>3. CASE UNCHANGED vars
    <2>1. UNCHANGED <<at, issue, watermark, scan, delivered, pending, turn, told, faults>>
      BY <1>3 DEF vars, feedVars, bot, parityVars
    <2>2. Journal'
      BY <1>0, <2>1, QuietJournal DEF TypeOK, Unborn
    <2>3. Notes'
      BY <1>0, <2>1 DEF Notes, Memory, DeliveredWasTold, Repeats, Held
    <2>4. TypeOK'
      BY <1>0, <1>3 DEF TypeOK, vars, feedVars, bot, parityVars
    <2> QED
      BY <1>0, <2>1, <2>2, <2>3, <2>4 DEF Inv, Notes
  <1> QED
    BY <1>1, <1>2, <1>3 DEF Next

\* The newest event of the journal is true of the issue.
LEMMA NewestOfInv == Inv => NewestEventIsTrue
  <1> SUFFICES ASSUME Inv, NEW e \in Event, Visible(e), \A f \in Event : at[f] =< at[e]
               PROVE  e = Current
    BY DEF NewestEventIsTrue, Current
  <1>1. \A f \in Event : at[f] \in Int
    BY DEF Inv, TypeOK, Unborn
  <1>2. e[2] \in Nat /\ e[2] > 0 /\ e[2] =< issue.episode
    BY ParityAssumption DEF Inv, Journal
  <1>3. issue.status # "none"
    BY <1>2 DEF Inv, Journal
  <1>4. Current \in Event /\ (e # Current => at[e] < at[Current])
    BY <1>3 DEF Inv, Journal
  <1> QED
    BY <1>1, <1>4

\* A message is told at most once more than something failed.
LEMMA RepeatsOfInv == Inv => RepeatsNeedFaults
  <1> SUFFICES ASSUME Inv, NEW e \in Event PROVE told[e] =< 1 + faults
    BY DEF RepeatsNeedFaults
  <1>1. told[e] \in Nat /\ faults \in Nat
    BY DEF Inv, TypeOK
  <1> QED
    BY <1>1 DEF Inv, Repeats

\* For any number of overlapping scans, the newest event in the journal says
\* what the issue is (the lock and the watermark of reconcile).
THEOREM JournalFollowsIssue == Spec => []NewestEventIsTrue
  BY InitInv, Invariance, NewestOfInv, PTL DEF Spec

\* Journal, bot and projection keep to their ranges: in particular a round
\* never has more messages left than the bot holds (notifier.ts collect).
THEOREM FeedTyped == Spec => []TypeOK
  <1>1. Inv => TypeOK
    BY DEF Inv
  <1> QED
    BY <1>1, InitInv, Invariance, PTL DEF Spec

\* For any losses and restarts, what Core counts as delivered was told, and
\* nothing is told more often than something failed, plus once.
THEOREM NotesBounded == Spec => []DeliveredAsTold
  <1>1. Inv => DeliveredAsTold
    BY RepeatsOfInv DEF Inv, DeliveredAsTold
  <1> QED
    BY <1>1, InitInv, Invariance, PTL DEF Spec

---------------------------------------------------------------------------
\* Order.

\* An event that every later scan will pass over, and one that the present scan
\* or a later one has still before it.
Lost(f) == at[f] < since /\ at[f] < now - Lookback
Ahead(f) == since =< at[f] /\ (after # NoEvent => at[after] < at[f])

\* What is held is in the order of the journal and not older than what was told.
Line ==
    /\ acked \subseteq delivered
    /\ \A i \in DOMAIN pending : Visible(pending[i])
    /\ \A i, j \in DOMAIN pending : i < j => at[pending[i]] < at[pending[j]]
    /\ lastTold # NoEvent =>
          Visible(lastTold) /\ \A i \in DOMAIN pending : at[lastTold] =< at[pending[i]]

\* Nothing that is still to be told is older than what is held or was told.
Behind(f) == /\ \A i \in DOMAIN pending : at[pending[i]] < at[f]
             /\ lastTold # NoEvent => at[lastTold] =< at[f]

Waiting ==
    \A f \in Event :
        Visible(f) /\ f \notin delivered /\ f \notin Held => Lost(f) \/ (Ahead(f) /\ Behind(f))

\* The bounds of a scan of the bot stay an overlap behind the clock, the scans
\* of the parity check within their time.
Clock ==
    /\ since + Overlap =< now
    /\ until # NoScan => since + Overlap =< until /\ until =< now
    /\ after # NoEvent => Visible(after)
    /\ \A s \in Scan : scan[s] # Asleep => scan[s].start =< now /\ now =< scan[s].start + MaxScan

\* A late event is still within the overlap, and so is everything within the
\* look-back of a restart.
InTimeForScans == MaxScan =< Overlap /\ Overlap =< Lookback

OrderInv == Inv /\ Line /\ Waiting /\ Clock

LEMMA Numbers ==
  ASSUME TypeOK
  PROVE  /\ \A e \in Event : at[e] \in Int
         /\ now \in Nat /\ since \in Int /\ until \in Int
         /\ Overlap \in Nat /\ Lookback \in Nat /\ MaxScan \in Nat
         /\ pending \in Seq(Event) /\ DOMAIN pending = 1 .. Len(pending) /\ Len(pending) \in Nat
         /\ \A i \in DOMAIN pending : pending[i] \in Event /\ at[pending[i]] \in Int
         /\ lastTold # NoEvent => lastTold \in Event /\ at[lastTold] \in Int
         /\ after # NoEvent => after \in Event /\ at[after] \in Int
  <1>1. \A e \in Event : at[e] \in Int
    BY DEF TypeOK, Unborn
  <1>2. now \in Nat /\ since \in Int /\ until \in Int
    BY DEF TypeOK, NoScan
  <1>3. pending \in Seq(Event) /\ DOMAIN pending = 1 .. Len(pending) /\ Len(pending) \in Nat
    BY DEF TypeOK
  <1>4. \A i \in DOMAIN pending : pending[i] \in Event
    BY <1>3
  <1> QED
    BY <1>1, <1>2, <1>3, <1>4, NotificationAssumption, ParityAssumption DEF TypeOK

\* Steps that change neither the journal nor the bot.
LEMMA QuietOrder ==
  ASSUME TypeOK, Line, Waiting,
         UNCHANGED <<at, delivered, since, after, pending, acked, lastTold>>, now' \in Nat, now =< now'
  PROVE  Line' /\ Waiting'
  <1>1. Line'
    BY DEF Line, Visible
  <1>2. \A f \in Event : (Lost(f) => Lost(f)') /\ (Ahead(f) => Ahead(f)') /\ (Behind(f) => Behind(f)')
    BY Numbers DEF Lost, Ahead, Behind
  <1>3. Held' = Held /\ \A f \in Event : Visible(f)' => Visible(f)
    BY DEF Held, Visible
  <1> QED
    BY <1>1, <1>2, <1>3 DEF Waiting

\* A new event is newer than all others and not too late for the next scan.
LEMMA PublishOrder ==
  ASSUME TypeOK, Journal, Line, Waiting, Clock, InTimeForScans,
         NEW e \in Event, ~Visible(e), NEW t \in Nat, watermark < t, now =< t + MaxScan, Publish(e, t),
         UNCHANGED <<now, delivered, bot, lastTold>>
  PROVE  /\ Line' /\ Waiting'
         /\ \A f \in Event : Visible(f) => Visible(f)' /\ at'[f] = at[f]
  <1>n. TypeOK
    OBVIOUS
  <1>1. /\ at'[e] = t
        /\ \A f \in Event : f # e => at'[f] = at[f]
        /\ \A f \in Event : f # e /\ Visible(f) => at[f] < t
    BY Published
  <1>2. \A f \in Event : Visible(f) => f # e /\ Visible(f)' /\ at'[f] = at[f]
    BY <1>1 DEF Visible
  <1>3. UNCHANGED <<now, delivered, since, until, after, pending, acked, lastTold>>
    BY DEF bot
  <1>4. \A i \in DOMAIN pending : at'[pending[i]] = at[pending[i]] /\ at[pending[i]] < t
    BY <1>1, <1>2, Numbers DEF Line
  <1>5. lastTold # NoEvent => at'[lastTold] = at[lastTold] /\ at[lastTold] < t
    BY <1>1, <1>2, Numbers DEF Line
  <1>6. after # NoEvent => at'[after] = at[after] /\ at[after] < t
    BY <1>1, <1>2, Numbers DEF Clock
  <1>7. Line'
    <2>1. acked' \subseteq delivered' /\ \A i \in DOMAIN pending : at'[pending[i]] # Unborn
      BY <1>2, <1>3, Numbers DEF Line, Visible
    <2> QED
      BY <1>2, <1>3, <1>4, <1>5, <2>1, Numbers DEF Line, Visible
  <1>8. Waiting'
    <2>1. SUFFICES ASSUME NEW f \in Event, Visible(f)', f \notin delivered, f \notin Held
                   PROVE  Lost(f)' \/ (Ahead(f)' /\ Behind(f)')
      BY <1>3 DEF Waiting, Held
    <2>2. CASE f = e
      <3>1. since =< t
        BY Numbers DEF Clock, InTimeForScans
      <3>2. Ahead(f)'
        BY <1>1, <1>3, <1>6, <2>2, <3>1 DEF Ahead
      <3>3. \A i \in DOMAIN pending : at'[pending[i]] < at'[f]
        BY <1>1, <1>4, <2>2
      <3>4. lastTold # NoEvent => at'[lastTold] =< at'[f]
        BY <1>1, <1>5, <2>2, Numbers
      <3>5. Behind(f)'
        BY <1>3, <3>3, <3>4 DEF Behind
      <3> QED
        BY <3>2, <3>5
    <2>3. CASE f # e
      <3>1. Visible(f) /\ at'[f] = at[f]
        BY <1>1, <2>1, <2>3 DEF Visible
      <3>2. Lost(f) \/ (Ahead(f) /\ Behind(f))
        BY <2>1, <3>1 DEF Waiting
      <3> QED
        BY <1>3, <1>4, <1>5, <1>6, <3>1, <3>2 DEF Lost, Ahead, Behind
    <2> QED
      BY <2>2, <2>3
  <1> QED
    BY <1>2, <1>7, <1>8

\* The parity check keeps the order.
LEMMA ParityOrder ==
  ASSUME OrderInv, InTimeForScans, ParityStep
  PROVE  Line' /\ Waiting' /\ Clock'
  <1>0. TypeOK /\ scan \in [Scan -> Scans] /\ Journal /\ Line /\ Waiting /\ Clock
    BY DEF OrderInv, Inv
  <1>s. \A s \in Scan : scan[s] # Asleep => scan[s].start \in Nat
    BY <1>0 DEF Scans
  <1>q. ASSUME UNCHANGED feedVars PROVE Line' /\ Waiting'
    BY <1>q, <1>0, QuietOrder, Numbers DEF feedVars, bot
  <1>c. ASSUME UNCHANGED <<now, since, until, after>>, \A f \in Event : Visible(f) => Visible(f)',
               \A s \in Scan : scan'[s] # Asleep =>
                  /\ scan'[s].start \in Nat
                  /\ \/ scan[s] # Asleep /\ scan'[s].start = scan[s].start
                     \/ scan'[s].start = now
        PROVE  Clock'
    BY <1>c, <1>0, Numbers DEF Clock
  <1>1. CASE Tick
    <2>1. /\ now' = now + 1 /\ scan' = scan
          /\ UNCHANGED <<at, delivered, since, until, after, pending, acked, lastTold>>
          /\ \A s \in Scan : scan[s] # Asleep => now < scan[s].start + MaxScan
      BY <1>1 DEF Tick, bot, parityVars
    <2>2. Line' /\ Waiting'
      BY <1>0, <2>1, QuietOrder, Numbers
    <2>3. Clock'
      BY <1>0, <1>s, <2>1, Numbers DEF Clock, Visible
    <2> QED
      BY <2>2, <2>3
  <1>2. CASE DataChanges \/ CloseTask
    <2>1. UNCHANGED feedVars /\ scan' = scan
      BY <1>2 DEF DataChanges, CloseTask
    <2>2. Clock'
      BY <2>1, <1>c, <1>s DEF feedVars, bot, Visible
    <2> QED
      BY <1>q, <2>1, <2>2
  <1>3. ASSUME NEW s \in Scan, StartScan(s) \/ ReadSides(s) \/ SkipStale(s) \/ Confirm(s) \/ ScanFails(s)
        PROVE  Line' /\ Waiting' /\ Clock'
    <2>1. UNCHANGED feedVars
      BY <1>3 DEF StartScan, ReadSides, SkipStale, Confirm, ScanFails
    <2>2. \A r \in Scan : r # s => scan'[r] = scan[r]
      BY <1>0, <1>3 DEF StartScan, ReadSides, SkipStale, Confirm, ScanFails, Done
    <2>3. scan'[s] # Asleep => /\ scan'[s].start \in Nat
                               /\ \/ scan[s] # Asleep /\ scan'[s].start = scan[s].start
                                  \/ scan'[s].start = now
      <3>1. CASE StartScan(s)
        BY <1>0, <3>1, Numbers DEF StartScan
      <3>2. CASE ReadSides(s)
        <4>1. scan[s] # Asleep
          BY <3>2 DEF ReadSides, Asleep
        <4> QED
          BY <1>0, <1>s, <3>2, <4>1 DEF ReadSides
      <3>3. CASE SkipStale(s) \/ Confirm(s) \/ ScanFails(s)
        BY <1>0, <3>3 DEF SkipStale, Confirm, ScanFails, Done
      <3> QED
        BY <1>3, <3>1, <3>2, <3>3
    <2>4. Clock'
      BY <1>c, <1>s, <2>1, <2>2, <2>3 DEF feedVars, bot, Visible
    <2> QED
      BY <1>q, <2>1, <2>4
  <1>4. ASSUME NEW s \in Scan, Open(s) \/ Resolve(s) PROVE Line' /\ Waiting' /\ Clock'
    <2>1. scan[s].start \in Nat /\ watermark < scan[s].start
      BY <1>0, <1>4, Fresh DEF Open, Resolve
    <2>2. scan[s] # Asleep
      BY <1>4 DEF Open, Resolve, Asleep
    <2>3. now =< scan[s].start + MaxScan
      BY <1>0, <2>2 DEF Clock
    <2>4. PICK e \in Event : ~Visible(e) /\ Publish(e, scan[s].start)
      <3>1. CASE Open(s)
        <4>1. issue.episode \in 0 .. MaxEpisode /\ issue.episode < MaxEpisode
          BY <1>0, <3>1 DEF Open, TypeOK
        <4> DEFINE e == <<"opened", issue.episode + 1>>
        <4>2. e \in Event /\ e[2] = issue.episode + 1
          BY <4>1, ParityAssumption
        <4>3. ~Visible(e)
          <5> HIDE DEF e
          <5> QED
            BY <1>0, <4>1, <4>2, ParityAssumption DEF Journal
        <4> QED
          BY <3>1, <4>2, <4>3 DEF Open
      <3>2. CASE Resolve(s)
        <4>1. issue.status = "open"
          BY <3>2 DEF Resolve
        <4>2. Current \in Event /\ Current = <<"opened", issue.episode>>
          BY <1>0, <4>1 DEF Journal, Current
        <4>3. <<"resolved", issue.episode>> \in Event
          BY <4>2, ParityAssumption
        <4>4. ~Visible(<<"resolved", issue.episode>>)
          BY <1>0, <4>1 DEF Journal
        <4> QED
          BY <3>2, <4>3, <4>4 DEF Resolve
      <3> QED
        BY <1>4, <3>1, <3>2
    <2>5. UNCHANGED <<now, delivered, bot, lastTold>> /\ Done(s)
      BY <1>4 DEF Open, Resolve
    <2>6. Line' /\ Waiting' /\ \A f \in Event : Visible(f) => Visible(f)'
      BY <1>0, <2>1, <2>3, <2>4, <2>5, PublishOrder
    <2>7. Clock'
      <3>1. \A r \in Scan : scan'[r] = IF r = s THEN Asleep ELSE scan[r]
        BY <1>0, <2>5 DEF Done
      <3> QED
        BY <1>c, <1>s, <2>5, <2>6, <3>1 DEF bot
    <2> QED
      BY <2>6, <2>7
  <1> QED
    BY <1>1, <1>2, <1>3, <1>4 DEF ParityStep

\* The page is what comes first among the matching events.
LEMMA PageFirst ==
  ASSUME TypeOK, NEW e \in FirstOf(Matching), NEW f \in Matching, f \notin FirstOf(Matching)
  PROVE  at[e] < at[f]
  <1> DEFINE Before(g) == {h \in Matching : at[h] < at[g]}
  <1>1. e \in Matching /\ Matching \in SUBSET Event /\ Cardinality(Before(e)) < Page
    BY DEF FirstOf, Matching
  <1>2. at[e] \in Int /\ at[f] \in Int /\ \A h \in Matching : at[h] \in Int
    BY <1>1, Numbers
  <1>3. SUFFICES ASSUME at[f] =< at[e] PROVE FALSE
    BY <1>2
  <1>4. Before(f) \in SUBSET Before(e)
    BY <1>2, <1>3
  <1>5. IsFiniteSet(Before(e))
    BY <1>1, EventsFinite
  <1>6. /\ Cardinality(Before(f)) =< Cardinality(Before(e))
        /\ Cardinality(Before(f)) \in Nat /\ Cardinality(Before(e)) \in Nat
    <2> HIDE DEF Before
    <2> QED
      BY <1>4, <1>5, FS_Subset, FS_CardinalityType
  <1>7. Cardinality(Before(f)) < Page
    BY <1>1, <1>6, NotificationAssumption
  <1> QED
    BY <1>7 DEF FirstOf

\* A set in the order of its times is all there.
LEMMA InTimeAll ==
  ASSUME TypeOK, NEW S \in SUBSET Event, NEW q \in InTime(S)
  PROVE  /\ q \in Seq(Event) /\ Len(q) \in Nat /\ DOMAIN q = 1 .. Len(q)
         /\ \A i \in DOMAIN q : q[i] \in S /\ at[q[i]] \in Int
         /\ \A i, j \in DOMAIN q : i < j => at[q[i]] < at[q[j]]
         /\ \A e \in S : \E i \in DOMAIN q : q[i] = e
  <1>1. IsFiniteSet(S) /\ Cardinality(S) \in Nat
    BY EventsFinite, FS_CardinalityType
  <1>2. /\ q \in Seq(Event) /\ DOMAIN q = 1 .. Len(q) /\ \A i \in DOMAIN q : q[i] \in S
    BY <1>1, InTimeSeq
  <1>3. /\ q \in [1 .. Cardinality(S) -> S] /\ DOMAIN q = 1 .. Cardinality(S)
        /\ \A i, j \in DOMAIN q : i < j => at[q[i]] < at[q[j]]
    BY DEF InTime
  <1>4. \A i \in DOMAIN q : at[q[i]] \in Int
    BY <1>2, Numbers
  <1>5. q \in Injection(1 .. Cardinality(S), S)
    <2>1. ASSUME NEW i \in 1 .. Cardinality(S), NEW j \in 1 .. Cardinality(S), q[i] = q[j], i # j
          PROVE  FALSE
      <3>1. i < j \/ j < i
        BY <1>1, <2>1
      <3> QED
        BY <1>3, <1>4, <2>1, <3>1
    <2> QED
      BY <1>3, <2>1 DEF Injection, IsInjective
  <1>6. Cardinality(1 .. Cardinality(S)) = Cardinality(S)
    BY <1>1, FS_Interval
  <1>7. q \in Surjection(1 .. Cardinality(S), S)
    BY <1>1, <1>5, <1>6, FS_Injection
  <1>8. \A e \in S : \E i \in DOMAIN q : q[i] = e
    BY <1>3, <1>7 DEF Surjection
  <1> QED
    BY <1>2, <1>3, <1>4, <1>8

\* A page is appended in order, and what it leaves is newer.
LEMMA CollectOrder ==
  ASSUME OrderInv, InTimeForScans, Collect, UNCHANGED parityVars
  PROVE  Line' /\ Waiting' /\ Clock'
  <1>0. TypeOK /\ Line /\ Waiting /\ Clock
    BY DEF OrderInv, Inv
  <1>u. UNCHANGED <<now, at, delivered, acked, lastTold, scan>>
    BY DEF Collect, parityVars
  <1> DEFINE F == FirstOf(Matching)
             S == F \ (delivered \cup acked \cup Held)
  <1>1. Upper \in Int /\ Upper =< now /\ since + Overlap =< Upper
    BY <1>0, Numbers DEF Clock, Upper
  <1>2. /\ F \subseteq Matching /\ Matching \in SUBSET Event
        /\ \A e \in Matching : /\ Visible(e) /\ at[e] \in Int /\ since =< at[e] /\ at[e] =< Upper
    BY <1>0, Numbers DEF FirstOf, Matching, Matches
  <1>3. \A e \in S : e \in F /\ e \in Event /\ e \notin delivered /\ e \notin Held
    BY <1>2
  <1>4. PICK news \in InTime(S) : pending' = pending \o news
    BY DEF Collect
  <1>5. \A e \in F, f \in Matching : f \notin F => at[e] < at[f]
    BY <1>0, PageFirst
  <1>6. /\ since' \in Int /\ since =< since' /\ since' + Overlap =< Upper
        /\ since' = since \/ (F = Matching /\ after' = NoEvent)
        /\ until' = NoScan \/ until' = Upper
        /\ after' # NoEvent => after' \in F
    <2>1. CASE F = Matching
      BY <1>0, <1>1, <2>1, Numbers DEF Collect, ScanEnds
    <2>2. CASE F # Matching
      BY <1>0, <1>1, <2>2, Numbers DEF Collect
    <2> QED
      BY <2>1, <2>2
  <1>x. F = Matching => after' = NoEvent
    BY DEF Collect, ScanEnds
  <1> HIDE DEF F
  <1>7. S \in SUBSET Event
    BY <1>3
  <1>s. \A e \in F : e \in S \/ e \in delivered \/ e \in Held
    BY <1>0 DEF Line
  <1> HIDE DEF S
  <1>8. /\ news \in Seq(Event) /\ Len(news) \in Nat /\ DOMAIN news = 1 .. Len(news)
        /\ \A i \in DOMAIN news : news[i] \in S /\ at[news[i]] \in Int
        /\ \A i, j \in DOMAIN news : i < j => at[news[i]] < at[news[j]]
        /\ \A e \in S : \E i \in DOMAIN news : news[i] = e
    BY <1>0, <1>4, <1>7, InTimeAll
  <1>9. /\ pending \in Seq(Event) /\ Len(pending) \in Nat /\ DOMAIN pending = 1 .. Len(pending)
        /\ \A i \in DOMAIN pending : at[pending[i]] \in Int
    BY <1>0, Numbers
  <1>10. /\ DOMAIN pending' = 1 .. Len(pending) + Len(news)
         /\ \A i \in 1 .. Len(pending) : i \in DOMAIN pending' /\ pending'[i] = pending[i]
         /\ \A i \in Len(pending) + 1 .. Len(pending) + Len(news) :
               i - Len(pending) \in DOMAIN news /\ pending'[i] = news[i - Len(pending)]
         /\ \A i \in 1 .. Len(news) :
               Len(pending) + i \in DOMAIN pending' /\ pending'[Len(pending) + i] = news[i]
    BY <1>4, <1>8, <1>9
  <1>11. \A i \in DOMAIN pending' :
             \/ i \in 1 .. Len(pending)
             \/ i \in Len(pending) + 1 .. Len(pending) + Len(news)
    BY <1>8, <1>9, <1>10
  <1>12. \A e \in S : Visible(e) /\ at[e] \in Int /\ Behind(e)
    <2> SUFFICES ASSUME NEW e \in S PROVE Visible(e) /\ at[e] \in Int /\ Behind(e)
      OBVIOUS
    <2>1. e \in Event /\ e \in Matching /\ e \notin delivered /\ e \notin Held
      BY <1>2, <1>3
    <2>2. ~Lost(e)
      BY <1>0, <1>2, <2>1, Numbers DEF Lost
    <2> QED
      BY <1>0, <1>2, <2>1, <2>2 DEF Waiting
  <1>13. Held' = Held \cup S
    <2>1. \A i \in DOMAIN pending' : pending'[i] \in Held \cup S
      BY <1>8, <1>9, <1>10, <1>11 DEF Held
    <2>2. \A e \in Held : e \in Held'
      BY <1>9, <1>10 DEF Held
    <2>3. \A e \in S : e \in Held'
      BY <1>8, <1>10 DEF Held
    <2> QED
      BY <2>1, <2>2, <2>3 DEF Held
  <1>14. Line'
    <2>1. acked' \subseteq delivered'
      BY <1>0, <1>u DEF Line
    <2>2. \A i \in DOMAIN pending' : at[pending'[i]] # Unborn
      BY <1>0, <1>8, <1>9, <1>10, <1>11, <1>12 DEF Line, Visible
    <2>3. ASSUME NEW i \in DOMAIN pending', NEW j \in DOMAIN pending', i < j
          PROVE  at[pending'[i]] < at[pending'[j]]
      <3>1. CASE j \in 1 .. Len(pending)
        <4>1. i \in 1 .. Len(pending)
          BY <1>8, <1>9, <1>10, <2>3, <3>1
        <4> QED
          BY <1>0, <1>9, <1>10, <2>3, <3>1, <4>1 DEF Line
      <3>2. CASE i \in 1 .. Len(pending) /\ j \in Len(pending) + 1 .. Len(pending) + Len(news)
        BY <1>8, <1>9, <1>10, <1>12, <3>2 DEF Behind
      <3>3. CASE /\ i \in Len(pending) + 1 .. Len(pending) + Len(news)
                 /\ j \in Len(pending) + 1 .. Len(pending) + Len(news)
        <4>1. i - Len(pending) < j - Len(pending)
          BY <1>8, <1>9, <2>3, <3>3
        <4>2. i - Len(pending) \in DOMAIN news /\ j - Len(pending) \in DOMAIN news
          BY <1>10, <3>3
        <4> QED
          BY <1>8, <1>10, <3>3, <4>1, <4>2
      <3> QED
        BY <1>11, <3>1, <3>2, <3>3
    <2>4. lastTold # NoEvent =>
             at[lastTold] # Unborn /\ \A i \in DOMAIN pending' : at[lastTold] =< at[pending'[i]]
      <3> SUFFICES ASSUME lastTold # NoEvent, NEW i \in DOMAIN pending'
                   PROVE  at[lastTold] =< at[pending'[i]]
        BY <1>0 DEF Line, Visible
      <3>1. CASE i \in 1 .. Len(pending)
        BY <1>0, <1>9, <1>10, <3>1 DEF Line
      <3>2. CASE i \in Len(pending) + 1 .. Len(pending) + Len(news)
        BY <1>8, <1>10, <1>12, <3>2 DEF Behind
      <3> QED
        BY <1>11, <3>1, <3>2
    <2> QED
      BY <1>u, <2>1, <2>2, <2>3, <2>4 DEF Line, Visible
  <1>15. Waiting'
    <2>1. SUFFICES ASSUME NEW f \in Event, Visible(f), f \notin delivered, f \notin Held, f \notin S
                   PROVE  Lost(f)' \/ (Ahead(f)' /\ Behind(f)')
      BY <1>u, <1>13 DEF Waiting, Visible
    <2>2. at[f] \in Int /\ f \notin F
      BY <1>0, <1>s, <2>1, Numbers
    <2>3. CASE Lost(f)
      BY <1>0, <1>6, <1>u, <2>2, <2>3, Numbers DEF Lost
    <2>4. CASE Ahead(f) /\ Behind(f)
      <3>1. f \in Matching \/ Upper < at[f]
        BY <1>1, <2>1, <2>2, <2>4 DEF Matching, Matches, Ahead
      <3>2. \A e \in F : at[e] < at[f]
        BY <1>1, <1>2, <1>5, <2>2, <3>1
      <3>3. Ahead(f)'
        <4>1. since' =< at[f]
          <5>1. CASE since' = since
            BY <2>4, <5>1 DEF Ahead
          <5>2. CASE F = Matching
            BY <1>0, <1>1, <1>6, <2>2, <3>1, <5>2, Numbers
          <5> QED
            BY <1>6, <5>1, <5>2
        <4> QED
          BY <1>6, <1>u, <3>2, <4>1 DEF Ahead
      <3>4. Behind(f)'
        <4>1. ASSUME NEW i \in DOMAIN pending' PROVE at[pending'[i]] < at[f]
          <5>1. CASE i \in 1 .. Len(pending)
            BY <1>9, <1>10, <2>4, <5>1 DEF Behind
          <5>2. CASE i \in Len(pending) + 1 .. Len(pending) + Len(news)
            BY <1>3, <1>8, <1>10, <3>2, <5>2
          <5> QED
            BY <1>11, <5>1, <5>2
        <4> QED
          BY <1>u, <2>4, <4>1 DEF Behind
      <3> QED
        BY <3>3, <3>4
    <2> QED
      BY <1>0, <2>1, <2>3, <2>4 DEF Waiting
  <1>16. Clock'
    <2>1. since' + Overlap =< now'
      BY <1>0, <1>1, <1>6, <1>u, Numbers
    <2>2. until' # NoScan => since' + Overlap =< until' /\ until' =< now'
      BY <1>1, <1>6, <1>u
    <2>3. after' # NoEvent => at'[after'] # Unborn
      BY <1>2, <1>6, <1>u DEF Visible
    <2> QED
      BY <1>0, <1>u, <2>1, <2>2, <2>3 DEF Clock, Visible
  <1> QED
    BY <1>14, <1>15, <1>16

\* There is a note at the head of a round.
LEMMA HasHead ==
  ASSUME TypeOK, turn # "rest"
  PROVE  Len(pending) > 0 /\ 1 \in DOMAIN pending /\ Head(pending) = pending[1]
  <1>1. pending \in Seq(Event) /\ Len(pending) \in Nat /\ Len(pending) > 0
    BY DEF TypeOK
  <1> QED
    BY <1>1

\* What is told is the first of the line.
LEMMA SendOrder ==
  ASSUME TypeOK, Memory, Line, Waiting, Send \/ SendUnclear
  PROVE  Line' /\ Waiting'
  <1>1. /\ UNCHANGED <<now, at, delivered, since, after, pending, acked>>
        /\ lastTold' = Head(pending) /\ turn # "rest"
    BY DEF Send, SendUnclear, Reaches
  <1>2. 1 \in DOMAIN pending /\ lastTold' = pending[1] /\ Len(pending) \in Nat
        /\ DOMAIN pending = 1 .. Len(pending) /\ \A i \in DOMAIN pending : at[pending[i]] \in Int
    BY <1>1, HasHead, Numbers
  <1>3. \A i \in DOMAIN pending : at[pending[1]] =< at[pending[i]]
    BY <1>2 DEF Line
  <1>4. Line'
    BY <1>1, <1>2, <1>3 DEF Line, Visible
  <1>5. \A f \in Event : Behind(f) => Behind(f)'
    BY <1>1, <1>2, Numbers DEF Behind
  <1>6. \A f \in Event : (Lost(f) => Lost(f)') /\ (Ahead(f) => Ahead(f)')
    BY <1>1 DEF Lost, Ahead
  <1>7. Held' = Held /\ \A f \in Event : Visible(f)' => Visible(f)
    BY <1>1 DEF Held, Visible
  <1> QED
    BY <1>1, <1>4, <1>5, <1>6, <1>7 DEF Waiting

\* The first of the line leaves it when it is delivered, or stays in it.
LEMMA AckOrder ==
  ASSUME TypeOK, Memory, Line, Waiting, Ack \/ AckUnheard
  PROVE  Line' /\ Waiting'
  <1>1. /\ UNCHANGED <<now, at, since, after, lastTold>> /\ turn # "rest"
        /\ delivered' = delivered \cup {Head(pending)}
        /\ acked' \subseteq acked \cup {Head(pending)}
        /\ pending' = Tail(pending) \/ pending' = pending
    BY DEF Ack, AckUnheard, Remember
  <1>2. /\ pending \in Seq(Event) /\ Len(pending) \in Nat /\ Len(pending) > 0
        /\ DOMAIN pending = 1 .. Len(pending) /\ Head(pending) = pending[1]
    BY <1>1, HasHead, Numbers
  <1>3. PICK k \in {0, 1} :
           /\ DOMAIN pending' = 1 .. Len(pending) - k
           /\ \A i \in DOMAIN pending' : i + k \in DOMAIN pending /\ pending'[i] = pending[i + k]
           /\ k = 0 => pending' = pending
    <2>1. CASE pending' = pending
      <3>1. DOMAIN pending' = 1 .. Len(pending) - 0
        BY <1>2, <2>1
      <3>2. \A i \in DOMAIN pending' : i + 0 \in DOMAIN pending /\ pending'[i] = pending[i + 0]
        BY <1>2, <2>1
      <3>3. 0 \in {0, 1}
        OBVIOUS
      <3> QED
        BY <2>1, <3>1, <3>2, <3>3, Zenon
    <2>2. CASE pending' = Tail(pending)
      <3>1. /\ DOMAIN Tail(pending) = 1 .. Len(pending) - 1
            /\ \A i \in DOMAIN Tail(pending) :
                  i + 1 \in DOMAIN pending /\ Tail(pending)[i] = pending[i + 1]
        BY <1>2
      <3> QED
        BY <2>2, <3>1
    <2> QED
      BY <1>1, <2>1, <2>2
  <1>4. \A f \in Held : f = Head(pending) \/ f \in Held'
    <2> SUFFICES ASSUME NEW i \in DOMAIN pending, pending[i] # pending[1] PROVE pending[i] \in Held'
      BY <1>2 DEF Held
    <2>1. i \in Nat /\ i > 1
      BY <1>2
    <2>2. i - k \in DOMAIN pending' /\ (i - k) + k = i
      BY <1>2, <1>3, <2>1
    <2>3. pending'[i - k] = pending[i]
      BY <1>3, <2>2
    <2> QED
      BY <2>2, <2>3 DEF Held
  <1>5. Line'
    <2>1. acked' \subseteq delivered'
      BY <1>1 DEF Line
    <2>2. /\ \A i \in DOMAIN pending' : at[pending'[i]] # Unborn
          /\ lastTold # NoEvent =>
                at[lastTold] # Unborn /\ \A i \in DOMAIN pending' : at[lastTold] =< at[pending'[i]]
      BY <1>3 DEF Line, Visible
    <2>3. \A i, j \in DOMAIN pending' : i < j => at[pending'[i]] < at[pending'[j]]
      <3> SUFFICES ASSUME NEW i \in DOMAIN pending', NEW j \in DOMAIN pending', i < j
                   PROVE  at[pending'[i]] < at[pending'[j]]
        OBVIOUS
      <3>1. i + k < j + k /\ i + k \in DOMAIN pending /\ j + k \in DOMAIN pending
        BY <1>2, <1>3
      <3> QED
        BY <1>3, <3>1 DEF Line
    <2> QED
      BY <1>1, <2>1, <2>2, <2>3 DEF Line, Visible
  <1>6. \A f \in Event : /\ Lost(f) => Lost(f)'
                         /\ Ahead(f) => Ahead(f)'
                         /\ Behind(f) => Behind(f)'
                         /\ Visible(f)' => Visible(f)
    BY <1>1, <1>3 DEF Lost, Ahead, Behind, Visible
  <1> QED
    BY <1>1, <1>4, <1>5, <1>6 DEF Waiting

\* A restart looks back over everything that is not lost.
LEMMA RestartOrder ==
  ASSUME TypeOK, Line, Waiting, Restart
  PROVE  Line' /\ Waiting'
  <1>1. /\ UNCHANGED <<now, at, delivered, lastTold>> /\ since' = now - Lookback
        /\ after' = NoEvent /\ pending' = <<>> /\ acked' = {} /\ DOMAIN pending' = {}
    BY DEF Restart
  <1>2. Line'
    BY <1>1 DEF Line, Visible
  <1>3. Waiting'
    <2> SUFFICES ASSUME NEW f \in Event, Visible(f), f \notin delivered
                 PROVE  Lost(f)' \/ (Ahead(f)' /\ Behind(f)')
      BY <1>1 DEF Waiting, Visible
    <2>0. at[f] \in Int /\ now \in Nat /\ Lookback \in Nat
      BY Numbers
    <2>1. CASE at[f] < now - Lookback
      BY <1>1, <2>1 DEF Lost
    <2>2. CASE ~(at[f] < now - Lookback)
      <3>1. Ahead(f)'
        BY <1>1, <2>0, <2>2 DEF Ahead
      <3>2. lastTold # NoEvent => at[lastTold] =< at[f]
        <4>1. CASE f \in Held
          BY <4>1 DEF Line, Held
        <4>2. CASE f \notin Held
          BY <2>2, <4>2 DEF Waiting, Lost, Behind
        <4> QED
          BY <4>1, <4>2
      <3> QED
        BY <1>1, <3>1, <3>2 DEF Behind
    <2> QED
      BY <2>1, <2>2
  <1> QED
    BY <1>2, <1>3

\* The bot keeps the order.
LEMMA BotOrder ==
  ASSUME OrderInv, InTimeForScans, BotStep, UNCHANGED parityVars
  PROVE  Line' /\ Waiting' /\ Clock'
  <1>0. TypeOK /\ Memory /\ Line /\ Waiting /\ Clock
    BY DEF OrderInv, Inv
  <1>s. scan' = scan
    BY DEF parityVars
  <1>1. CASE Collect
    BY <1>1, CollectOrder
  <1>2. CASE CollectHeld \/ SendFails \/ AckFails \/ CollectFails
    <2>1. /\ UNCHANGED <<now, at, delivered, since, after, pending, acked, lastTold>>
          /\ until' = until \/ until' = Upper
      BY <1>2 DEF CollectHeld, SendFails, AckFails, CollectFails
    <2>2. Line' /\ Waiting'
      BY <1>0, <2>1, QuietOrder, Numbers
    <2>3. Clock'
      BY <1>0, <1>s, <2>1, Numbers DEF Clock, Upper, Visible
    <2> QED
      BY <2>2, <2>3
  <1>3. CASE Send \/ SendUnclear \/ Ack \/ AckUnheard
    <2>1. UNCHANGED <<now, at, since, until, after>>
      BY <1>3 DEF Send, SendUnclear, Ack, AckUnheard
    <2>2. Clock'
      BY <1>0, <1>s, <2>1 DEF Clock, Visible
    <2> QED
      BY <1>0, <1>3, <2>2, SendOrder, AckOrder
  <1>4. CASE Restart
    <2>1. since' = now - Lookback /\ until' = NoScan /\ after' = NoEvent /\ now' = now
      BY <1>4 DEF Restart
    <2>2. Clock'
      BY <1>0, <1>s, <2>1, Numbers DEF Clock, InTimeForScans
    <2> QED
      BY <1>0, <1>4, <2>2, RestartOrder
  <1> QED
    BY <1>1, <1>2, <1>3, <1>4 DEF BotStep

\* At the start nothing is visible.
LEMMA InitOrder == ASSUME InTimeForScans PROVE Init => OrderInv
  <1> SUFFICES ASSUME Init PROVE OrderInv
    OBVIOUS
  <1>1. Inv
    BY InitInv
  <1>2. Line /\ Waiting
    BY DEF Init, FeedInit, Line, Waiting, Visible
  <1>3. Clock
    BY NotificationAssumption DEF Init, FeedInit, Clock, InTimeForScans
  <1> QED
    BY <1>1, <1>2, <1>3 DEF OrderInv

\* And every step keeps the order.
LEMMA OrderInvariance == ASSUME InTimeForScans PROVE OrderInv /\ [Next]_vars => OrderInv'
  <1> SUFFICES ASSUME OrderInv, [Next]_vars PROVE OrderInv'
    OBVIOUS
  <1>1. Inv'
    BY Invariance DEF OrderInv
  <1>2. CASE UNCHANGED vars
    <2>1. /\ UNCHANGED <<now, at, delivered, since, until, after, pending, acked, lastTold, scan>>
      BY <1>2 DEF vars, feedVars, bot, parityVars
    <2>2. Line' /\ Waiting'
      BY <2>1, QuietOrder, Numbers DEF OrderInv, Inv
    <2>3. Clock'
      BY <2>1 DEF OrderInv, Clock, Visible
    <2> QED
      BY <1>1, <2>2, <2>3 DEF OrderInv
  <1> QED
    BY <1>1, <1>2, ParityOrder, BotOrder DEF OrderInv, Next

\* Only a message that reaches the owner is told, and it is the first in line.
LEMMA ToldFirst ==
  ASSUME OrderInv, [Next]_vars, lastTold # NoEvent, told' # told
  PROVE  at[lastTold] =< at[lastTold']
  <1>1. Send \/ SendUnclear
    BY DEF Next, ParityStep, Tick, DataChanges, CloseTask, StartScan, ReadSides, SkipStale, Open,
           Resolve, Confirm, ScanFails, BotStep, Collect, CollectHeld, CollectFails, SendFails, Ack,
           AckFails, AckUnheard, Restart, vars, feedVars
  <1>2. turn # "rest" /\ lastTold' = Head(pending)
    BY <1>1 DEF Send, SendUnclear, Reaches
  <1>3. 1 \in DOMAIN pending /\ lastTold' = pending[1]
    BY <1>2, HasHead DEF OrderInv, Inv
  <1> QED
    BY <1>3 DEF OrderInv, Line

\* When a scan of the parity check takes no longer than the overlap of the bot,
\* and the overlap is within the look-back of a restart, no message overtakes
\* an older one, whatever fails and however often the bot starts again.
THEOREM AlarmBeforeRecovery == ASSUME InTimeForScans PROVE Spec => ToldInOrder
  <1>1. OrderInv /\ [Next]_vars =>
           [lastTold # NoEvent /\ told' # told => at[lastTold] =< at[lastTold']]_vars
    BY ToldFirst
  <1> QED
    BY <1>1, InitOrder, OrderInvariance, PTL DEF Spec, ToldInOrder
=============================================================================
