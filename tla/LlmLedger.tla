----------------------------- MODULE LlmLedger ------------------------------
(***************************************************************************)
(* The transactions of LlmLedgerService: reserve, settle, release and      *)
(* recover-pre-dispatch.  Each takes the advisory locks provider ->        *)
(* request -> budget day, reads under them, writes and commits, and        *)
(* concurrent transactions interleave at every one of these points.        *)
(* Midnight (Tashkent) may pass between any two of them.  The reservation  *)
(* of a task's job is made under a key of the day, which changes with it.  *)
(***************************************************************************)
EXTENDS LedgerBudget, FiniteSets

CONSTANTS Tx,           \* transactions that may run at the same time
          MaxCalls,     \* transactions started
          KeyOn         \* the request key of the same call on a day

\* A key that is not of a job is the same on every day.
Undated(k) == \A d \in Day : KeyOn[k][d] = k

ASSUME LlmLedgerAssumption ==
    /\ MaxCalls \in Nat
    /\ 1 \in Day
    /\ KeyOn \in [Request -> [Day -> Request]]
    /\ \A k \in Request, d \in Day : KeyOn[KeyOn[k][d]][d] = KeyOn[k][d]

VARIABLES today,
          held,         \* advisory locks of each transaction
          pc,           \* where each transaction is
          op, key, via, payload,    \* its call: operation, request key, provider, body
          dated,        \* its key follows the day (requestKeyForDay)
          day,          \* the budget day it works on
          plan, at,     \* what it decided to write, and when it read the clock
          grants,       \* fresh (not replayed) permissions given per request key
          started

call == <<op, key, via, payload, dated>>
ledgerVars == <<row, today, held, pc, call, day, plan, at, grants, started>>

Locks == ({"provider"} \X Provider) \union ({"request"} \X Request) \union ({"budget"} \X Day)

Plan == {"nothing", "admit", "deny", "settle", "release"}

TypeOK ==
    /\ RowType
    /\ today \in Day
    /\ held \in [Tx -> SUBSET Locks]
    /\ pc \in [Tx -> {"idle", "provider", "request", "budget", "read", "write"}]
    /\ op \in [Tx -> {"reserve", "settle", "release"}]
    /\ key \in [Tx -> Request \union {None}]
    /\ via \in [Tx -> Provider \union {None}]
    /\ payload \in [Tx -> Settlement \union Releases \union {NoClosing}]
    /\ dated \in [Tx -> BOOLEAN]
    /\ day \in [Tx -> Day]
    /\ plan \in [Tx -> Plan]
    /\ at \in [Tx -> Day]
    /\ grants \in [Request -> Nat]
    /\ started \in 0..MaxCalls

Init ==
    /\ EmptyTable
    /\ today = 1
    /\ held = [t \in Tx |-> {}]
    /\ pc = [t \in Tx |-> "idle"]
    /\ op = [t \in Tx |-> "reserve"]
    /\ key = [t \in Tx |-> None]
    /\ via = [t \in Tx |-> None]
    /\ payload = [t \in Tx |-> NoClosing]
    /\ dated = [t \in Tx |-> FALSE]
    /\ day = [t \in Tx |-> 1]
    /\ plan = [t \in Tx |-> "nothing"]
    /\ at = [t \in Tx |-> 1]
    /\ grants = [k \in Request |-> 0]
    /\ started = 0

Goto(t, label) == pc' = [pc EXCEPT ![t] = label]

-----------------------------------------------------------------------------
Begin(t, o, k, p, s, dates) ==
    /\ pc[t] = "idle"
    /\ started < MaxCalls
    /\ started' = started + 1
    /\ op' = [op EXCEPT ![t] = o]
    /\ key' = [key EXCEPT ![t] = k]
    /\ via' = [via EXCEPT ![t] = p]
    /\ payload' = [payload EXCEPT ![t] = s]
    /\ dated' = [dated EXCEPT ![t] = dates]
    /\ Goto(t, "provider")
    /\ UNCHANGED <<row, today, held, day, plan, at, grants>>

\* reserve; also the second look at a job's reservation before its dispatch.
BeginReserve(t, k, p) ==
    (Undated(k) \/ status[k] # None) /\ Begin(t, "reserve", k, p, NoClosing, FALSE)

\* The reservation of a job that has none today.
BeginEnsure(t, k, p) == ~Undated(k) /\ Begin(t, "reserve", k, p, NoClosing, TRUE)

\* spendHint / preDispatchRecoveryHint read the immutable columns of the row
\* before any lock; a missing row answers at once.
BeginSettle(t, k, s)  == status[k] # None /\ Begin(t, "settle", k, provider[k], s, FALSE)
BeginRelease(t, k, r) == status[k] # None /\ Begin(t, "release", k, provider[k], r, FALSE)

Available(t, l) == \A u \in Tx \ {t} : l \notin held[u]

\* pg_advisory_xact_lock: wait until nobody else has it, keep it until commit.
Take(t, l) == Available(t, l) /\ held' = [held EXCEPT ![t] = held[t] \union {l}]

\* Mutant: the circuit is not serialised.
LockProviderNot(t) ==
    /\ pc[t] = "provider"
    /\ Goto(t, "request")
    /\ UNCHANGED <<row, today, held, call, day, plan, at, grants, started>>

\* Mutant: a close takes its budget lock where the provider lock belongs.
LockProviderLast(t) ==
    /\ pc[t] = "provider"
    /\ Take(t, IF op[t] = "reserve" THEN <<"provider", via[t]>> ELSE <<"budget", billDay[key[t]]>>)
    /\ Goto(t, "request")
    /\ UNCHANGED <<row, today, call, day, plan, at, grants, started>>

\* A key of the day is looked up for the day it is now.
Redate(t) ==
    /\ day' = [day EXCEPT ![t] = today]
    /\ key' = [key EXCEPT ![t] = KeyOn[key[t]][today]]
    /\ UNCHANGED <<op, via, payload, dated>>

LockProvider(t) ==
    /\ pc[t] = "provider"
    /\ Take(t, <<"provider", via[t]>>)
    /\ Goto(t, "request")
    /\ IF dated[t] THEN Redate(t) ELSE UNCHANGED <<call, day>>
    /\ UNCHANGED <<row, today, plan, at, grants, started>>

\* A reserve computes its candidate day now, a close uses the day of its row.
CandidateDay(t) == day' = [day EXCEPT ![t] = IF op[t] = "reserve" THEN today ELSE billDay[key[t]]]

\* Mutant: nothing serialises two calls with the same request key.
LockRequestNot(t) ==
    /\ pc[t] = "request"
    /\ CandidateDay(t)
    /\ Goto(t, "budget")
    /\ UNCHANGED <<row, today, held, call, plan, at, grants, started>>

\* A dated key is looked up again if midnight passed during the wait.
LockRequest(t) ==
    /\ pc[t] = "request"
    /\ Take(t, <<"request", key[t]>>)
    /\ IF dated[t] /\ day[t] # today
       THEN Redate(t) /\ UNCHANGED pc
       ELSE CandidateDay(t) /\ Goto(t, "budget") /\ UNCHANGED call
    /\ UNCHANGED <<row, today, plan, at, grants, started>>

\* Mutant: exposure is read without the day's lock.
LockBudgetNot(t) ==
    /\ pc[t] = "budget"
    /\ Goto(t, "read")
    /\ UNCHANGED <<row, today, held, call, day, plan, at, grants, started>>

\* Mutant: the day moves on and the key of a job does not.
LockBudgetOldKey(t) ==
    /\ pc[t] = "budget"
    /\ Take(t, <<"budget", day[t]>>)
    /\ IF op[t] = "reserve" /\ day[t] # today
       THEN day' = [day EXCEPT ![t] = today] /\ UNCHANGED pc
       ELSE Goto(t, "read") /\ UNCHANGED day
    /\ UNCHANGED <<row, today, call, plan, at, grants, started>>

\* stabilizeLedgerDay: if midnight passed during the wait, keep this lock and
\* go for the new day's, with a dated key for its request lock first.
LockBudget(t) ==
    /\ pc[t] = "budget"
    /\ Take(t, <<"budget", day[t]>>)
    /\ IF op[t] # "reserve" \/ day[t] = today
       THEN Goto(t, "read") /\ UNCHANGED <<call, day>>
       ELSE IF dated[t]
       THEN Redate(t) /\ Goto(t, "request")
       ELSE day' = [day EXCEPT ![t] = today] /\ UNCHANGED <<pc, call>>
    /\ UNCHANGED <<row, today, plan, at, grants, started>>

\* What a reserve decides from the prior row, the exposure and the circuit.
\* Policy, prices and switches may deny any new request and block any replay.
ReservePlan(t, p) ==
    IF status[key[t]] # None THEN p = "nothing"
    ELSE \/ p = "deny"
         \/ p = "admit" /\ Fits(key[t], day[t]) /\ ~CircuitOpen(via[t], day[t])

\* A closed row only answers an exact replay, or with 409.
ClosePlan(t, p) == p = IF status[key[t]] = "reserved" THEN op[t] ELSE "nothing"

Read(t) ==
    /\ pc[t] = "read"
    /\ \E p \in Plan :
          /\ IF op[t] = "reserve" THEN ReservePlan(t, p) ELSE ClosePlan(t, p)
          /\ plan' = [plan EXCEPT ![t] = p]
    /\ at' = [at EXCEPT ![t] = today]
    /\ Goto(t, "write")
    /\ UNCHANGED <<row, today, held, call, day, grants, started>>

\* Commit or rollback: every advisory lock goes, the transaction is forgotten.
End(t) ==
    /\ held' = [held EXCEPT ![t] = {}]
    /\ Goto(t, "idle")
    /\ op' = [op EXCEPT ![t] = "reserve"]
    /\ key' = [key EXCEPT ![t] = None]
    /\ via' = [via EXCEPT ![t] = None]
    /\ payload' = [payload EXCEPT ![t] = NoClosing]
    /\ dated' = [dated EXCEPT ![t] = FALSE]
    /\ day' = [day EXCEPT ![t] = 1]
    /\ plan' = [plan EXCEPT ![t] = "nothing"]
    /\ at' = [at EXCEPT ![t] = 1]
    /\ UNCHANGED <<today, started>>

Write(t) ==
    /\ pc[t] = "write"
    /\ \/ plan[t] = "admit" /\ InsertRow(key[t], via[t], day[t], "reserved")
       \/ plan[t] = "deny" /\ InsertRow(key[t], via[t], day[t], "denied")
       \/ plan[t] = "settle" /\ WriteSettlement(key[t], payload[t], at[t])
       \/ plan[t] = "release" /\ WriteRelease(key[t], payload[t])
       \/ plan[t] = "nothing" /\ UNCHANGED row
    /\ grants' = IF plan[t] = "admit" THEN [grants EXCEPT ![key[t]] = grants[key[t]] + 1] ELSE grants
    /\ End(t)

\* The connection breaks: nothing is written.
Rollback(t) ==
    /\ pc[t] # "idle"
    /\ End(t)
    /\ UNCHANGED <<row, grants>>

Midnight ==
    /\ today + 1 \in Day
    /\ today' = today + 1
    /\ UNCHANGED <<row, held, pc, call, day, plan, at, grants, started>>

TxStep(t) == LockProvider(t) \/ LockRequest(t) \/ LockBudget(t) \/ Read(t) \/ Write(t)

Next ==
    \/ Midnight
    \/ \E t \in Tx :
          \/ TxStep(t) \/ Rollback(t)
          \/ \E k \in Request :
                \/ \E p \in Provider : BeginReserve(t, k, p) \/ BeginEnsure(t, k, p)
                \/ \E s \in Settlement : BeginSettle(t, k, s)
                \/ \E r \in Releases : BeginRelease(t, k, r)

Spec == Init /\ [][Next]_ledgerVars

\* Postgres grants a free lock to a waiting transaction, and statements return.
FairSpec == Spec /\ \A t \in Tx : WF_ledgerVars(TxStep(t))

-----------------------------------------------------------------------------
\* Concurrent transactions behave like one atomic ledger: what a reserve read
\* about caps, circuit and prior row still holds when it writes, and a row is
\* closed once.
ImplementsBudget == BudgetSpec

\* No interleaving admits a call beyond the day's caps.
AdmissionWithinCap ==
    [][\A k \in Request, d \in Day :
          status[k] = None /\ status'[k] = "reserved" /\ billDay'[k] = d =>
             /\ Exposure(d)' <= GlobalCap
             /\ AgentExposure(d, AgentOf[k])' <= AgentCap[AgentOf[k]]]_ledgerVars

\* A provider caught answering with another model gets no new reservation on
\* that day, even from a reserve that was already under way.
CircuitHonoured ==
    [][\A k \in Request, p \in Provider, d \in Day :
          status[k] = None /\ status'[k] = "reserved" /\ provider'[k] = p /\ billDay'[k] = d =>
             ~CircuitOpen(p, d)]_ledgerVars

\* A request key is granted a provider call once; every other answer is a
\* replay or a refusal.
SingleGrant == \A k \in Request : grants[k] <= 1

\* The key of a job's day is booked on that day, although midnight may pass
\* while it waits for its locks: the job does not find itself blocked with
\* "LLM ledger day changed outside its stable lock".
KeyOfItsDay == \A k \in Request : status[k] # None => KeyOn[k][billDay[k]] = k

\* What a request key stands for: one permission, on its day if it has one.
KeysHonoured == SingleGrant /\ KeyOfItsDay

\* The lock order admits no deadlock: every transaction ends, midnight included.
TransactionsEnd == \A t \in Tx : pc[t] # "idle" ~> pc[t] = "idle"
=============================================================================
