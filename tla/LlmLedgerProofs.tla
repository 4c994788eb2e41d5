-------------------------- MODULE LlmLedgerProofs ---------------------------
(***************************************************************************)
(* The ledger's transactions implement the atomic ledger of LedgerBudget,  *)
(* for any number of transactions, requests, providers, agents and days.   *)
(*                                                                         *)
(* The argument: a transaction about to write holds the locks of its       *)
(* provider, its request key and its budget day.  Another one can then     *)
(* only write a row of another key, another day and another provider, and  *)
(* such a row enters neither the exposure nor the circuit that the first   *)
(* one has read.  That an admission adds its cost to the exposure, a sum   *)
(* over the rows of a day, is shown by induction over the rows.            *)
(***************************************************************************)
EXTENDS LlmLedger, FiniteSetTheorems, WellFoundedInduction, TLAPS

\* No advisory lock has two holders.
Exclusive == \A t, u \in Tx : \A l \in held[t] : l \in held[u] => t = u

\* The locks a transaction holds at each point.
Guarded ==
    \A t \in Tx :
        /\ pc[t] # "idle" => key[t] \in Request /\ via[t] \in Provider
        /\ pc[t] \in {"request", "budget", "read", "write"} => <<"provider", via[t]>> \in held[t]
        /\ pc[t] \in {"budget", "read", "write"} => <<"request", key[t]>> \in held[t]
        /\ pc[t] \in {"read", "write"} => <<"budget", day[t]>> \in held[t]

\* A row is booked on a day and a provider when it is inserted.
Booked ==
    \A k \in Request : IF status[k] = None THEN billDay[k] = 0
                       ELSE billDay[k] \in Day /\ provider[k] \in Provider

\* The hint of a close stays true: its columns are immutable.
Hinted ==
    \A t \in Tx : pc[t] # "idle" /\ op[t] # "reserve" =>
        /\ status[key[t]] # None
        /\ via[t] = provider[key[t]]
        /\ pc[t] \in {"budget", "read", "write"} => day[t] = billDay[key[t]]
        /\ IF op[t] = "settle" THEN payload[t] \in Settlement ELSE payload[t] \in Releases

\* What was decided from the table still holds when it is written.
PlanStands(t) ==
    /\ plan[t] \in {"admit", "deny"} => op[t] = "reserve" /\ status[key[t]] = None
    /\ plan[t] = "admit" => Fits(key[t], day[t]) /\ ~CircuitOpen(via[t], day[t])
    /\ plan[t] \in {"settle", "release"} => plan[t] = op[t] /\ status[key[t]] = "reserved"

Planned == \A t \in Tx : pc[t] = "write" => PlanStands(t)

\* A permission is given by the insertion of the row.
Granted == \A k \in Request : grants[k] <= IF status[k] = None THEN 0 ELSE 1

\* A key of the day goes with the day of its transaction; any other key that a
\* reserve may insert is the same on every day.
Dated ==
    \A t \in Tx :
        /\ dated[t] => /\ op[t] = "reserve"
                       /\ pc[t] \in {"request", "budget", "read", "write"} => KeyOn[key[t]][day[t]] = key[t]
        /\ pc[t] # "idle" /\ op[t] = "reserve" /\ ~dated[t] => Undated(key[t]) \/ status[key[t]] # None

Inv ==
    /\ TypeOK /\ Exclusive /\ Guarded /\ Booked /\ Hinted /\ Planned /\ Granted
    /\ Dated /\ KeyOfItsDay

-----------------------------------------------------------------------------
(* The table *)

\* Only row k differs between the two states.
OnlyRow(k) ==
    \A j \in Request \ {k} :
        /\ status'[j] = status[j] /\ provider'[j] = provider[j] /\ billDay'[j] = billDay[j]
        /\ outcome'[j] = outcome[j] /\ actual'[j] = actual[j] /\ circuitDay'[j] = circuitDay[j]

\* A write of row k leaves the exposure of a day alone that k is not booked on.
LEMMA ExposureFrame ==
    ASSUME NEW k \in Request, NEW d, OnlyRow(k), billDay[k] # d, billDay'[k] # d
    PROVE  Exposure(d)' = Exposure(d) /\ \A a \in Agent : AgentExposure(d, a)' = AgentExposure(d, a)
  <1>1. \A j \in Request : billDay'[j] = d <=> billDay[j] = d
    BY DEF OnlyRow
  <1>2. \A j \in Request : billDay[j] = d => Exposed(j)' = Exposed(j)
    BY DEF OnlyRow, Exposed
  <1>3. Exposure(d)' = Exposure(d)
    <2> DEFINE S == {j \in Request : billDay[j] = d}
               f == [j \in S |-> Exposed(j)]
    <2>1. S' = S
      BY <1>1
    <2>2. f' = f
      BY <1>2, <2>1
    <2> QED
      BY <2>2 DEF Exposure
  <1>4. ASSUME NEW a \in Agent PROVE AgentExposure(d, a)' = AgentExposure(d, a)
    <2> DEFINE S == {j \in Request : billDay[j] = d /\ AgentOf[j] = a}
               f == [j \in S |-> Exposed(j)]
    <2>1. S' = S
      BY <1>1
    <2>2. f' = f
      BY <1>2, <2>1
    <2> QED
      BY <2>2 DEF AgentExposure
  <1> QED
    BY <1>3, <1>4

\* A write of row k leaves the circuit of a provider alone that k is not booked on.
LEMMA CircuitFrame ==
    ASSUME NEW k \in Request, NEW p, NEW d, OnlyRow(k),
           status[k] = "failed" => provider[k] # p, provider'[k] # p
    PROVE  CircuitOpen(p, d)' = CircuitOpen(p, d)
  BY DEF OnlyRow, CircuitOpen

\* Every write touches the row of its transaction and books it on the
\* provider and the day the transaction has locked.
LEMMA WriteRow ==
    ASSUME Inv, NEW t \in Tx, Write(t)
    PROVE  /\ key[t] \in Request /\ OnlyRow(key[t])
           /\ plan[t] = "nothing" => UNCHANGED row
           /\ plan[t] # "nothing" => /\ provider'[key[t]] = via[t] /\ billDay'[key[t]] = day[t]
                                     /\ billDay[key[t]] \in {0, day[t]}
                                     /\ status[key[t]] # None => provider[key[t]] = via[t]
                                     /\ status'[key[t]] # None
  <1> USE DEF Inv
  <1>1. key[t] \in Request /\ via[t] \in Provider
    BY DEF Write, Guarded
  <1>2. plan[t] \in Plan
    BY DEF TypeOK
  <1>3. CASE plan[t] \in {"admit", "deny"}
    <2>1. op[t] = "reserve" /\ status[key[t]] = None /\ billDay[key[t]] = 0
      BY <1>1, <1>3 DEF Write, Planned, PlanStands, Booked
    <2>2. InsertRow(key[t], via[t], day[t], "reserved") \/ InsertRow(key[t], via[t], day[t], "denied")
      BY <1>3 DEF Write
    <2> QED
      BY <1>1, <1>3, <2>1, <2>2 DEF InsertRow, OnlyRow, TypeOK, RowType, None
  <1>4. CASE plan[t] \in {"settle", "release"}
    <2>1. status[key[t]] = "reserved" /\ via[t] = provider[key[t]] /\ day[t] = billDay[key[t]]
      BY <1>4 DEF Write, Planned, PlanStands, Hinted
    <2>2. WriteSettlement(key[t], payload[t], at[t]) \/ WriteRelease(key[t], payload[t])
      BY <1>4 DEF Write
    <2> QED
      BY <1>1, <1>4, <2>1, <2>2 DEF WriteSettlement, WriteRelease, OnlyRow, TypeOK, RowType, None
  <1>5. CASE plan[t] = "nothing"
    BY <1>1, <1>5 DEF Write, row, OnlyRow
  <1> QED
    BY <1>2, <1>3, <1>4, <1>5 DEF Plan

\* A step that leaves the table alone leaves its reading alone.
LEMMA TableFrame ==
    ASSUME UNCHANGED row, NEW k \in Request, NEW p \in Provider, NEW d \in Day
    PROVE  Fits(k, d)' = Fits(k, d) /\ CircuitOpen(p, d)' = CircuitOpen(p, d)
  <1>1. \A j \in Request : Exposed(j)' = Exposed(j)
    BY DEF row, Exposed
  <1>2. Exposure(d)' = Exposure(d)
    BY <1>1 DEF Exposure, row
  <1>3. AgentExposure(d, AgentOf[k])' = AgentExposure(d, AgentOf[k])
    BY <1>1 DEF AgentExposure, row
  <1> QED
    BY <1>2, <1>3 DEF Fits, CircuitOpen, row

-----------------------------------------------------------------------------
(* Types and locks *)

LEMMA InitInv == Init => Inv
  <1> SUFFICES ASSUME Init PROVE Inv
    OBVIOUS
  <1> USE LedgerAssumption, LlmLedgerAssumption DEF Init, EmptyTable
  <1>1. TypeOK
    BY DEF TypeOK, RowType, Plan
  <1>2. Exclusive /\ Guarded /\ Booked /\ Hinted /\ Planned /\ Granted /\ Dated /\ KeyOfItsDay
    BY DEF Exclusive, Guarded, Booked, Hinted, Planned, PlanStands, Granted, Dated, KeyOfItsDay
  <1> QED
    BY <1>1, <1>2 DEF Inv

\* Ending a transaction keeps the types of everything but the table.
LEMMA EndType ==
    ASSUME TypeOK, NEW t \in Tx, End(t), RowType', grants' \in [Request -> Nat]
    PROVE  TypeOK'
  BY LlmLedgerAssumption DEF TypeOK, End, Goto, Plan, Locks

\* The key of a call on any day is a request key.
LEMMA KeyTyped ==
    ASSUME TypeOK, Guarded, NEW t \in Tx, pc[t] # "idle"
    PROVE  KeyOn[key[t]][today] \in Request
  <1>1. key[t] \in Request /\ today \in Day
    BY DEF TypeOK, Guarded
  <1>2. \A k \in Request, d \in Day : KeyOn[k][d] \in Request
    BY LlmLedgerAssumption
  <1> QED
    BY <1>1, <1>2

LEMMA TypeStep == Inv /\ [Next]_ledgerVars => TypeOK'
  <1> SUFFICES ASSUME Inv, [Next]_ledgerVars PROVE TypeOK'
    OBVIOUS
  <1>a. TypeOK /\ Guarded
    BY DEF Inv
  <1>b. ASSUME NEW t \in Tx, pc[t] # "idle" PROVE KeyOn[key[t]][today] \in Request
    BY <1>a, <1>b, KeyTyped
  <1>1. CASE Midnight
    BY <1>a, <1>1 DEF Midnight, TypeOK, RowType, row, call
  <1>2. ASSUME NEW t \in Tx, NEW k \in Request, NEW o \in {"reserve", "settle", "release"},
               NEW p \in Provider \union {None},
               NEW s \in Settlement \union Releases \union {NoClosing}, NEW b \in BOOLEAN,
               Begin(t, o, k, p, s, b)
        PROVE  TypeOK'
    BY <1>a, <1>2, LlmLedgerAssumption DEF Begin, Goto, TypeOK, RowType, row
  <1>3. ASSUME NEW t \in Tx, LockProvider(t) PROVE TypeOK'
    <2>1. <<"provider", via[t]>> \in Locks
      BY <1>a, <1>3 DEF LockProvider, Guarded, Locks
    <2> QED
      BY <1>a, <1>b, <1>3, <2>1 DEF LockProvider, Redate, Take, Goto, TypeOK, RowType, row, call
  <1>4. ASSUME NEW t \in Tx, LockRequest(t) PROVE TypeOK'
    <2>1. <<"request", key[t]>> \in Locks
      BY <1>a, <1>4 DEF LockRequest, Guarded, Locks
    <2>2. (IF op[t] = "reserve" THEN today ELSE billDay[key[t]]) \in Day
      BY <1>a, <1>4 DEF LockRequest, TypeOK, Guarded, Inv, Booked, Hinted
    <2> QED
      BY <1>a, <1>b, <1>4, <2>1, <2>2 DEF LockRequest, Redate, CandidateDay, Take, Goto, TypeOK, RowType, row, call
  <1>5. ASSUME NEW t \in Tx, LockBudget(t) PROVE TypeOK'
    <2>1. <<"budget", day[t]>> \in Locks
      BY <1>a DEF TypeOK, Locks
    <2> QED
      BY <1>a, <1>b, <1>5, <2>1 DEF LockBudget, Redate, Take, Goto, TypeOK, RowType, row, call
  <1>6. ASSUME NEW t \in Tx, Read(t) PROVE TypeOK'
    BY <1>a, <1>6 DEF Read, Goto, TypeOK, RowType, row, call
  <1>7. ASSUME NEW t \in Tx, Write(t) PROVE TypeOK'
    <2>1. key[t] \in Request /\ via[t] \in Provider /\ day[t] \in Day /\ at[t] \in Day
      BY <1>a, <1>7 DEF Write, Guarded, TypeOK
    <2>2. grants' \in [Request -> Nat]
      BY <1>a, <1>7, <2>1 DEF Write, TypeOK
    <2>3. ASSUME NEW s \in {"reserved", "denied"}, InsertRow(key[t], via[t], day[t], s) PROVE RowType'
      BY <1>a, <2>1, <2>3 DEF InsertRow, TypeOK, RowType, Closed
    <2>4. ASSUME WriteSettlement(key[t], payload[t], at[t]), plan[t] = "settle" PROVE RowType'
      <3>1. payload[t] \in Settlement
        BY <1>7, <2>4 DEF Inv, Planned, PlanStands, Hinted, Write
      <3> QED
        BY <1>a, <2>1, <2>4, <3>1, LedgerAssumption
        DEF WriteSettlement, TypeOK, RowType, Closed, Anomaly
    <2>5. ASSUME WriteRelease(key[t], payload[t]) PROVE RowType'
      BY <1>a, <2>1, <2>5 DEF WriteRelease, TypeOK, RowType, Closed
    <2>6. ASSUME UNCHANGED row PROVE RowType'
      BY <1>a, <2>6 DEF TypeOK, RowType, row
    <2>7. RowType'
      BY <1>7, <2>3, <2>4, <2>5, <2>6 DEF Write
    <2> QED
      BY <1>a, <1>7, <2>2, <2>7, EndType DEF Write
  <1>8. ASSUME NEW t \in Tx, Rollback(t) PROVE TypeOK'
    <2>1. RowType' /\ grants' \in [Request -> Nat]
      BY <1>a, <1>8 DEF Rollback, TypeOK, RowType, row
    <2> QED
      BY <1>a, <1>8, <2>1, EndType DEF Rollback
  <1>9. CASE UNCHANGED ledgerVars
    BY <1>a, <1>9 DEF ledgerVars, TypeOK, RowType, row, call
  <1>10. ASSUME NEW t \in Tx, NEW k \in Request
         PROVE  /\ \A p \in Provider : BeginReserve(t, k, p) \/ BeginEnsure(t, k, p) => TypeOK'
                /\ \A s \in Settlement : BeginSettle(t, k, s) => TypeOK'
                /\ \A r \in Releases : BeginRelease(t, k, r) => TypeOK'
    <2>1. provider[k] \in Provider \union {None}
      BY <1>a DEF TypeOK, RowType
    <2> QED
      BY <1>2, <2>1 DEF BeginReserve, BeginEnsure, BeginSettle, BeginRelease
  <1> QED
    BY <1>1, <1>3, <1>4, <1>5, <1>6, <1>7, <1>8, <1>9, <1>10 DEF Next, TxStep

\* Taking a free lock and dropping all of them keep the locks exclusive.
LEMMA LockStep ==
    ASSUME Inv, NEW t \in Tx
    PROVE  /\ \A l : Take(t, l) => Exclusive'
           /\ End(t) => Exclusive'
  BY DEF Inv, TypeOK, Take, Available, End, Exclusive

LEMMA ExclusiveStep == Inv /\ [Next]_ledgerVars => Exclusive'
  <1> SUFFICES ASSUME Inv, [Next]_ledgerVars PROVE Exclusive'
    OBVIOUS
  <1>1. ASSUME NEW t \in Tx, LockProvider(t) \/ LockRequest(t) \/ LockBudget(t) PROVE Exclusive'
    BY <1>1, LockStep DEF LockProvider, LockRequest, LockBudget
  <1>2. ASSUME NEW t \in Tx, Write(t) \/ Rollback(t) PROVE Exclusive'
    BY <1>2, LockStep DEF Write, Rollback
  <1>3. ASSUME UNCHANGED held PROVE Exclusive'
    BY <1>3 DEF Inv, Exclusive
  <1>4. CASE Midnight \/ UNCHANGED ledgerVars
    BY <1>3, <1>4 DEF Midnight, ledgerVars
  <1>5. ASSUME NEW t \in Tx, Read(t) PROVE Exclusive'
    BY <1>3, <1>5 DEF Read
  <1>6. ASSUME NEW t \in Tx, NEW k \in Request
        PROVE  /\ \A p \in Provider : BeginReserve(t, k, p) \/ BeginEnsure(t, k, p) => Exclusive'
               /\ \A s \in Settlement : BeginSettle(t, k, s) => Exclusive'
               /\ \A r \in Releases : BeginRelease(t, k, r) => Exclusive'
    BY <1>3 DEF BeginReserve, BeginEnsure, BeginSettle, BeginRelease, Begin
  <1> QED
    BY <1>1, <1>2, <1>4, <1>5, <1>6 DEF Next, TxStep

LEMMA GuardedStep == Inv /\ [Next]_ledgerVars => Guarded'
  <1> SUFFICES ASSUME Inv, [Next]_ledgerVars PROVE Guarded'
    OBVIOUS
  <1>a. TypeOK /\ Guarded /\ Booked
    BY DEF Inv
  <1>b. ASSUME NEW t \in Tx, pc[t] # "idle" PROVE KeyOn[key[t]][today] \in Request
    BY <1>a, <1>b, KeyTyped
  <1>1. CASE Midnight \/ UNCHANGED ledgerVars
    BY <1>a, <1>1 DEF Midnight, ledgerVars, call, Guarded
  <1>2. ASSUME NEW t \in Tx, NEW k \in Request, NEW p \in Provider, NEW o, NEW s, NEW b,
               Begin(t, o, k, p, s, b)
        PROVE  Guarded'
    BY <1>a, <1>2 DEF Begin, Goto, TypeOK, Guarded
  <1>3. ASSUME NEW t \in Tx, LockProvider(t) PROVE Guarded'
    BY <1>a, <1>b, <1>3 DEF LockProvider, Redate, Take, Goto, TypeOK, Guarded, call
  <1>4. ASSUME NEW t \in Tx, LockRequest(t) PROVE Guarded'
    BY <1>a, <1>b, <1>4 DEF LockRequest, Redate, CandidateDay, Take, Goto, TypeOK, Guarded, call
  <1>5. ASSUME NEW t \in Tx, LockBudget(t) PROVE Guarded'
    BY <1>a, <1>b, <1>5 DEF LockBudget, Redate, Take, Goto, TypeOK, Guarded, call
  <1>6. ASSUME NEW t \in Tx, Read(t) PROVE Guarded'
    BY <1>a, <1>6 DEF Read, Goto, TypeOK, Guarded, call
  <1>7. ASSUME NEW t \in Tx, Write(t) \/ Rollback(t) PROVE Guarded'
    <2>1. End(t)
      BY <1>7 DEF Write, Rollback
    <2> QED
      BY <1>a, <2>1 DEF End, Goto, TypeOK, Guarded
  <1>8. ASSUME NEW t \in Tx, NEW k \in Request
        PROVE  /\ \A p \in Provider : BeginReserve(t, k, p) \/ BeginEnsure(t, k, p) => Guarded'
               /\ \A s \in Settlement : BeginSettle(t, k, s) => Guarded'
               /\ \A r \in Releases : BeginRelease(t, k, r) => Guarded'
    <2>1. status[k] # None => provider[k] \in Provider
      BY <1>a DEF Booked
    <2> QED
      BY <1>2, <2>1 DEF BeginReserve, BeginEnsure, BeginSettle, BeginRelease
  <1> QED
    BY <1>1, <1>3, <1>4, <1>5, <1>6, <1>7, <1>8 DEF Next, TxStep

-----------------------------------------------------------------------------
(* The table, and what transactions know about it *)

LEMMA BookedStep == Inv /\ [Next]_ledgerVars => Booked' /\ Granted'
  <1> SUFFICES ASSUME Inv, [Next]_ledgerVars PROVE Booked' /\ Granted'
    OBVIOUS
  <1>a. TypeOK /\ Booked /\ Granted /\ Guarded /\ Planned
    BY DEF Inv
  <1>1. ASSUME UNCHANGED <<row, grants>> PROVE Booked' /\ Granted'
    BY <1>a, <1>1 DEF Booked, Granted, row
  <1>2. ASSUME NEW t \in Tx, Write(t) PROVE Booked' /\ Granted'
    <2>0. key[t] \in Request /\ via[t] \in Provider /\ day[t] \in Day
      BY <1>a, <1>2 DEF Guarded, Write, TypeOK
    <2>1. CASE plan[t] = "nothing"
      BY <1>1, <1>2, <2>1 DEF Write
    <2>2. CASE plan[t] # "nothing"
      <3>1. Booked'
        BY <1>a, <1>2, <2>0, <2>2, WriteRow DEF Booked, OnlyRow
      <3>2. ASSUME NEW k \in Request PROVE (grants[k] <= IF status[k] = None THEN 0 ELSE 1)'
        <4>1. CASE k # key[t]
          <5>1. status'[k] = status[k]
            BY <1>2, <4>1, WriteRow DEF OnlyRow
          <5>2. grants'[k] = grants[k]
            BY <1>a, <1>2, <2>0, <4>1 DEF Write, TypeOK
          <5> QED
            BY <1>a, <5>1, <5>2 DEF Granted
        <4>2. CASE k = key[t]
          <5>1. status'[k] # None
            BY <1>2, <2>2, <4>2, WriteRow
          <5>2. plan[t] = "admit" => grants[k] <= 0
            BY <1>a, <1>2, <4>2 DEF Write, Planned, PlanStands, Granted
          <5>3. grants[k] \in Nat /\ grants[k] <= 1
            BY <1>a DEF TypeOK, Granted
          <5> QED
            BY <1>a, <1>2, <4>2, <5>1, <5>2, <5>3 DEF Write, TypeOK
        <4> QED
          BY <4>1, <4>2
      <3> QED
        BY <3>1, <3>2 DEF Granted
    <2> QED
      BY <2>1, <2>2
  <1>3. CASE Midnight \/ UNCHANGED ledgerVars
    BY <1>1, <1>3 DEF Midnight, ledgerVars
  <1>4. ASSUME NEW t \in Tx, LockProvider(t) \/ LockRequest(t) \/ LockBudget(t) \/ Read(t) \/ Rollback(t)
        PROVE  Booked' /\ Granted'
    BY <1>1, <1>4 DEF LockProvider, LockRequest, LockBudget, Read, Rollback
  <1>5. ASSUME NEW t \in Tx, NEW k \in Request
        PROVE  /\ \A p \in Provider : BeginReserve(t, k, p) \/ BeginEnsure(t, k, p) => Booked' /\ Granted'
               /\ \A s \in Settlement : BeginSettle(t, k, s) => Booked' /\ Granted'
               /\ \A r \in Releases : BeginRelease(t, k, r) => Booked' /\ Granted'
    BY <1>1 DEF BeginReserve, BeginEnsure, BeginSettle, BeginRelease, Begin
  <1> QED
    BY <1>2, <1>3, <1>4, <1>5 DEF Next, TxStep

\* An existing row keeps its provider and its day.
LEMMA Immutable ==
    ASSUME Inv, NEW t \in Tx, Write(t), NEW k \in Request, status[k] # None
    PROVE  status'[k] # None /\ provider'[k] = provider[k] /\ billDay'[k] = billDay[k]
  <1>1. CASE k # key[t] \/ plan[t] = "nothing"
    BY <1>1, WriteRow DEF OnlyRow, row
  <1>2. CASE k = key[t] /\ plan[t] # "nothing"
    <2>1. billDay[k] # 0
      BY LedgerAssumption DEF Inv, Booked
    <2> QED
      BY <1>2, <2>1, WriteRow
  <1> QED
    BY <1>1, <1>2

LEMMA HintedStep == Inv /\ [Next]_ledgerVars => Hinted'
  <1> SUFFICES ASSUME Inv, [Next]_ledgerVars PROVE Hinted'
    OBVIOUS
  <1>a. TypeOK /\ Hinted /\ Guarded /\ Dated
    BY DEF Inv
  <1>1. CASE Midnight \/ UNCHANGED ledgerVars
    BY <1>a, <1>1 DEF Midnight, ledgerVars, call, row, Hinted
  <1>2. ASSUME NEW t \in Tx, NEW k \in Request, NEW p \in Provider,
               BeginReserve(t, k, p) \/ BeginEnsure(t, k, p)
        PROVE  Hinted'
    BY <1>a, <1>2 DEF BeginReserve, BeginEnsure, Begin, Goto, TypeOK, row, Hinted
  <1>3. ASSUME NEW t \in Tx, NEW k \in Request, NEW s \in Settlement, BeginSettle(t, k, s)
        PROVE  Hinted'
    BY <1>a, <1>3 DEF BeginSettle, Begin, Goto, TypeOK, row, Hinted
  <1>4. ASSUME NEW t \in Tx, NEW k \in Request, NEW r \in Releases, BeginRelease(t, k, r)
        PROVE  Hinted'
    BY <1>a, <1>4 DEF BeginRelease, Begin, Goto, TypeOK, row, Hinted
  <1>5. ASSUME NEW t \in Tx, LockProvider(t) PROVE Hinted'
    BY <1>a, <1>5 DEF LockProvider, Redate, Goto, TypeOK, call, row, Hinted, Dated
  <1>6. ASSUME NEW t \in Tx, LockRequest(t) PROVE Hinted'
    BY <1>a, <1>6 DEF LockRequest, Redate, CandidateDay, Goto, TypeOK, call, row, Hinted, Dated
  <1>7. ASSUME NEW t \in Tx, LockBudget(t) PROVE Hinted'
    BY <1>a, <1>7 DEF LockBudget, Redate, Goto, TypeOK, call, row, Hinted, Dated
  <1>8. ASSUME NEW t \in Tx, Read(t) PROVE Hinted'
    BY <1>a, <1>8 DEF Read, Goto, TypeOK, call, row, Hinted
  <1>9. ASSUME NEW t \in Tx, Rollback(t) PROVE Hinted'
    BY <1>a, <1>9 DEF Rollback, End, Goto, TypeOK, row, Hinted
  <1>10. ASSUME NEW t \in Tx, Write(t) PROVE Hinted'
    <2>1. ASSUME NEW u \in Tx, u # t
          PROVE  /\ pc'[u] = pc[u] /\ op'[u] = op[u] /\ key'[u] = key[u]
                 /\ via'[u] = via[u] /\ day'[u] = day[u] /\ payload'[u] = payload[u]
      BY <1>a, <1>10, <2>1 DEF Write, End, Goto, TypeOK
    <2>2. pc'[t] = "idle"
      BY <1>a, <1>10 DEF Write, End, Goto, TypeOK
    <2>3. ASSUME NEW u \in Tx, u # t, pc[u] # "idle", op[u] # "reserve"
          PROVE  /\ status'[key[u]] # None
                 /\ provider'[key[u]] = provider[key[u]] /\ billDay'[key[u]] = billDay[key[u]]
      <3>1. key[u] \in Request /\ status[key[u]] # None
        BY <1>a, <2>3 DEF Guarded, Hinted
      <3> QED
        BY <1>10, <3>1, Immutable
    <2> QED
      BY <1>a, <2>1, <2>2, <2>3 DEF Hinted
  <1> QED
    BY <1>1, <1>2, <1>3, <1>4, <1>5, <1>6, <1>7, <1>8, <1>9, <1>10 DEF Next, TxStep

\* The local state of a transaction.
Same(u) ==
    /\ pc'[u] = pc[u] /\ op'[u] = op[u] /\ key'[u] = key[u]
    /\ via'[u] = via[u] /\ day'[u] = day[u] /\ plan'[u] = plan[u]

\* A plan stands as long as its reading of the table does.
LEMMA PlanFrame ==
    ASSUME NEW u \in Tx, NEW k \in Request, NEW p \in Provider, NEW d \in Day,
           key[u] = k, via[u] = p, day[u] = d, Same(u), PlanStands(u),
           status'[k] = status[k], Fits(k, d)' = Fits(k, d), CircuitOpen(p, d)' = CircuitOpen(p, d)
    PROVE  PlanStands(u)'
  <1>1. key'[u] = k /\ via'[u] = p /\ day'[u] = d
    BY DEF Same
  <1>2. Fits(key[u], day[u])' = Fits(key[u], day[u])
    BY <1>1
  <1>3. CircuitOpen(via[u], day[u])' = CircuitOpen(via[u], day[u])
    BY <1>1
  <1> QED
    BY <1>1, <1>2, <1>3 DEF PlanStands, Same

\* The write of one transaction does not disturb the plan of another.
LEMMA Undisturbed ==
    ASSUME Inv, NEW t \in Tx, Write(t), NEW u \in Tx, u # t, pc[u] = "write"
    PROVE  PlanStands(u)'
  <1>1. PICK k \in Request, p \in Provider, d \in Day : key[u] = k /\ via[u] = p /\ day[u] = d
    BY DEF Inv, Guarded, TypeOK
  <1>2. Same(u)
    BY DEF Inv, TypeOK, Write, End, Goto, Same
  <1>3. PlanStands(u)
    BY DEF Inv, Planned
  <1>4. CASE plan[t] = "nothing"
    <2>1. UNCHANGED row
      BY <1>4, WriteRow
    <2>2. Fits(k, d)' = Fits(k, d) /\ CircuitOpen(p, d)' = CircuitOpen(p, d)
      BY <2>1, TableFrame
    <2>3. status'[k] = status[k]
      BY <2>1 DEF row
    <2> QED
      BY <1>1, <1>2, <1>3, <2>2, <2>3, PlanFrame
  <1>5. CASE plan[t] # "nothing"
    <2>1. PICK j \in Request : key[t] = j
      BY WriteRow
    <2>2. /\ <<"provider", via[t]>> \in held[t] /\ <<"request", j>> \in held[t]
          /\ <<"budget", day[t]>> \in held[t]
      BY <2>1 DEF Inv, Guarded, Write
    <2>3. <<"provider", p>> \in held[u] /\ <<"request", k>> \in held[u] /\ <<"budget", d>> \in held[u]
      BY <1>1 DEF Inv, Guarded
    <2>4. via[t] # p /\ j # k /\ day[t] # d
      BY <2>2, <2>3 DEF Inv, Exclusive
    <2>5. OnlyRow(j)
      BY <1>5, <2>1, WriteRow
    <2>6. billDay[j] # d /\ billDay'[j] # d
      BY <1>5, <2>1, <2>4, WriteRow, LedgerAssumption
    <2>7. (status[j] = "failed" => provider[j] # p) /\ provider'[j] # p
      BY <1>5, <2>1, <2>4, WriteRow DEF None
    <2>8. Exposure(d)' = Exposure(d) /\ \A a \in Agent : AgentExposure(d, a)' = AgentExposure(d, a)
      BY <2>5, <2>6, ExposureFrame
    <2>9. AgentExposure(d, AgentOf[k])' = AgentExposure(d, AgentOf[k])
      BY <2>8, LedgerAssumption
    <2>10. Fits(k, d)' = Fits(k, d)
      BY <2>8, <2>9 DEF Fits
    <2>11. CircuitOpen(p, d)' = CircuitOpen(p, d)
      BY <2>5, <2>7, CircuitFrame
    <2>12. status'[k] = status[k]
      BY <2>4, <2>5 DEF OnlyRow
    <2> QED
      BY <1>1, <1>2, <1>3, <2>10, <2>11, <2>12, PlanFrame
  <1> QED
    BY <1>4, <1>5

LEMMA PlannedStep == Inv /\ [Next]_ledgerVars => Planned'
  <1> SUFFICES ASSUME Inv, [Next]_ledgerVars PROVE Planned'
    OBVIOUS
  <1>a. TypeOK /\ Planned /\ Guarded
    BY DEF Inv
  <1>1. ASSUME UNCHANGED row, NEW u \in Tx, pc[u] = "write", Same(u) PROVE PlanStands(u)'
    <2>1. PICK k \in Request, p \in Provider, d \in Day : key[u] = k /\ via[u] = p /\ day[u] = d
      BY <1>a, <1>1 DEF Guarded, TypeOK
    <2>2. Fits(k, d)' = Fits(k, d) /\ CircuitOpen(p, d)' = CircuitOpen(p, d)
      BY <1>1, TableFrame
    <2>3. status'[k] = status[k] /\ PlanStands(u)
      BY <1>a, <1>1 DEF row, Planned
    <2> QED
      BY <1>1, <2>1, <2>2, <2>3, PlanFrame
  <1>2. CASE Midnight \/ UNCHANGED ledgerVars
    <2>1. UNCHANGED row /\ UNCHANGED pc /\ \A u \in Tx : Same(u)
      BY <1>2 DEF Midnight, ledgerVars, call, Same
    <2> QED
      BY <1>1, <2>1 DEF Planned
  <1>3. ASSUME NEW t \in Tx, UNCHANGED row, pc'[t] # "write", \A u \in Tx \ {t} : Same(u)
        PROVE  Planned'
    <2> SUFFICES ASSUME NEW u \in Tx, pc'[u] = "write" PROVE PlanStands(u)'
      BY DEF Planned
    <2> QED
      BY <1>1, <1>3 DEF Same
  <1>4. ASSUME NEW t \in Tx, NEW k \in Request
        PROVE  /\ \A p \in Provider : BeginReserve(t, k, p) \/ BeginEnsure(t, k, p) => Planned'
               /\ \A s \in Settlement : BeginSettle(t, k, s) => Planned'
               /\ \A r \in Releases : BeginRelease(t, k, r) => Planned'
    <2>1. ASSUME NEW o, NEW p, NEW s, NEW b, Begin(t, o, k, p, s, b) PROVE Planned'
      <3>1. UNCHANGED row /\ pc'[t] # "write" /\ \A u \in Tx \ {t} : Same(u)
        BY <1>a, <2>1 DEF Begin, Goto, TypeOK, Same
      <3> QED
        BY <1>3, <3>1
    <2> QED
      BY <2>1 DEF BeginReserve, BeginEnsure, BeginSettle, BeginRelease
  <1>5. ASSUME NEW t \in Tx, LockProvider(t) PROVE Planned'
    <2>1. UNCHANGED row /\ pc'[t] # "write" /\ \A u \in Tx \ {t} : Same(u)
      BY <1>a, <1>5 DEF LockProvider, Redate, Goto, TypeOK, call, Same
    <2> QED
      BY <1>3, <2>1
  <1>6. ASSUME NEW t \in Tx, LockRequest(t) PROVE Planned'
    <2>1. UNCHANGED row /\ pc'[t] # "write" /\ \A u \in Tx \ {t} : Same(u)
      BY <1>a, <1>6 DEF LockRequest, Redate, CandidateDay, Goto, TypeOK, call, Same
    <2> QED
      BY <1>3, <2>1
  <1>7. ASSUME NEW t \in Tx, LockBudget(t) PROVE Planned'
    <2>1. UNCHANGED row /\ pc'[t] # "write" /\ \A u \in Tx \ {t} : Same(u)
      BY <1>a, <1>7 DEF LockBudget, Redate, Goto, TypeOK, call, Same
    <2> QED
      BY <1>3, <2>1
  <1>8. ASSUME NEW t \in Tx, Rollback(t) PROVE Planned'
    <2>1. UNCHANGED row /\ pc'[t] # "write" /\ \A u \in Tx \ {t} : Same(u)
      BY <1>a, <1>8 DEF Rollback, End, Goto, TypeOK, Same
    <2> QED
      BY <1>3, <2>1
  <1>9. ASSUME NEW t \in Tx, Read(t) PROVE Planned'
    <2>1. UNCHANGED row /\ \A u \in Tx \ {t} : Same(u)
      BY <1>a, <1>9 DEF Read, Goto, TypeOK, call, Same
    <2>2. PICK k \in Request, p \in Provider, d \in Day : key[t] = k /\ via[t] = p /\ day[t] = d
      BY <1>a, <1>9 DEF Read, Guarded, TypeOK
    <2>3. Fits(k, d)' = Fits(k, d) /\ CircuitOpen(p, d)' = CircuitOpen(p, d)
      BY <2>1, TableFrame
    <2>4. PlanStands(t)'
      <3>1. /\ op'[t] = op[t] /\ key'[t] = k /\ via'[t] = p /\ day'[t] = d /\ status'[k] = status[k]
            /\ IF op[t] = "reserve" THEN ReservePlan(t, plan'[t]) ELSE ClosePlan(t, plan'[t])
        BY <1>a, <1>9, <2>2 DEF Read, TypeOK, call, row
      <3>2. op[t] \in {"reserve", "settle", "release"}
        BY <1>a DEF TypeOK
      <3>3. plan'[t] = "admit" => Fits(k, d)' /\ ~CircuitOpen(p, d)'
        BY <2>2, <2>3, <3>1, <3>2 DEF ReservePlan, ClosePlan
      <3>4. plan'[t] = "admit" => Fits(key[t], day[t])' /\ ~CircuitOpen(via[t], day[t])'
        BY <3>1, <3>3
      <3> QED
        BY <2>2, <3>1, <3>2, <3>4 DEF PlanStands, ReservePlan, ClosePlan
    <2> QED
      BY <1>1, <2>1, <2>4 DEF Planned, Same
  <1>10. ASSUME NEW t \in Tx, Write(t) PROVE Planned'
    <2>1. pc'[t] = "idle" /\ \A u \in Tx \ {t} : pc'[u] = pc[u]
      BY <1>a, <1>10 DEF Write, End, Goto, TypeOK
    <2> QED
      BY <1>10, <2>1, Undisturbed DEF Planned
  <1> QED
    BY <1>2, <1>4, <1>5, <1>6, <1>7, <1>8, <1>9, <1>10 DEF Next, TxStep

\* Looking a key up for a day gives the key of that day.
LEMMA RedateDated ==
    ASSUME TypeOK, Guarded, Dated, NEW t \in Tx, pc[t] # "idle", dated[t], Redate(t), UNCHANGED status,
           \A u \in Tx \ {t} : pc'[u] = pc[u]
    PROVE  Dated'
  <1>1. key[t] \in Request /\ today \in Day
    BY DEF TypeOK, Guarded
  <1>2. KeyOn[KeyOn[key[t]][today]][today] = KeyOn[key[t]][today]
    BY <1>1, LlmLedgerAssumption
  <1>3. key'[t] = KeyOn[key[t]][today] /\ day'[t] = today
    BY DEF TypeOK, Redate
  <1>4. \A u \in Tx \ {t} : key'[u] = key[u] /\ day'[u] = day[u]
    BY DEF TypeOK, Redate
  <1>5. UNCHANGED <<op, dated>>
    BY DEF Redate
  <1> QED
    BY <1>2, <1>3, <1>4, <1>5 DEF Dated, Undated

LEMMA DatedStep == Inv /\ [Next]_ledgerVars => Dated'
  <1> SUFFICES ASSUME Inv, [Next]_ledgerVars PROVE Dated'
    OBVIOUS
  <1>a. TypeOK /\ Dated /\ Guarded
    BY DEF Inv
  <1>1. CASE Midnight \/ UNCHANGED ledgerVars
    BY <1>a, <1>1 DEF Midnight, ledgerVars, call, row, Dated, Undated
  <1>2. ASSUME NEW t \in Tx, NEW k \in Request
        PROVE  /\ \A p \in Provider : BeginReserve(t, k, p) \/ BeginEnsure(t, k, p) => Dated'
               /\ \A s \in Settlement : BeginSettle(t, k, s) => Dated'
               /\ \A r \in Releases : BeginRelease(t, k, r) => Dated'
    <2>1. ASSUME NEW o, NEW p, NEW s, NEW b \in BOOLEAN, Begin(t, o, k, p, s, b),
                 b => o = "reserve", o = "reserve" /\ ~b => Undated(k) \/ status[k] # None
          PROVE  Dated'
      BY <1>a, <2>1 DEF Begin, Goto, TypeOK, row, Dated, Undated
    <2> QED
      BY <2>1 DEF BeginReserve, BeginEnsure, BeginSettle, BeginRelease
  <1>3. ASSUME NEW t \in Tx, LockProvider(t) PROVE Dated'
    <2>1. CASE dated[t]
      BY <1>a, <1>3, <2>1, RedateDated DEF LockProvider, Goto, TypeOK, row
    <2>2. CASE ~dated[t]
      BY <1>a, <1>3, <2>2 DEF LockProvider, Goto, TypeOK, row, call, Dated, Undated
    <2> QED
      BY <2>1, <2>2
  <1>4. ASSUME NEW t \in Tx, LockRequest(t) PROVE Dated'
    <2>1. CASE dated[t] /\ day[t] # today
      BY <1>a, <1>4, <2>1, RedateDated DEF LockRequest, row
    <2>2. CASE ~(dated[t] /\ day[t] # today)
      BY <1>a, <1>4, <2>2 DEF LockRequest, CandidateDay, Goto, TypeOK, row, call, Dated, Undated
    <2> QED
      BY <2>1, <2>2
  <1>5. ASSUME NEW t \in Tx, LockBudget(t) PROVE Dated'
    <2>1. CASE Redate(t) /\ dated[t]
      BY <1>a, <1>5, <2>1, RedateDated DEF LockBudget, Goto, TypeOK, row
    <2>2. CASE ~(Redate(t) /\ dated[t])
      BY <1>a, <1>5, <2>2 DEF LockBudget, Goto, TypeOK, row, call, Dated, Undated
    <2> QED
      BY <2>1, <2>2
  <1>6. ASSUME NEW t \in Tx, Read(t) PROVE Dated'
    BY <1>a, <1>6 DEF Read, Goto, TypeOK, row, call, Dated, Undated
  <1>7. ASSUME NEW t \in Tx, Rollback(t) PROVE Dated'
    BY <1>a, <1>7 DEF Rollback, End, Goto, TypeOK, row, Dated, Undated
  <1>8. ASSUME NEW t \in Tx, Write(t) PROVE Dated'
    <2>1. ASSUME NEW u \in Tx, u # t
          PROVE  /\ pc'[u] = pc[u] /\ op'[u] = op[u] /\ key'[u] = key[u]
                 /\ day'[u] = day[u] /\ dated'[u] = dated[u]
      BY <1>a, <1>8, <2>1 DEF Write, End, Goto, TypeOK
    <2>2. pc'[t] = "idle" /\ ~dated'[t]
      BY <1>a, <1>8 DEF Write, End, Goto, TypeOK
    <2>3. ASSUME NEW u \in Tx, pc[u] # "idle", status[key[u]] # None PROVE status'[key[u]] # None
      BY <1>a, <1>8, <2>3, Immutable DEF Guarded
    <2> QED
      BY <1>a, <2>1, <2>2, <2>3 DEF Dated, Undated
  <1> QED
    BY <1>1, <1>2, <1>3, <1>4, <1>5, <1>6, <1>7, <1>8 DEF Next, TxStep

\* A row is inserted under a key of the day it is booked on.
LEMMA KeyStep == Inv /\ [Next]_ledgerVars => KeyOfItsDay'
  <1> SUFFICES ASSUME Inv, [Next]_ledgerVars PROVE KeyOfItsDay'
    OBVIOUS
  <1>1. ASSUME UNCHANGED row PROVE KeyOfItsDay'
    BY <1>1 DEF Inv, KeyOfItsDay, row
  <1>2. ASSUME NEW t \in Tx, Write(t) PROVE KeyOfItsDay'
    <2> SUFFICES ASSUME NEW k \in Request, status'[k] # None PROVE KeyOn[k][billDay'[k]] = k
      BY DEF KeyOfItsDay
    <2>1. CASE status[k] # None
      BY <1>2, <2>1, Immutable DEF Inv, KeyOfItsDay
    <2>2. CASE status[k] = None
      <3>1. k = key[t] /\ plan[t] # "nothing"
        BY <1>2, <2>2, WriteRow DEF OnlyRow, row
      <3>2. plan[t] \in {"admit", "deny"} /\ op[t] = "reserve"
        BY <1>2, <2>2, <3>1 DEF Inv, TypeOK, Plan, Planned, PlanStands, Write, None
      <3>3. day[t] \in Day /\ billDay'[k] = day[t]
        BY <1>2, <3>1, WriteRow DEF Inv, TypeOK
      <3> QED
        BY <1>2, <2>2, <3>1, <3>2, <3>3 DEF Inv, TypeOK, Dated, Undated, Write
    <2> QED
      BY <2>1, <2>2
  <1>3. CASE Midnight \/ UNCHANGED ledgerVars
    BY <1>1, <1>3 DEF Midnight, ledgerVars
  <1>4. ASSUME NEW t \in Tx, LockProvider(t) \/ LockRequest(t) \/ LockBudget(t) \/ Read(t) \/ Rollback(t)
        PROVE  KeyOfItsDay'
    BY <1>1, <1>4 DEF LockProvider, LockRequest, LockBudget, Read, Rollback
  <1>5. ASSUME NEW t \in Tx, NEW k \in Request
        PROVE  /\ \A p \in Provider : BeginReserve(t, k, p) \/ BeginEnsure(t, k, p) => KeyOfItsDay'
               /\ \A s \in Settlement : BeginSettle(t, k, s) => KeyOfItsDay'
               /\ \A r \in Releases : BeginRelease(t, k, r) => KeyOfItsDay'
    BY <1>1 DEF BeginReserve, BeginEnsure, BeginSettle, BeginRelease, Begin
  <1> QED
    BY <1>2, <1>3, <1>4, <1>5 DEF Next, TxStep

-----------------------------------------------------------------------------
(* The theorems *)

LEMMA Invariance == Spec => []Inv
  <1>1. Inv /\ [Next]_ledgerVars => Inv'
    BY TypeStep, ExclusiveStep, GuardedStep, BookedStep, HintedStep, PlannedStep,
       DatedStep, KeyStep DEF Inv
  <1> QED
    BY InitInv, <1>1, PTL DEF Spec

\* The transactions of LlmLedgerService keep their types.
THEOREM LedgerTyped == Spec => []TypeOK
  <1>1. Inv => TypeOK
    BY DEF Inv
  <1> QED
    BY Invariance, <1>1, PTL

\* Whatever repeats, races, rollbacks and midnights there are, reserveInTx
\* permits a provider call for one request key at most once, and books the key
\* of a job's day on that day.
THEOREM GrantOnce == Spec => []KeysHonoured
  <1>1. Inv => KeysHonoured
    BY DEF Inv, Granted, TypeOK, SingleGrant, KeysHonoured
  <1> QED
    BY Invariance, <1>1, PTL

\* What a write does to the table is one step of the atomic ledger.
LEMMA WriteRefines ==
    ASSUME Inv, NEW t \in Tx, Write(t)
    PROVE  BudgetNext \/ UNCHANGED row
  <1>1. key[t] \in Request /\ via[t] \in Provider /\ day[t] \in Day /\ at[t] \in Day
    BY DEF Inv, Guarded, TypeOK, Write
  <1>2. PlanStands(t)
    BY DEF Inv, Planned, Write
  <1>3. CASE plan[t] = "admit"
    <2>1. Admit(key[t], via[t], day[t])
      BY <1>2, <1>3 DEF Write, PlanStands, Admit
    <2> QED
      BY <1>1, <2>1 DEF BudgetNext
  <1>4. CASE plan[t] = "deny"
    <2>1. Deny(key[t], via[t], day[t])
      BY <1>2, <1>4 DEF Write, PlanStands, Deny
    <2> QED
      BY <1>1, <2>1 DEF BudgetNext
  <1>5. CASE plan[t] = "settle"
    <2>1. Settle(key[t], payload[t], at[t]) /\ payload[t] \in Settlement
      BY <1>2, <1>5 DEF Write, PlanStands, Settle, Inv, Hinted
    <2> QED
      BY <1>1, <2>1 DEF BudgetNext
  <1>6. CASE plan[t] = "release"
    <2>1. Release(key[t], payload[t]) /\ payload[t] \in Releases
      BY <1>2, <1>6 DEF Write, PlanStands, Release, Inv, Hinted
    <2> QED
      BY <1>1, <2>1 DEF BudgetNext
  <1> QED
    BY <1>3, <1>4, <1>5, <1>6 DEF Write

LEMMA StepRefines == Inv /\ [Next]_ledgerVars => [BudgetNext]_row
  <1> SUFFICES ASSUME Inv, [Next]_ledgerVars PROVE BudgetNext \/ UNCHANGED row
    OBVIOUS
  <1>1. CASE Midnight \/ UNCHANGED ledgerVars
    BY <1>1 DEF Midnight, ledgerVars
  <1>2. ASSUME NEW t \in Tx, LockProvider(t) \/ LockRequest(t) \/ LockBudget(t) \/ Read(t) \/ Rollback(t)
        PROVE  UNCHANGED row
    BY <1>2 DEF LockProvider, LockRequest, LockBudget, Read, Rollback
  <1>3. ASSUME NEW t \in Tx, NEW k \in Request
        PROVE  /\ \A p \in Provider : BeginReserve(t, k, p) \/ BeginEnsure(t, k, p) => UNCHANGED row
               /\ \A s \in Settlement : BeginSettle(t, k, s) => UNCHANGED row
               /\ \A r \in Releases : BeginRelease(t, k, r) => UNCHANGED row
    BY DEF BeginReserve, BeginEnsure, BeginSettle, BeginRelease, Begin
  <1> QED
    BY <1>1, <1>2, <1>3, WriteRefines DEF Next, TxStep

\* The concurrent transactions implement the atomic ledger: every reservation
\* fits the caps and an unbroken circuit at the moment it is written, and every
\* row is closed once.
THEOREM Serialisable == Spec => ImplementsBudget
  <1>1. Init => EmptyTable
    BY DEF Init
  <1> QED
    BY Invariance, StepRefines, <1>1, PTL DEF Spec, ImplementsBudget, BudgetSpec

\* A row that becomes reserved has been admitted.
LEMMA Admitted ==
    ASSUME Inv, [Next]_ledgerVars, NEW k \in Request, NEW d \in Day,
           status[k] = None, status'[k] = "reserved", billDay'[k] = d
    PROVE  \E p \in Provider : provider'[k] = p /\ Admit(k, p, d)
  <1>1. RowType
    BY DEF Inv, TypeOK
  <1>2. BudgetNext
    BY StepRefines DEF row, None
  <1>3. PICK j \in Request :
           \/ \E q \in Provider, e \in Day : Admit(j, q, e) \/ Deny(j, q, e)
           \/ \E s \in Settlement, e \in Day : Settle(j, s, e)
           \/ \E reason \in Releases : Release(j, reason)
    BY <1>2 DEF BudgetNext
  <1>4. CASE \E s \in Settlement, e \in Day : Settle(j, s, e)
    BY <1>1, <1>4 DEF Settle, WriteSettlement, RowType, None
  <1>5. CASE \E reason \in Releases : Release(j, reason)
    BY <1>1, <1>5 DEF Release, WriteRelease, RowType, None
  <1>6. CASE \E q \in Provider, e \in Day : Deny(j, q, e)
    BY <1>1, <1>6 DEF Deny, InsertRow, RowType, None
  <1>7. ASSUME NEW q \in Provider, NEW e \in Day, Admit(j, q, e)
        PROVE  j = k /\ provider'[k] = q /\ d = e
    <2>1. j = k
      BY <1>1, <1>7 DEF Admit, InsertRow, RowType, None
    <2> QED
      BY <1>1, <1>7, <2>1 DEF Admit, InsertRow, RowType
  <1> QED
    BY <1>3, <1>4, <1>5, <1>6, <1>7

\* A reserve that was already under way when a settlement opened the circuit
\* of its provider is not admitted on that day.
THEOREM CircuitKept == Spec => CircuitHonoured
  <1> DEFINE Kept ==
        \A k \in Request, p \in Provider, d \in Day :
          status[k] = None /\ status'[k] = "reserved" /\ provider'[k] = p /\ billDay'[k] = d =>
             ~CircuitOpen(p, d)
  <1>1. Inv /\ [Next]_ledgerVars => [Kept]_ledgerVars
    BY Admitted DEF Admit
  <1> QED
    BY Invariance, <1>1, PTL DEF Spec, CircuitHonoured

-----------------------------------------------------------------------------
(* Sums *)

\* The exposure of a day is a sum over its rows.  SumFunction picks the rows
\* one after another; these lemmas show by induction that it gives a number,
\* in whatever order it picks, and grows by the value of a row that is added.

\* The element that is picked first.
Pick(s) == CHOOSE x \in s : TRUE

\* g gives the sum of f over every subset of D.
Adds(g, D, f) == g = [s \in SUBSET D |-> IF s = {} THEN 0 ELSE f[Pick(s)] + g[s \ {Pick(s)}]]

SumsUp(g, D, f) == /\ IsFiniteSet(D) /\ f \in [D -> Nat]
                   /\ g \in [SUBSET D -> Nat] /\ Adds(g, D, f)

\* What SumFunction stands for.
LEMMA SumDef ==
  ASSUME NEW f
  PROVE SumFunction(f) = (CHOOSE g : Adds(g, DOMAIN f, f))[DOMAIN f]
  BY DEF SumFunction, SumFunctionOnSet, FoldFunctionOnSet, MapThenFoldSet, Adds, Pick

\* A set of natural numbers has a least one.
LEMMA Least == ASSUME NEW T \in SUBSET Nat, T # {} PROVE \E n \in T : \A m \in T : n <= m
  <1> DEFINE Less == {ss \in Nat \X Nat : ss[1] < ss[2]}
  <1>1. OpToRel(<, Nat) = Less
    BY DEF OpToRel
  <1>2. IsWellFoundedOn(Less, Nat)
    BY <1>1, NatLessThanWellFounded
  <1> HIDE DEF Less
  <1>3. PICK n \in T : \A m \in T : <<m, n>> \notin Less
    BY <1>2, WFMin
  <1>4. \A m \in T : ~(m < n)
    BY <1>3 DEF Less
  <1> QED
    BY <1>4

\* The induction that follows from it.
LEMMA NatInd ==
  ASSUME NEW T \in SUBSET Nat, 0 \in T, \A n \in T : n + 1 \in T
  PROVE  T = Nat
  <1> SUFFICES ASSUME T # Nat PROVE FALSE
    OBVIOUS
  <1>1. PICK n \in Nat \ T : \A m \in Nat \ T : n <= m
    BY Least
  <1>2. n # 0 /\ n - 1 \in Nat
    BY <1>1
  <1>3. n - 1 \in T
    BY <1>1, <1>2
  <1>4. (n - 1) + 1 = n
    BY <1>1
  <1> QED
    BY <1>1, <1>3, <1>4

\* Of a set that is not empty, something is picked, and less is left.
LEMMA Picked ==
  ASSUME NEW D, IsFiniteSet(D), NEW s \in SUBSET D, s # {}
  PROVE  /\ Pick(s) \in s /\ s \ {Pick(s)} \in SUBSET D
         /\ Cardinality(s) \in Nat /\ Cardinality(s) # 0
         /\ \A x \in s : Cardinality(s \ {x}) = Cardinality(s) - 1
  <1>1. Pick(s) \in s
    BY DEF Pick
  <1>2. IsFiniteSet(s)
    BY FS_Subset
  <1>3. Cardinality(s) \in Nat /\ Cardinality(s) # 0
    BY <1>2, FS_CardinalityType, FS_EmptySet
  <1>4. \A x \in s : Cardinality(s \ {x}) = Cardinality(s) - 1
    BY <1>2, FS_RemoveElement
  <1> QED
    BY <1>1, <1>3, <1>4

\* There is a sum for every finite set.
LEMMA SumExists ==
  ASSUME NEW D, IsFiniteSet(D), NEW f \in [D -> Nat]
  PROVE  \E g \in [SUBSET D -> Nat] : Adds(g, D, f)
  <1> DEFINE Val(g, s) == IF s = {} THEN 0 ELSE f[Pick(s)] + g[s \ {Pick(s)}]
             Upto == {n \in Nat : \E g \in [SUBSET D -> Nat] :
                          \A s \in SUBSET D : Cardinality(s) <= n => g[s] = Val(g, s)}
  <1>c. \A s \in SUBSET D : Cardinality(s) \in Nat /\ (Cardinality(s) = 0 => s = {})
    BY FS_Subset, FS_CardinalityType, FS_EmptySet
  <1>v. \A g \in [SUBSET D -> Nat], s \in SUBSET D : Val(g, s) \in Nat
    BY Picked
  <1>1. 0 \in Upto
    <2> DEFINE g == [s \in SUBSET D |-> 0]
    <2>1. g \in [SUBSET D -> Nat]
      OBVIOUS
    <2>2. \A s \in SUBSET D : Cardinality(s) <= 0 => g[s] = Val(g, s)
      BY <1>c
    <2> QED
      BY <2>1, <2>2
  <1>2. ASSUME NEW n \in Upto PROVE n + 1 \in Upto
    <2>1. PICK g \in [SUBSET D -> Nat] : \A s \in SUBSET D : Cardinality(s) <= n => g[s] = Val(g, s)
      BY <1>2
    <2> DEFINE h == [s \in SUBSET D |-> IF Cardinality(s) = n + 1 THEN Val(g, s) ELSE g[s]]
    <2>2. h \in [SUBSET D -> Nat]
      <3> HIDE DEF Val
      <3> QED
        BY <1>v
    <2>3. ASSUME NEW s \in SUBSET D, Cardinality(s) <= n + 1 PROVE h[s] = Val(h, s)
      <3>1. Val(h, s) = Val(g, s)
        <4>1. CASE s = {}
          BY <4>1
        <4>2. CASE s # {}
          <5>1. Pick(s) \in s /\ s \ {Pick(s)} \in SUBSET D
                /\ Cardinality(s \ {Pick(s)}) = Cardinality(s) - 1
            BY <4>2, Picked
          <5>2. Cardinality(s \ {Pick(s)}) # n + 1
            BY <1>c, <2>3, <5>1
          <5>3. h[s \ {Pick(s)}] = g[s \ {Pick(s)}]
            BY <5>1, <5>2
          <5> HIDE DEF h
          <5> QED
            BY <4>2, <5>3
        <4> QED
          BY <4>1, <4>2
      <3>2. h[s] = Val(g, s)
        <4>1. CASE Cardinality(s) = n + 1
          <5> HIDE DEF Val
          <5> QED
            BY <4>1
        <4>2. CASE Cardinality(s) # n + 1
          <5> HIDE DEF Val
          <5>1. Cardinality(s) <= n
            BY <1>c, <2>3, <4>2
          <5> QED
            BY <2>1, <4>2, <5>1
        <4> QED
          BY <4>1, <4>2
      <3> QED
        BY <3>1, <3>2
    <2> HIDE DEF h
    <2>4. n + 1 \in Nat
      BY <1>2
    <2> QED
      BY <2>2, <2>3, <2>4
  <1>3. Upto = Nat
    <2> HIDE DEF Upto
    <2>1. Upto \in SUBSET Nat
      BY DEF Upto
    <2> QED
      BY <1>1, <1>2, <2>1, NatInd
  <1>4. Cardinality(D) \in Upto
    <2> HIDE DEF Upto
    <2> QED
      BY <1>3, FS_CardinalityType
  <1>5. PICK g \in [SUBSET D -> Nat] : \A s \in SUBSET D : Cardinality(s) <= Cardinality(D) => g[s] = Val(g, s)
    BY <1>4
  <1>6. \A s \in SUBSET D : g[s] = Val(g, s)
    <2> HIDE DEF Val
    <2> QED
      BY <1>5, FS_Subset
  <1>7. g = [s \in SUBSET D |-> Val(g, s)]
    <2> HIDE DEF Val
    <2> QED
      BY <1>6
  <1> QED
    BY <1>7 DEF Adds

\* And on every finite set it is a number.
LEMMA SumOf ==
  ASSUME NEW D, IsFiniteSet(D), NEW f \in [D -> Nat]
  PROVE  \E g : SumsUp(g, D, f) /\ SumFunction(f) = g[D]
  <1> DEFINE g == CHOOSE h : Adds(h, D, f)
  <1>1. Adds(g, D, f)
    BY SumExists
  <1>2. SumFunction(f) = g[D]
    BY SumDef
  <1> HIDE DEF g
  <1> DEFINE Good == {n \in Nat : \A s \in SUBSET D : Cardinality(s) = n => g[s] \in Nat}
  <1>3. \A s \in SUBSET D : g[s] = IF s = {} THEN 0 ELSE f[Pick(s)] + g[s \ {Pick(s)}]
    BY <1>1 DEF Adds
  <1>c. \A s \in SUBSET D : Cardinality(s) \in Nat /\ (Cardinality(s) = 0 => s = {})
    BY FS_Subset, FS_CardinalityType, FS_EmptySet
  <1>4. 0 \in Good
    BY <1>3, <1>c
  <1>5. ASSUME NEW n \in Good PROVE n + 1 \in Good
    <2> SUFFICES ASSUME NEW s \in SUBSET D, Cardinality(s) = n + 1 PROVE g[s] \in Nat
      BY <1>5
    <2>1. s # {}
      BY <1>5, FS_EmptySet
    <2>2. Pick(s) \in s /\ s \ {Pick(s)} \in SUBSET D /\ Cardinality(s \ {Pick(s)}) = n
      BY <1>5, <2>1, Picked
    <2>3. g[s \ {Pick(s)}] \in Nat
      BY <1>5, <2>2
    <2> QED
      BY <1>3, <2>1, <2>2, <2>3
  <1>6. Good = Nat
    <2> HIDE DEF Good
    <2>1. Good \in SUBSET Nat
      BY DEF Good
    <2> QED
      BY <1>4, <1>5, <2>1, NatInd
  <1>7. \A s \in SUBSET D : g[s] \in Nat
    BY <1>6, <1>c
  <1>8. g \in [SUBSET D -> Nat]
    BY <1>1, <1>7 DEF Adds
  <1>9. SumsUp(g, D, f)
    BY <1>1, <1>8 DEF SumsUp
  <1> QED
    BY <1>2, <1>9

\* The order of adding does not matter.
LEMMA AnyOrder ==
  ASSUME NEW D, NEW f, NEW g, SumsUp(g, D, f), NEW s \in SUBSET D, NEW k \in s
  PROVE  g[s] = f[k] + g[s \ {k}]
  <1>0. IsFiniteSet(D) /\ f \in [D -> Nat] /\ g \in [SUBSET D -> Nat] /\ Adds(g, D, f)
    BY DEF SumsUp
  <1> DEFINE Good == {n \in Nat : \A t \in SUBSET D : Cardinality(t) = n =>
                         \A x \in t : g[t] = f[x] + g[t \ {x}]}
  <1>3. \A t \in SUBSET D : t # {} => g[t] = f[Pick(t)] + g[t \ {Pick(t)}]
    BY <1>0 DEF Adds
  <1>c. \A t \in SUBSET D : Cardinality(t) \in Nat /\ (Cardinality(t) = 0 => t = {})
    BY <1>0, FS_Subset, FS_CardinalityType, FS_EmptySet
  <1>4. 0 \in Good
    BY <1>c
  <1>5. ASSUME NEW n \in Good PROVE n + 1 \in Good
    <2> SUFFICES ASSUME NEW t \in SUBSET D, Cardinality(t) = n + 1, NEW x \in t
                 PROVE  g[t] = f[x] + g[t \ {x}]
      <3>1. n + 1 \in Nat
        BY <1>5
      <3> QED
        BY <3>1, Zenon
    <2> DEFINE y == Pick(t)
    <2>1. /\ y \in t /\ \A z \in t : t \ {z} \in SUBSET D /\ Cardinality(t \ {z}) = n
      BY <1>0, <1>5, Picked
    <2>2. g[t] = f[y] + g[t \ {y}]
      BY <1>3
    <2> HIDE DEF y
    <2>3. CASE x = y
      BY <2>2, <2>3
    <2>4. CASE x # y
      <3>1. x \in t \ {y} /\ y \in t \ {x}
        BY <2>1, <2>4
      <3>2. g[t \ {y}] = f[x] + g[(t \ {y}) \ {x}]
        BY <1>5, <2>1, <3>1
      <3>3. g[t \ {x}] = f[y] + g[(t \ {x}) \ {y}]
        BY <1>5, <2>1, <3>1
      <3>4. (t \ {y}) \ {x} = (t \ {x}) \ {y} /\ (t \ {y}) \ {x} \in SUBSET D
        OBVIOUS
      <3>5. f[x] \in Nat /\ f[y] \in Nat /\ g[(t \ {y}) \ {x}] \in Nat
        BY <1>0, <2>1, <3>4
      <3>6. PICK r \in Nat : r = g[(t \ {y}) \ {x}] /\ r = g[(t \ {x}) \ {y}]
        BY <3>4, <3>5, Zenon
      <3>7. g[t \ {y}] = f[x] + r /\ g[t \ {x}] = f[y] + r
        BY <3>2, <3>3, <3>6, Zenon
      <3> QED
        BY <2>2, <3>5, <3>6, <3>7
    <2> QED
      BY <2>3, <2>4
  <1>6. Good = Nat
    <2> HIDE DEF Good
    <2>1. Good \in SUBSET Nat
      BY DEF Good
    <2> QED
      BY <1>4, <1>5, <2>1, NatInd
  <1> QED
    BY <1>6, <1>c

\* Functions that agree have the same sum.
LEMMA SameSum ==
  ASSUME NEW D, NEW C \in SUBSET D, NEW f, NEW g, SumsUp(g, D, f), NEW e, NEW h, SumsUp(h, C, e),
         \A x \in C : e[x] = f[x]
  PROVE  h[C] = g[C]
  <1>0. /\ IsFiniteSet(D) /\ f \in [D -> Nat] /\ g \in [SUBSET D -> Nat] /\ Adds(g, D, f)
        /\ e \in [C -> Nat] /\ h \in [SUBSET C -> Nat] /\ Adds(h, C, e)
    BY DEF SumsUp
  <1> DEFINE Good == {n \in Nat : \A s \in SUBSET C : Cardinality(s) = n => h[s] = g[s]}
  <1>1. \A s \in SUBSET C : s \in SUBSET D
    OBVIOUS
  <1>2. \A s \in SUBSET C : g[s] = IF s = {} THEN 0 ELSE f[Pick(s)] + g[s \ {Pick(s)}]
    BY <1>0, <1>1 DEF Adds
  <1>3. \A s \in SUBSET C : h[s] = IF s = {} THEN 0 ELSE e[Pick(s)] + h[s \ {Pick(s)}]
    BY <1>0 DEF Adds
  <1>c. \A s \in SUBSET C : Cardinality(s) \in Nat /\ (Cardinality(s) = 0 => s = {})
    BY <1>0, <1>1, FS_Subset, FS_CardinalityType, FS_EmptySet
  <1>4. 0 \in Good
    BY <1>2, <1>3, <1>c
  <1>5. ASSUME NEW n \in Good PROVE n + 1 \in Good
    <2> SUFFICES ASSUME NEW s \in SUBSET C, Cardinality(s) = n + 1 PROVE h[s] = g[s]
      BY <1>5
    <2>0. n \in Nat
      BY <1>5
    <2>1. s # {}
      <3>1. Cardinality({}) = 0
        BY FS_EmptySet
      <3>2. Cardinality(s) # 0
        BY <2>0
      <3> QED
        BY <3>1, <3>2, Zenon
    <2>2. Pick(s) \in s /\ Cardinality(s \ {Pick(s)}) = n
      BY <1>0, <1>1, <1>5, <2>1, Picked
    <2>3. s \ {Pick(s)} \in SUBSET C
      OBVIOUS
    <2>4. h[s \ {Pick(s)}] = g[s \ {Pick(s)}]
      BY <1>5, <2>2, <2>3
    <2> QED
      BY <1>2, <1>3, <2>1, <2>2, <2>4
  <1>6. Good = Nat
    <2> HIDE DEF Good
    <2>1. Good \in SUBSET Nat
      BY DEF Good
    <2> QED
      BY <1>4, <1>5, <2>1, NatInd
  <1>7. C \in SUBSET C
    OBVIOUS
  <1> QED
    BY <1>6, <1>7, <1>c

\* One more summand adds its value.
LEMMA SumAdd ==
  ASSUME NEW D, IsFiniteSet(D), NEW k \in D, NEW C \in SUBSET D, C = D \ {k},
         NEW f \in [D -> Nat], NEW e \in [C -> Nat], \A x \in C : e[x] = f[x]
  PROVE  SumFunction(f) = SumFunction(e) + f[k] /\ SumFunction(e) \in Nat
  <1>1. IsFiniteSet(C) /\ D \in SUBSET D /\ C \in SUBSET C
    BY FS_Subset
  <1>2. PICK g : SumsUp(g, D, f) /\ SumFunction(f) = g[D]
    BY SumOf, Zenon
  <1>3. PICK h : SumsUp(h, C, e) /\ SumFunction(e) = h[C]
    BY <1>1, SumOf, Zenon
  <1>4. h[C] = g[C]
    BY <1>2, <1>3, SameSum
  <1>5. g[D] = f[k] + g[C]
    BY <1>1, <1>2, AnyOrder
  <1>6. f[k] \in Nat /\ g[C] \in Nat
    BY <1>2 DEF SumsUp
  <1>7. PICK a \in Nat, b \in Nat : a = f[k] /\ b = g[C]
    BY <1>6, Zenon
  <1>8. SumFunction(f) = a + b /\ SumFunction(e) = b
    BY <1>2, <1>3, <1>4, <1>5, <1>7, Zenon
  <1>9. a + b = b + a
    OBVIOUS
  <1> QED
    BY <1>7, <1>8, <1>9, Zenon

-----------------------------------------------------------------------------
(* The caps *)

\* The rows of a day are finitely many.
BookedOn(d) == {j \in Request : billDay[j] = d}
FewRows == \A d \in Day : IsFiniteSet(BookedOn(d))

\* At the start there are none.
LEMMA InitRows == Init => FewRows
  <1> SUFFICES ASSUME Init, NEW d \in Day PROVE IsFiniteSet(BookedOn(d))
    BY DEF FewRows
  <1>1. BookedOn(d) = {}
    BY LedgerAssumption DEF Init, EmptyTable, BookedOn
  <1> QED
    BY <1>1, FS_EmptySet

\* A step of the ledger books one row at most.
LEMMA RowsStep == Inv /\ FewRows /\ [Next]_ledgerVars => FewRows'
  <1> SUFFICES ASSUME Inv, FewRows, [Next]_ledgerVars, NEW d \in Day PROVE IsFiniteSet(BookedOn(d)')
    BY DEF FewRows
  <1>1. billDay' = billDay \/ \E k \in Request, e \in Day : billDay' = [billDay EXCEPT ![k] = e]
    BY StepRefines DEF BudgetNext, Admit, Deny, Settle, Release, InsertRow, WriteSettlement,
                       WriteRelease, row
  <1>2. IsFiniteSet(BookedOn(d))
    BY DEF FewRows
  <1>3. CASE billDay' = billDay
    BY <1>2, <1>3 DEF BookedOn
  <1>4. ASSUME NEW k \in Request, NEW e \in Day, billDay' = [billDay EXCEPT ![k] = e]
        PROVE  IsFiniteSet(BookedOn(d)')
    <2>1. IsFiniteSet(BookedOn(d) \cup {k})
      BY <1>2, FS_AddElement
    <2>2. BookedOn(d)' \in SUBSET (BookedOn(d) \cup {k})
      BY <1>4 DEF BookedOn, Inv, TypeOK, RowType
    <2> QED
      BY <2>1, <2>2, FS_Subset
  <1> QED
    BY <1>1, <1>3, <1>4

\* A row costs what it cost or may still cost.
LEMMA ExposedType == ASSUME RowType, NEW k \in Request PROVE Exposed(k) \in Nat
  <1>1. Cost[k] \in Nat /\ actual[k] \in Nat \cup {-1}
    BY LedgerAssumption DEF RowType, Unpriced
  <1> QED
    BY <1>1 DEF Exposed, Larger, Unpriced

\* An admission adds its cost to the rows of its day, be it all of them or
\* those of one agent.
LEMMA AdmissionAdds ==
    ASSUME RowType, RowType', NEW k \in Request, NEW p \in Provider, NEW d \in Day, Admit(k, p, d),
           NEW S \in SUBSET Request, NEW D \in SUBSET Request, IsFiniteSet(D), k \notin S, D = S \cup {k}
    PROVE  /\ SumFunction([j \in D |-> Exposed(j)'])
                = SumFunction([j \in S |-> Exposed(j)]) + Cost[k]
  <1>1. /\ status' = [status EXCEPT ![k] = "reserved"]
        /\ UNCHANGED <<outcome, actual>>
    BY DEF Admit, InsertRow
  <1>2. \A j \in Request : j # k => Exposed(j)' = Exposed(j)
    BY <1>1 DEF Exposed, RowType
  <1>3. Exposed(k)' = Cost[k]
    BY <1>1 DEF Exposed, RowType
  <1> DEFINE f == [j \in D |-> Exposed(j)']
             e == [j \in S |-> Exposed(j)]
  <1>4. \A j \in Request : Exposed(j) \in Nat /\ Exposed(j)' \in Nat
    <2>1. \A j \in Request : Exposed(j) \in Nat
      BY ExposedType
    <2>2. \A j \in Request : j # k => Exposed(j)' \in Nat
      BY <1>2, <2>1
    <2>3. Exposed(k)' \in Nat
      BY <1>3, LedgerAssumption
    <2> QED
      BY <2>1, <2>2, <2>3
  <1>5. f \in [D -> Nat] /\ e \in [S -> Nat]
    BY <1>4
  <1>6. \A x \in S : e[x] = f[x]
    BY <1>2
  <1>7. f[k] = Cost[k]
    BY <1>3
  <1>8. k \in D /\ S \in SUBSET D /\ S = D \ {k}
    OBVIOUS
  <1> HIDE DEF e, f
  <1>9. SumFunction(f) = SumFunction(e) + f[k]
    BY <1>5, <1>6, <1>8, SumAdd
  <1> QED
    BY <1>7, <1>9 DEF e, f

\* No interleaving of reserves, closes and midnights admits a call that takes a
\* day over its global cap or over the cap of its agent (reserveInTx reads the
\* exposure under the lock of the day it books).
THEOREM WithinCap == Spec => AdmissionWithinCap
  <1> DEFINE Kept ==
        \A k \in Request, d \in Day :
          status[k] = None /\ status'[k] = "reserved" /\ billDay'[k] = d =>
             /\ Exposure(d)' <= GlobalCap
             /\ AgentExposure(d, AgentOf[k])' <= AgentCap[AgentOf[k]]
  <1>1. Inv /\ FewRows /\ Inv' /\ FewRows' /\ [Next]_ledgerVars => [Kept]_ledgerVars
    <2> SUFFICES ASSUME Inv, Inv', FewRows', [Next]_ledgerVars, NEW k \in Request, NEW d \in Day,
                        status[k] = None, status'[k] = "reserved", billDay'[k] = d
                 PROVE  /\ Exposure(d)' <= GlobalCap
                        /\ AgentExposure(d, AgentOf[k])' <= AgentCap[AgentOf[k]]
      OBVIOUS
    <2>1. PICK p \in Provider : Admit(k, p, d)
      BY Admitted
    <2>2. RowType /\ RowType'
      BY DEF Inv, TypeOK
    <2>3. billDay[k] # d /\ billDay' = [billDay EXCEPT ![k] = d] /\ billDay \in [Request -> Day \cup {0}]
      BY <2>1, <2>2, LedgerAssumption DEF Inv, Booked, Admit, InsertRow, RowType
    <2> DEFINE S == {j \in Request : billDay[j] = d}
               D == {j \in Request : billDay'[j] = d}
               a == AgentOf[k]
               Sa == {j \in Request : billDay[j] = d /\ AgentOf[j] = a}
               Da == {j \in Request : billDay'[j] = d /\ AgentOf[j] = a}
    <2>4. /\ S \in SUBSET Request /\ D \in SUBSET Request /\ k \notin S /\ D = S \cup {k}
          /\ Sa \in SUBSET Request /\ Da \in SUBSET Request /\ k \notin Sa /\ Da = Sa \cup {k}
          /\ Da \in SUBSET D
      BY <2>3
    <2>5. IsFiniteSet(D)
      BY DEF FewRows, BookedOn
    <2>6. IsFiniteSet(Da)
      <3> HIDE DEF D, Da
      <3> QED
        BY <2>4, <2>5, FS_Subset
    <2>7. Exposure(d)' = SumFunction([j \in D |-> Exposed(j)'])
      BY DEF Exposure
    <2>8. Exposure(d) = SumFunction([j \in S |-> Exposed(j)])
      BY DEF Exposure
    <2>9. AgentExposure(d, a)' = SumFunction([j \in Da |-> Exposed(j)'])
      BY DEF AgentExposure
    <2>10. AgentExposure(d, a) = SumFunction([j \in Sa |-> Exposed(j)])
      BY DEF AgentExposure
    <2> HIDE DEF S, D, Sa, Da
    <2>11. Exposure(d)' = Exposure(d) + Cost[k]
      BY <2>1, <2>2, <2>4, <2>5, <2>7, <2>8, AdmissionAdds
    <2>12. AgentExposure(d, a)' = AgentExposure(d, a) + Cost[k]
      BY <2>1, <2>2, <2>4, <2>6, <2>9, <2>10, AdmissionAdds
    <2>13. Fits(k, d)
      BY <2>1 DEF Admit
    <2> QED
      BY <2>11, <2>12, <2>13 DEF Fits
  <1>2. Spec => []FewRows
    BY Invariance, InitRows, RowsStep, PTL DEF Spec
  <1> QED
    BY Invariance, <1>1, <1>2, PTL DEF Spec, AdmissionWithinCap
=============================================================================
