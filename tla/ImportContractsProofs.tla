----------------------- MODULE ImportContractsProofs -----------------------
(***************************************************************************)
(* The stock for any number of units, sweeps, closings and failures: what  *)
(* a unit has behind it stays behind, its hold is respected, and a sale    *)
(* brings no more commissions than it was closed.  On top of it, contract, *)
(* obligations and units agree for any number of payments and concurrent   *)
(* requests, and the lifecycle goes back in one case only.                 *)
(***************************************************************************)
EXTENDS ImportContracts, FiniteSetTheorems, TLAPS

---------------------------------------------------------------------------
(* The units alone.                                                        *)


\* A unit's row is created, moved by a button and rolled back in the types.
LEMMA UnitTyped ==
  ASSUME TypeOK, NEW u \in Unit, UnitStep(u) PROVE TypeOK'
  <1> USE DEF TypeOK, Statuses, holdVars, saleVars, SetStatus
  <1>1. CASE Create(u)
    BY <1>1 DEF Create
  <1>2. ASSUME NEW t \in Transitions, ApplyAction(u, t) PROVE TypeOK'
    <2>1. t.to \in Statuses
      BY DEF Transitions, Move
    <2> QED
      BY <1>2, <2>1 DEF ApplyAction
  <1>3. CASE UnbindVin(u)
    BY <1>3 DEF UnbindVin
  <1> QED
    BY <1>1, <1>2, <1>3 DEF UnitStep

\* So are the holds and the sweeps.
LEMMA HoldTyped == ASSUME TypeOK, HoldStep PROVE TypeOK'
  <1> USE UnitsAssumption DEF TypeOK, Statuses, holdVars, saleVars, SetStatus
  <1>1. CASE NewDay
    BY <1>1 DEF NewDay
  <1>2. ASSUME NEW u \in Unit, CancelReserve(u) PROVE TypeOK'
    BY <1>2 DEF CancelReserve
  <1>3. ASSUME NEW u \in Unit, NEW d \in 0 .. MaxDay, Reserve(u, d) PROVE TypeOK'
    BY <1>3 DEF Reserve
  <1>4. ASSUME NEW s \in Sweep, ExpireHolds(s) PROVE TypeOK'
    BY <1>4 DEF ExpireHolds
  <1>5. ASSUME NEW s \in Sweep, ListFree(s) PROVE TypeOK'
    BY <1>5 DEF ListFree
  <1>6. ASSUME NEW s \in Sweep, FreeListed(s) PROVE TypeOK'
    BY <1>6 DEF FreeListed
  <1>7. ASSUME NEW s \in Sweep, SweepCut(s) PROVE TypeOK'
    BY <1>7 DEF SweepCut
  <1> QED
    BY <1>1, <1>2, <1>3, <1>4, <1>5, <1>6, <1>7 DEF HoldStep

\* And the sales.
LEMMA SaleTyped == ASSUME TypeOK, SaleStep PROVE TypeOK'
  <1> USE DEF TypeOK, holdVars, saleVars, Idle, Done, Accruing
  <1>1. ASSUME NEW u \in Unit, SetSalesStage(u) PROVE TypeOK'
    BY <1>1 DEF SetSalesStage
  <1>2. ASSUME NEW u \in Unit, EnterByHand(u) PROVE TypeOK'
    BY <1>2 DEF EnterByHand
  <1>3. ASSUME NEW c \in Closer, NEW u \in Unit, CloseSale(c, u) PROVE TypeOK'
    BY <1>3 DEF CloseSale
  <1>4. ASSUME NEW c \in Closer, AccrueRow(c) PROVE TypeOK'
    BY <1>4 DEF AccrueRow
  <1>5. ASSUME NEW c \in Closer, AccrueNothing(c) PROVE TypeOK'
    BY <1>5 DEF AccrueNothing
  <1>6. ASSUME NEW c \in Closer, AccrueFails(c) PROVE TypeOK'
    BY <1>6 DEF AccrueFails
  <1>7. ASSUME NEW c \in Closer, AccrueInDoubt(c) PROVE TypeOK'
    BY <1>7 DEF AccrueInDoubt
  <1>8. ASSUME NEW c \in Closer, TrailEnds(c) PROVE TypeOK'
    BY <1>8 DEF TrailEnds
  <1>9. ASSUME NEW c \in Closer, CloserCut(c) PROVE TypeOK'
    BY <1>9 DEF CloserCut
  <1> QED
    BY <1>1, <1>2, <1>3, <1>4, <1>5, <1>6, <1>7, <1>8, <1>9 DEF SaleStep

\* Every step keeps the types.
LEMMA TypeStep == TypeOK /\ [Next]_vars => TypeOK'
  <1>1. TypeOK /\ UNCHANGED vars => TypeOK'
    BY DEF TypeOK, vars, holdVars, saleVars
  <1> QED
    BY <1>1, UnitTyped, HoldTyped, SaleTyped DEF Next

---------------------------------------------------------------------------
\* Milestones.

\* No button leads back over a milestone.
LEMMA ButtonsGoOn ==
  ASSUME NEW t \in Transitions, NEW s \in t.from
  PROVE  Past(s) =< Past(t.to)
  BY DEF Transitions, Move, Past, Declared, InStock, Sold, Over

\* The order of the milestones is one of numbers.
LEMMA PastIsNat == \A s : Past(s) \in 0 .. 4
  BY DEF Past, Declared, InStock, Sold, Over

\* No step leads back over a milestone.
LEMMA UnitsGoOn ==
  ASSUME TypeOK, [Next]_vars, NEW v \in Unit
  PROVE  Past(status[v]) =< Past(status'[v])
  <1> DEFINE On == Past(status[v]) =< Past(status'[v])
  <1>0. status[v]' = status[v] => On
    BY PastIsNat
  <1>1. CASE UNCHANGED vars
    BY <1>0, <1>1 DEF vars
  <1>2. ASSUME NEW u \in Unit, UnitStep(u) PROVE On
    <2>1. CASE Create(u)
      BY <1>0, <2>1, PastIsNat DEF Create, SetStatus, TypeOK, Past, Declared, InStock,
         Sold, Over
    <2>2. ASSUME NEW t \in Transitions, ApplyAction(u, t) PROVE On
      <3>1. CASE v = u
        BY <2>2, <3>1, ButtonsGoOn DEF ApplyAction, SetStatus, TypeOK
      <3>2. CASE v # u
        BY <1>0, <2>2, <3>2 DEF ApplyAction, SetStatus, TypeOK
      <3> QED
        BY <3>1, <3>2
    <2>3. CASE UnbindVin(u)
      BY <1>0, <2>3 DEF UnbindVin, SetStatus, TypeOK, VinUnbindAllowed, Past, Declared,
         InStock, Sold, Over
    <2> QED
      BY <1>2, <2>1, <2>2, <2>3 DEF UnitStep
  <1>3. CASE HoldStep
    <2>1. ASSUME NEW u \in Unit, CancelReserve(u) PROVE On
      BY <1>0, <2>1 DEF CancelReserve, SetStatus, TypeOK, Past, Declared, InStock, Sold,
         Over
    <2>2. ASSUME NEW u \in Unit, NEW d \in 0 .. MaxDay, Reserve(u, d) PROVE On
      BY <1>0, <2>2 DEF Reserve, ReserveAllowed, SetStatus, TypeOK, Past, Declared,
         InStock, Sold, Over
    <2>3. ASSUME NEW s \in Sweep, FreeListed(s) PROVE On
      BY <1>0, <2>3 DEF FreeListed, StillListed, TypeOK, Past, Declared, InStock, Sold,
         Over
    <2>4. ASSUME status' = status PROVE On
      BY <1>0, <2>4
    <2> QED
      BY <1>3, <2>1, <2>2, <2>3, <2>4
         DEF HoldStep, NewDay, ExpireHolds, ListFree, SweepCut
  <1>4. CASE SaleStep
    <2>1. status' = status
      BY <1>4 DEF SaleStep, SetSalesStage, EnterByHand, CloseSale, AccrueRow,
         AccrueNothing, AccrueFails, AccrueInDoubt, TrailEnds, CloserCut
    <2> QED
      BY <1>0, <2>1
  <1> QED
    BY <1>1, <1>2, <1>3, <1>4 DEF Next

---------------------------------------------------------------------------
\* Holds.

Kept(v) == \/ status'[v] \in {"RESERVED", "SOLD"} /\ held'[v] = held[v]
           \/ status'[v] = "IN_STOCK" /\ held'[v] = NoHold
           \/ status'[v] = "IN_STOCK" /\ \E s \in Sweep : Overtaken(s, v)

\* A unit in a sweep's list was free when the list was made: if it is held, the
\* hold came later.
ListedWereFree ==
    \A s \in Sweep :
        /\ listed[s] # {} => sweep[s] = "listed"
        /\ sweep[s] # "listed" => renewed[s] = {}
        /\ \A u \in listed[s] : Held(u) => u \in renewed[s]

\* Only Reserve makes a hold, and it is noted for every list there is.
LEMMA ListedStep ==
  ASSUME TypeOK, ListedWereFree, [Next]_vars PROVE ListedWereFree'
  <1> USE DEF ListedWereFree, Held, TypeOK
  <1>1. UNCHANGED holdVars => ListedWereFree'
    BY DEF holdVars
  <1>2. ASSUME NEW u \in Unit, UnitStep(u) PROVE ListedWereFree'
    BY <1>1, <1>2 DEF UnitStep, Create, ApplyAction, UnbindVin
  <1>3. CASE HoldStep
    <2>1. CASE NewDay
      BY <2>1 DEF NewDay
    <2>2. ASSUME NEW u \in Unit, CancelReserve(u) PROVE ListedWereFree'
      BY <2>2 DEF CancelReserve
    <2>3. ASSUME NEW u \in Unit, NEW d \in 0 .. MaxDay, Reserve(u, d)
          PROVE  ListedWereFree'
      BY <2>3 DEF Reserve
    <2>4. ASSUME NEW s \in Sweep, ExpireHolds(s) PROVE ListedWereFree'
      BY <2>4 DEF ExpireHolds
    <2>5. ASSUME NEW s \in Sweep, ListFree(s) PROVE ListedWereFree'
      BY <2>5 DEF ListFree, Free
    <2>6. ASSUME NEW s \in Sweep, FreeListed(s) \/ SweepCut(s) PROVE ListedWereFree'
      BY <2>6 DEF FreeListed, SweepCut
    <2> QED
      BY <1>3, <2>1, <2>2, <2>3, <2>4, <2>5, <2>6 DEF HoldStep
  <1>4. CASE SaleStep
    BY <1>1, <1>4 DEF SaleStep, SetSalesStage, EnterByHand, CloseSale, AccrueRow,
       AccrueNothing, AccrueFails, AccrueInDoubt, TrailEnds, CloserCut
  <1> QED
    BY <1>1, <1>2, <1>3, <1>4 DEF Next, vars

\* Only a sale, the end of the hold itself and a sweep that began to free the
\* unit before the hold was made take it out of RESERVED.
LEMMA HoldsKept ==
  ASSUME TypeOK, ListedWereFree, [Next]_vars, NEW v \in Unit, status[v] = "RESERVED", held[v] >= today
  PROVE  Kept(v)
  <1> USE DEF Kept, TypeOK
  <1>1. UNCHANGED <<status, held>> => Kept(v)
    OBVIOUS
  <1>2. ASSUME NEW u \in Unit, UnitStep(u) PROVE Kept(v)
    <2>1. \A t \in Transitions : "RESERVED" \in t.from => t.to = "SOLD"
      BY DEF Transitions, Move
    <2> QED
      BY <1>2, <2>1 DEF UnitStep, Create, ApplyAction, UnbindVin, VinUnbindAllowed,
         SetStatus, holdVars
  <1>3. CASE HoldStep
    <2>1. ASSUME NEW u \in Unit, CancelReserve(u) PROVE Kept(v)
      BY <2>1 DEF CancelReserve, SetStatus
    <2>2. ASSUME NEW u \in Unit, NEW d \in 0 .. MaxDay, Reserve(u, d) PROVE Kept(v)
      BY <2>2 DEF Reserve, ReserveAllowed, SetStatus
    <2>3. ASSUME NEW s \in Sweep, ExpireHolds(s) PROVE Kept(v)
      BY <2>3 DEF ExpireHolds, Lapsed
    <2>4. ASSUME NEW s \in Sweep, FreeListed(s) PROVE Kept(v)
      BY <2>4 DEF FreeListed, StillListed, ListedWereFree, Held, NoHold, Overtaken
    <2> QED
      BY <1>1, <1>3, <2>1, <2>2, <2>3, <2>4 DEF HoldStep, NewDay, ListFree, SweepCut
  <1>4. CASE SaleStep
    <2>1. UNCHANGED <<status, held>>
      BY <1>4 DEF SaleStep, SetSalesStage, EnterByHand, CloseSale, AccrueRow,
         AccrueNothing, AccrueFails, AccrueInDoubt, TrailEnds, CloserCut, holdVars
    <2> QED
      BY <1>1, <2>1
  <1> QED
    BY <1>1, <1>2, <1>3, <1>4 DEF Next, vars, holdVars

---------------------------------------------------------------------------
\* Commissions.

\* The accruals of a unit that have not inserted their row.
Due(u) == {c \in Closer : Accruing(c, "due") /\ closer[c].unit = u}

\* What was paid, may be entered by hand or is still to come.
Owed == \A u \in Unit :
            commission[u] + notAccrued[u] + Cardinality(Due(u))
                =< closings[u] + doubtful[u]

Inv == TypeOK /\ Owed /\ ListedWereFree

\* The accruals of a unit can be counted.
LEMMA DueCounts == \A u : IsFiniteSet(Due(u)) /\ Cardinality(Due(u)) \in Nat
  BY FS_Subset, FS_CardinalityType, UnitsAssumption DEF Due

\* With fewer accruals under way their number does not grow.
LEMMA DueShrinks ==
  ASSUME NEW u, Due(u)' \subseteq Due(u)
  PROVE  Cardinality(Due(u)') =< Cardinality(Due(u)) /\ Cardinality(Due(u)') \in Nat
  BY DueCounts, FS_Subset, FS_CardinalityType

\* An accrual that ends leaves one fewer under way.
LEMMA DueEnds ==
  ASSUME NEW u, NEW c \in Due(u), Due(u)' = Due(u) \ {c}
  PROVE  Cardinality(Due(u)') = Cardinality(Due(u)) - 1
  BY DueCounts, FS_RemoveElement

\* An accrual that begins makes one more.
LEMMA DueBegins ==
  ASSUME NEW u, NEW c, c \notin Due(u), Due(u)' = Due(u) \cup {c}
  PROVE  Cardinality(Due(u)') = Cardinality(Due(u)) + 1
  BY DueCounts, FS_AddElement

\* An accrual that ends takes one from its unit and none from the others.
LEMMA OneEnds ==
  ASSUME TypeOK, NEW c \in Closer, NEW v, closer[c].unit = v, Accruing(c, "due"), NEW r,
         closer' = [closer EXCEPT ![c] = r], r.step # "due"
  PROVE  /\ Cardinality(Due(v)') = Cardinality(Due(v)) - 1
         /\ \A u : u # v => Due(u)' = Due(u)
  <1>1. Due(v)' = Due(v) \ {c}
    BY DEF Due, Accruing, TypeOK
  <1>2. c \in Due(v)
    BY DEF Due
  <1>3. ASSUME NEW u, u # v PROVE Due(u)' = Due(u)
    BY <1>3 DEF Due, Accruing, TypeOK
  <1> QED
    BY <1>1, <1>2, <1>3, DueEnds

\* Each outcome of an accrual accounts for the row it wrote, or may have.
LEMMA AccrualOwed ==
  ASSUME Inv, NEW c \in Closer,
         \/ AccrueRow(c) \/ AccrueNothing(c) \/ AccrueFails(c) \/ AccrueInDoubt(c)
  PROVE  Owed'
  <1> PICK v : v = closer[c].unit
    OBVIOUS
  <1>0. /\ TypeOK /\ Accruing(c, "due") /\ v \in Unit
    BY DEF Inv, TypeOK, AccrueRow, AccrueNothing, AccrueFails, AccrueInDoubt, Accruing, Idle
  <1>1. /\ Cardinality(Due(v)') = Cardinality(Due(v)) - 1
        /\ \A u : u # v => Due(u)' = Due(u)
    <2>1. CASE AccrueRow(c)
      <3>1. closer' = [closer EXCEPT ![c] = [closer[c] EXCEPT !.step = "rowed"]]
        BY <2>1 DEF AccrueRow
      <3>2. [closer[c] EXCEPT !.step = "rowed"].step # "due"
        BY <1>0 DEF TypeOK, Accruing, Idle
      <3> QED
        BY <1>0, <3>1, <3>2, OneEnds
    <2>2. CASE ~AccrueRow(c)
      <3>1. closer' = [closer EXCEPT ![c] = Idle] /\ Idle.step # "due"
        BY <2>2 DEF AccrueNothing, AccrueFails, AccrueInDoubt, Done, Idle
      <3> QED
        BY <1>0, <3>1, OneEnds
    <2> QED
      BY <2>1, <2>2
  <1>2. ASSUME NEW u \in Unit
        PROVE  (commission[u] + notAccrued[u] + Cardinality(Due(u))
                  =< closings[u] + doubtful[u])'
    <2>1. /\ commission[u] + notAccrued[u] + Cardinality(Due(u))
               =< closings[u] + doubtful[u]
          /\ commission[u] \in Nat /\ notAccrued[u] \in Nat
          /\ closings[u] \in Nat /\ doubtful[u] \in Nat
          /\ Cardinality(Due(u)) \in Nat
      BY DueCounts DEF Inv, Owed, TypeOK
    <2>2. CASE u # v
      <3>1. /\ commission'[u] = commission[u] /\ notAccrued'[u] = notAccrued[u]
            /\ closings'[u] = closings[u] /\ doubtful'[u] = doubtful[u]
        BY <1>0, <2>2
           DEF TypeOK, AccrueRow, AccrueNothing, AccrueFails, AccrueInDoubt
      <3> QED
        BY <1>1, <2>1, <2>2, <3>1
    <2>3. CASE u = v
      <3>1. closings'[u] = closings[u]
        BY DEF AccrueRow, AccrueNothing, AccrueFails, AccrueInDoubt
      <3>2. /\ commission'[u] + notAccrued'[u] + doubtful[u]
                  =< commission[u] + notAccrued[u] + 1 + doubtful'[u]
            /\ commission'[u] \in Nat /\ notAccrued'[u] \in Nat /\ doubtful'[u] \in Nat
        BY <1>0, <2>1, <2>3
           DEF TypeOK, AccrueRow, AccrueNothing, AccrueFails, AccrueInDoubt
      <3> QED
        BY <1>1, <2>1, <2>3, <3>1, <3>2
    <2> QED
      BY <2>2, <2>3
  <1> QED
    BY <1>2 DEF Owed

\* The other steps of a sale keep the account, too.
LEMMA SaleOwed == ASSUME Inv, SaleStep PROVE Owed'
  <1>0. TypeOK /\ Owed
    BY DEF Inv
  <1>1. ASSUME NEW u \in Unit, SetSalesStage(u) PROVE Owed'
    <2>1. \A v : Due(v)' = Due(v)
      BY <1>1 DEF SetSalesStage, Due, Accruing
    <2> QED
      BY <1>0, <1>1, <2>1 DEF SetSalesStage, Owed
  <1>2. ASSUME NEW u \in Unit, EnterByHand(u) PROVE Owed'
    <2>1. \A v : Due(v)' = Due(v)
      BY <1>2 DEF EnterByHand, Due, Accruing
    <2>2. \A v \in Unit : /\ commission'[v] + notAccrued'[v] = commission[v] + notAccrued[v]
                          /\ commission[v] \in Nat /\ notAccrued[v] \in Nat
                          /\ commission'[v] \in Nat /\ notAccrued'[v] \in Nat
      <3>1. commission \in [Unit -> Nat] /\ notAccrued \in [Unit -> Nat]
        BY <1>0 DEF TypeOK
      <3>2. /\ notAccrued[u] > 0
            /\ notAccrued' = [notAccrued EXCEPT ![u] = notAccrued[u] - 1]
            /\ commission' = [commission EXCEPT ![u] = commission[u] + 1]
        BY <1>2 DEF EnterByHand
      <3> QED
        BY <3>1, <3>2
    <2>3. closings' = closings /\ doubtful' = doubtful
      BY <1>2 DEF EnterByHand
    <2> QED
      BY <1>0, <2>1, <2>2, <2>3, DueCounts DEF Owed
  <1>3. ASSUME NEW c \in Closer, NEW u \in Unit, CloseSale(c, u) PROVE Owed'
    <2>1. c \notin Due(u) /\ Due(u)' = Due(u) \cup {c}
      BY <1>0, <1>3 DEF CloseSale, Due, Accruing, TypeOK, Idle
    <2>2. \A v : v # u => Due(v)' = Due(v)
      BY <1>0, <1>3 DEF CloseSale, Due, Accruing, TypeOK, Idle
    <2>3. Cardinality(Due(u)') = Cardinality(Due(u)) + 1
      BY <2>1, DueBegins
    <2>4. closings' = [closings EXCEPT ![u] = @ + 1]
          /\ UNCHANGED <<commission, notAccrued, doubtful>>
      BY <1>3 DEF CloseSale
    <2>5. ASSUME NEW v \in Unit
          PROVE  (commission[v] + notAccrued[v] + Cardinality(Due(v))
                    =< closings[v] + doubtful[v])'
      <3>1. /\ commission[v] + notAccrued[v] + Cardinality(Due(v))
                 =< closings[v] + doubtful[v]
            /\ commission[v] \in Nat /\ notAccrued[v] \in Nat
            /\ closings[v] \in Nat /\ doubtful[v] \in Nat
            /\ Cardinality(Due(v)) \in Nat
        BY <1>0, DueCounts DEF Owed, TypeOK
      <3>2. CASE v = u
        BY <1>0, <2>3, <2>4, <3>1, <3>2 DEF TypeOK
      <3>3. CASE v # u
        BY <1>0, <2>2, <2>4, <3>1, <3>3 DEF TypeOK
      <3> QED
        BY <3>2, <3>3
    <2> QED
      BY <2>5 DEF Owed
  <1>4. ASSUME NEW c \in Closer, TrailEnds(c) \/ CloserCut(c) PROVE Owed'
    <2>1. ASSUME NEW v PROVE Due(v)' \subseteq Due(v)
      BY <1>0, <1>4 DEF TrailEnds, CloserCut, Done, Due, Accruing, TypeOK, Idle
    <2>2. UNCHANGED <<commission, notAccrued, closings, doubtful>>
      BY <1>4 DEF TrailEnds, CloserCut
    <2>3. ASSUME NEW v \in Unit
          PROVE  (commission[v] + notAccrued[v] + Cardinality(Due(v))
                    =< closings[v] + doubtful[v])'
      BY <1>0, <2>1, <2>2, DueShrinks, DueCounts DEF Owed, TypeOK
    <2> QED
      BY <2>3 DEF Owed
  <1> QED
    BY <1>1, <1>2, <1>3, <1>4, AccrualOwed DEF SaleStep

\* No other step touches the account.
LEMMA OwedStep == ASSUME Inv, [Next]_vars PROVE Owed'
  <1>1. CASE UNCHANGED saleVars
    <2>1. \A v : Due(v)' = Due(v)
      BY <1>1 DEF saleVars, Due, Accruing
    <2> QED
      BY <1>1, <2>1 DEF Inv, Owed, saleVars
  <1>2. CASE \E u \in Unit : UnitStep(u)
    BY <1>1, <1>2 DEF UnitStep, Create, ApplyAction, UnbindVin
  <1>3. CASE HoldStep
    BY <1>1, <1>3 DEF HoldStep, NewDay, CancelReserve, Reserve, ExpireHolds, ListFree,
       FreeListed, SweepCut
  <1> QED
    BY <1>1, <1>2, <1>3, SaleOwed DEF Next, vars

\* The inductive invariant holds at first.
LEMMA InitInv == Init => Inv
  <1> SUFFICES ASSUME Init PROVE Inv
    OBVIOUS
  <1>1. TypeOK
    BY DEF Init, TypeOK, NoHold, Idle
  <1>2. \A u : Due(u) = {}
    BY DEF Init, Due, Accruing, Idle
  <1> QED
    BY <1>1, <1>2, FS_EmptySet DEF Init, Inv, Owed, ListedWereFree

\* It holds in every reachable state.
LEMMA Invariance == Spec => []Inv
  <1>1. Inv /\ [Next]_vars => Inv'
    BY TypeStep, OwedStep, ListedStep DEF Inv
  <1> QED
    BY <1>1, InitInv, PTL DEF Spec

---------------------------------------------------------------------------

\* What is paid, or may still be entered by hand, is at most one commission for
\* each closing of the sale, for any number of closings and failures.
THEOREM CommissionsBounded == Spec => []CommissionPerClosing
  <1>1. Inv => CommissionPerClosing
    <2> SUFFICES ASSUME Inv, NEW u \in Unit
                 PROVE  commission[u] + notAccrued[u] =< closings[u] + doubtful[u]
      BY DEF Inv, CommissionPerClosing
    <2>1. /\ commission[u] + notAccrued[u] + Cardinality(Due(u))
               =< closings[u] + doubtful[u]
          /\ commission[u] \in Nat /\ notAccrued[u] \in Nat
          /\ closings[u] \in Nat /\ doubtful[u] \in Nat
          /\ Cardinality(Due(u)) \in Nat
      BY DueCounts DEF Inv, Owed, TypeOK
    <2> QED
      BY <2>1
  <1> QED
    BY <1>1, Invariance, PTL

\* Rows and requests keep to their ranges, and no notice is answered twice
\* (EnterByHand), for any number of units and requests.
THEOREM UnitsTyped == Spec => []TypeOK
  <1>1. Inv => TypeOK
    BY DEF Inv
  <1> QED
    BY <1>1, Invariance, PTL

\* No step of any request, however late, undoes a milestone of a unit.
THEOREM MilestonesStay == Spec => NeverBackwards
  <1>1. Inv /\ [Next]_vars => [\A u \in Unit : Past(status[u]) =< Past(status'[u])]_vars
    BY UnitsGoOn DEF Inv
  <1> QED
    BY <1>1, Invariance, PTL DEF Spec, NeverBackwards

\* A hold that has not lapsed keeps its unit from everybody but the customer,
\* except from a sweep whose freeing statement began before the hold was made.
THEOREM HoldsRespected == Spec => HoldRespected
  <1>1. Inv /\ [Next]_vars =>
          [\A u \in Unit :
              status[u] = "RESERVED" /\ held[u] >= today
                 => \/ status'[u] \in {"RESERVED", "SOLD"} /\ held'[u] = held[u]
                    \/ status'[u] = "IN_STOCK" /\ held'[u] = NoHold
                    \/ status'[u] = "IN_STOCK" /\ \E s \in Sweep : Overtaken(s, u)]_vars
    BY HoldsKept DEF Inv, Kept
  <1> QED
    BY <1>1, Invariance, PTL DEF Spec, HoldRespected

---------------------------------------------------------------------------
(* The contracts they come from.                                           *)


\* Some unit of the contract got past the customs.
GotPast == \E u \in Ordered : status[u] \in PastCustoms

\* Before it is signed a contract has brought nothing about.
DraftIsBlank ==
    contract = "draft" =>
        /\ life = "draft"
        /\ \A k \in Kind : flow[k] = "none"
        /\ \A u \in Ordered : status[u] = "absent"
        /\ \A w \in Worker : desk[w].step # "write"

\* What a recomputation is about to write is ahead of what it read, and true.
WritesAhead ==
    \A w \in Worker : desk[w].step = "write" =>
        /\ desk[w].seen \in DOMAIN Rank /\ desk[w].to \in DOMAIN Rank
        /\ Advances(desk[w].seen, desk[w].to) /\ desk[w].to # "cancelled"
        /\ desk[w].to = "warehoused" => GotPast

ContractInv == /\ TypeOK /\ ContractTypeOK
               /\ DraftIsBlank /\ WritesAhead
               /\ CancelledHasNoUnits /\ WarehousedIsReal

\* The phases in their order.
LEMMA Ranks ==
  /\ DOMAIN Rank = {"cancelled", "draft", "signed", "paying", "shipping", "customs",
                    "warehoused"}
  /\ \A r \in DOMAIN Rank : Rank[r] \in Int
  /\ Rank["signed"] > Rank["draft"] /\ Rank["paying"] > Rank["signed"]
  BY DEF Rank

\* The phase of some units is one of the list, and "warehoused" has a witness.
LEMMA Phases ==
  ASSUME NEW S
  PROVE  /\ Phase(S) \in DOMAIN Rank /\ Phase(S) # "cancelled"
         /\ Phase(S) = "warehoused" => S \cap Warehoused # {}
  BY Ranks DEF Phase, Meets

---------------------------------------------------------------------------
\* The steps that move units.

\* The steps of the stock are those of Units, but for new units of the contract.
LEMMA OtherIsUnits ==
  ASSUME OtherStep
  PROVE  /\ UNCHANGED <<contractVars, desk>>
         /\ (\E u \in Unit : u \notin Ordered /\ Create(u))
            \/ (\E u \in Unit, t \in Transitions : ApplyAction(u, t))
            \/ (\E u \in Unit : UnbindVin(u)) \/ HoldStep \/ SaleStep
  BY DEF OtherStep

\* A button starts from a unit under way, or archives a cancelled one.
LEMMA Buttons ==
  ASSUME NEW t \in Transitions
  PROVE  /\ t.to \in Statuses /\ "absent" \notin t.from
         /\ \A s \in t.from : ~Active(s) => ~Active(t.to)
         /\ \A s \in t.from : s \in PastCustoms => t.to \in PastCustoms
  BY DEF Transitions, Move, Statuses, Active, Over, PastCustoms, Declared, InStock, Sold

\* What a step may do to the status of a unit of the contract, signing aside.
Follows(from, to) ==
    /\ ~Active(from) => ~Active(to)
    /\ from = "absent" => to = "absent"
    /\ from \in PastCustoms => to \in PastCustoms

\* A button does no more than that.
LEMMA ByButton ==
  ASSUME NEW t \in Transitions, NEW s \in t.from
  PROVE  Follows(s, t.to)
  BY Buttons DEF Follows

\* Nor does any step of the stock,
LEMMA StockFollows ==
  ASSUME TypeOK, OtherStep, NEW v \in Ordered
  PROVE  Follows(status[v], status'[v])
  <1> USE ImportAssumption DEF Follows
  <1>0. v \in Unit /\ status \in [Unit -> Statuses \cup {"absent"}]
    BY DEF TypeOK
  <1>1. ASSUME NEW u \in Unit, u \notin Ordered, Create(u)
        PROVE  Follows(status[v], status'[v])
    BY <1>0, <1>1 DEF Create, SetStatus
  <1>2. ASSUME NEW u \in Unit, NEW t \in Transitions, ApplyAction(u, t)
        PROVE  Follows(status[v], status'[v])
    BY <1>0, <1>2, ByButton DEF ApplyAction, SetStatus
  <1>3. ASSUME NEW u \in Unit, UnbindVin(u) PROVE Follows(status[v], status'[v])
    BY <1>0, <1>3 DEF UnbindVin, SetStatus, VinUnbindAllowed, Active, Over, PastCustoms,
       Declared, InStock, Sold
  <1>4. CASE HoldStep
    <2> USE <1>0 DEF Active, Over, PastCustoms, Declared, InStock, Sold, SetStatus
    <2>1. ASSUME NEW u \in Unit, CancelReserve(u) PROVE Follows(status[v], status'[v])
      BY <2>1 DEF CancelReserve
    <2>2. ASSUME NEW u \in Unit, NEW d \in 0 .. MaxDay, Reserve(u, d)
          PROVE  Follows(status[v], status'[v])
      BY <2>2 DEF Reserve, ReserveAllowed
    <2>3. ASSUME NEW s \in Sweep, FreeListed(s) PROVE Follows(status[v], status'[v])
      BY <2>3 DEF FreeListed, StillListed
    <2>4. ASSUME status' = status PROVE Follows(status[v], status'[v])
      BY <2>4
    <2> QED
      BY <1>4, <2>1, <2>2, <2>3, <2>4 DEF HoldStep, NewDay, ExpireHolds, ListFree, SweepCut
  <1>5. CASE SaleStep
    <2>1. status' = status
      BY <1>5 DEF SaleStep, SetSalesStage, EnterByHand, CloseSale, AccrueRow,
         AccrueNothing, AccrueFails, AccrueInDoubt, TrailEnds, CloserCut
    <2> QED
      BY <2>1
  <1> QED
    BY <1>1, <1>2, <1>3, <1>4, <1>5, OtherIsUnits

\* nor a bulk action, however late it moves its units.
LEMMA BulkFollows ==
  ASSUME TypeOK, ContractTypeOK, NEW w \in Worker, BulkMove(w), NEW v \in Ordered
  PROVE  Follows(status[v], status'[v])
  <1>0. v \in Unit
    BY ImportAssumption
  <1>1. desk[w].move \in Transitions
    BY DEF ContractTypeOK, Places, BulkMove, BulkMoves, Idle
  <1>2. CASE Moves(w, v)
    BY <1>0, <1>1, <1>2, ByButton DEF BulkMove, Moves
  <1>3. CASE ~Moves(w, v)
    BY <1>0, <1>3 DEF BulkMove, Follows
  <1> QED
    BY <1>2, <1>3

---------------------------------------------------------------------------
\* Types.

\* Steps of the stock leave the contract alone and keep the types.
LEMMA StockTyped ==
  ASSUME TypeOK, ContractTypeOK, OtherStep PROVE TypeOK' /\ ContractTypeOK'
  <1>1. ContractTypeOK'
    BY OtherIsUnits DEF ContractTypeOK, contractVars
  <1>2. (\E u \in Unit : UnitStep(u)) \/ HoldStep \/ SaleStep
    BY OtherIsUnits DEF UnitStep
  <1> QED
    BY <1>1, <1>2, UnitTyped, HoldTyped, SaleTyped

\* So do the requests on the contract.
LEMMA ContractTyped ==
  ASSUME TypeOK, ContractTypeOK, ContractStep PROVE TypeOK' /\ ContractTypeOK'
  <1> USE Ranks, ImportAssumption DEF ContractTypeOK, contractVars
  <1>a. ASSUME UNCHANGED <<unitVars, faults>> PROVE TypeOK'
    BY <1>a DEF TypeOK, unitVars, holdVars, saleVars
  <1>b. ASSUME UNCHANGED <<holdVars, saleVars, faults>>,
               status' \in [Unit -> Statuses \cup {"absent"}]
        PROVE  TypeOK'
    BY <1>b DEF TypeOK, holdVars, saleVars
  <1>1. CASE Sign
    <2>1. status' \in [Unit -> Statuses \cup {"absent"}]
      BY <1>1 DEF Sign, TypeOK, Statuses
    <2> QED
      BY <1>1, <1>b, <2>1 DEF Sign
  <1>2. CASE Cancel
    BY <1>2, <1>a DEF Cancel
  <1>3. ASSUME NEW k \in Kind, MarkPaid(k) PROVE TypeOK' /\ ContractTypeOK'
    BY <1>3, <1>a DEF MarkPaid
  <1>4. ASSUME NEW k \in Kind, PayFlow(k) \/ CancelFlow(k)
        PROVE  TypeOK' /\ ContractTypeOK'
    BY <1>4, <1>a DEF PayFlow, CancelFlow
  <1>5. ASSUME NEW w \in Worker, NEW t \in BulkMoves, BulkPick(w, t)
        PROVE  TypeOK' /\ ContractTypeOK'
    BY <1>5, <1>a DEF BulkPick, Places
  <1>6. ASSUME NEW w \in Worker, BulkMove(w) PROVE TypeOK' /\ ContractTypeOK'
    <2>1. desk[w].move \in Transitions
      BY <1>6 DEF Places, BulkMove, BulkMoves, Idle
    <2>2. desk[w].move.to \in Statuses
      BY <2>1, Buttons
    <2>3. status' \in [Unit -> Statuses \cup {"absent"}]
      BY <1>6, <2>2 DEF BulkMove, TypeOK
    <2> QED
      BY <1>6, <1>b, <2>3 DEF BulkMove, Places
  <1>7. ASSUME NEW w \in Worker, AskRecompute(w) \/ WorkerCut(w)
        PROVE  TypeOK' /\ ContractTypeOK'
    BY <1>7, <1>a DEF AskRecompute, WorkerCut, Places
  <1>8. ASSUME NEW w \in Worker, ReadContract(w) PROVE TypeOK' /\ ContractTypeOK'
    BY <1>8, <1>a DEF ReadContract, Places
  <1>9. ASSUME NEW w \in Worker, ReadUnits(w) PROVE TypeOK' /\ ContractTypeOK'
    <2>1. desk[w].seen \in DOMAIN Rank
      BY <1>9 DEF ReadUnits, Places, Idle
    <2>2. Phase(OrderedStatuses) \in DOMAIN Rank
      BY Phases
    <2>3. desk' \in [Worker -> Places]
      BY <1>9, <2>1, <2>2 DEF ReadUnits, Places
    <2> QED
      BY <1>9, <1>a, <2>3 DEF ReadUnits
  <1>10. ASSUME NEW w \in Worker, WriteLifecycle(w) PROVE TypeOK' /\ ContractTypeOK'
    <2>1. desk[w].to \in DOMAIN Rank
      BY <1>10 DEF WriteLifecycle, Places, Idle
    <2> QED
      BY <1>10, <1>a, <2>1 DEF WriteLifecycle, Places
  <1> QED
    BY <1>1, <1>2, <1>3, <1>4, <1>5, <1>6, <1>7, <1>8, <1>9, <1>10 DEF ContractStep

---------------------------------------------------------------------------
\* The invariant.

Facts == DraftIsBlank /\ WritesAhead /\ CancelledHasNoUnits /\ WarehousedIsReal

\* A step that moves units as Follows allows, and leaves the contract, its
\* payments and the writes to come as they are, keeps the facts.
LEMMA MovingKeeps ==
  ASSUME Facts, UNCHANGED contractVars,
         \A v \in Ordered : Follows(status[v], status'[v]),
         \A w \in Worker : desk'[w].step = "write" => desk'[w] = desk[w]
  PROVE  Facts'
  <1> USE DEF Facts, contractVars, Follows
  <1>1. GotPast => GotPast'
    BY DEF GotPast
  <1>2. DraftIsBlank'
    BY DEF DraftIsBlank
  <1>3. WritesAhead'
    BY <1>1 DEF WritesAhead
  <1>4. CancelledHasNoUnits'
    BY DEF CancelledHasNoUnits
  <1>5. WarehousedIsReal'
    BY <1>1 DEF WarehousedIsReal, GotPast
  <1> QED
    BY <1>2, <1>3, <1>4, <1>5

\* The same for a step that moves no unit.
LEMMA StandingFollows ==
  ASSUME status' = status, NEW v \in Ordered PROVE Follows(status[v], status'[v])
  BY DEF Follows

\* Signing is the first thing that happens to the units and the obligations.
LEMMA SignKeeps == ASSUME ContractInv, Sign PROVE Facts'
  BY DEF ContractInv, Sign, Facts, DraftIsBlank, WritesAhead, CancelledHasNoUnits,
         WarehousedIsReal

\* A contract is cancelled only when no unit is under way.
LEMMA CancelKeeps == ASSUME ContractInv, Cancel PROVE Facts'
  <1> USE DEF ContractInv, Cancel, unitVars
  <1>1. DraftIsBlank' /\ WarehousedIsReal'
    BY DEF DraftIsBlank, WarehousedIsReal
  <1>2. WritesAhead'
    BY DEF WritesAhead, GotPast
  <1>3. CancelledHasNoUnits'
    BY DEF CancelledHasNoUnits, OrderedStatuses
  <1> QED
    BY <1>1, <1>2, <1>3 DEF Facts

\* Payments take the contract from "signed" to "paying" at most.
LEMMA PaymentKeeps ==
  ASSUME ContractInv, NEW k \in Kind, MarkPaid(k) \/ PayFlow(k) \/ CancelFlow(k)
  PROVE  Facts'
  <1> USE DEF ContractInv, MarkPaid, PayFlow, CancelFlow, unitVars
  <1>1. DraftIsBlank'
    BY DEF DraftIsBlank, ContractTypeOK
  <1>2. WritesAhead'
    BY DEF WritesAhead, GotPast
  <1>3. CancelledHasNoUnits' /\ WarehousedIsReal'
    BY DEF CancelledHasNoUnits, WarehousedIsReal
  <1> QED
    BY <1>1, <1>2, <1>3 DEF Facts

\* A recomputation decides on what it read, and what it read stays true.
LEMMA ReadKeeps == ASSUME ContractInv, NEW w \in Worker, ReadUnits(w) PROVE Facts'
  <1> USE DEF ReadUnits, ContractInv
  <1>0. UNCHANGED <<contractVars, status>>
    BY DEF unitVars
  <1>1. DraftIsBlank /\ WritesAhead /\ CancelledHasNoUnits /\ WarehousedIsReal
    OBVIOUS
  <1>2. CASE OrderedStatuses # {} /\ Advances(desk[w].seen, Phase(OrderedStatuses))
    <2> DEFINE to == Phase(OrderedStatuses)
    <2>1. desk' = [desk EXCEPT ![w] =
                      [step |-> "write", seen |-> desk[w].seen, to |-> to]]
      BY <1>2
    <2>2. desk[w].seen \in DOMAIN Rank
      BY DEF ContractTypeOK, Places, Idle
    <2>3. to \in DOMAIN Rank /\ to # "cancelled"
      BY Phases
    <2>4. to = "warehoused" => GotPast
      BY Phases DEF GotPast, OrderedStatuses, Warehoused, PastCustoms, Declared, InStock
    <2>5. WritesAhead'
      BY <1>0, <1>1, <1>2, <2>1, <2>2, <2>3, <2>4
         DEF WritesAhead, GotPast, ContractTypeOK
    <2>6. contract # "draft"
      BY <1>2 DEF DraftIsBlank, OrderedStatuses, Active
    <2> QED
      BY <1>0, <1>1, <2>5, <2>6
         DEF Facts, contractVars, DraftIsBlank, CancelledHasNoUnits, WarehousedIsReal
  <1>3. CASE ~(OrderedStatuses # {} /\ Advances(desk[w].seen, Phase(OrderedStatuses)))
    <2>1. desk' = [desk EXCEPT ![w] = Idle]
      BY <1>3
    <2> QED
      BY <1>0, <1>1, <2>1, MovingKeeps, StandingFollows DEF Facts, ContractTypeOK, Idle
  <1> QED
    BY <1>2, <1>3

\* A late write of the lifecycle says what was so when it was computed, and
\* still is.
LEMMA WriteKeeps == ASSUME ContractInv, NEW w \in Worker, WriteLifecycle(w) PROVE Facts'
  <1> USE DEF WriteLifecycle, ContractInv
  <1>0. UNCHANGED <<contract, flow, status>>
    BY DEF unitVars
  <1>1. desk[w].to = "warehoused" => GotPast
    BY DEF WritesAhead
  <1>2. contract # "draft"
    BY DEF DraftIsBlank
  <1>3. WritesAhead'
    BY <1>0 DEF WritesAhead, GotPast, ContractTypeOK, Idle
  <1>4. WarehousedIsReal'
    BY <1>0, <1>1 DEF WarehousedIsReal, GotPast
  <1> QED
    BY <1>0, <1>2, <1>3, <1>4 DEF Facts, DraftIsBlank, CancelledHasNoUnits

\* Every step keeps what the contract says of its units.
LEMMA FactsStep == ASSUME ContractInv, [ContractNext]_allVars PROVE Facts'
  <1>0. Facts /\ TypeOK /\ ContractTypeOK
    BY DEF ContractInv, Facts
  <1>1. CASE UNCHANGED allVars
    BY <1>0, <1>1, MovingKeeps, StandingFollows DEF allVars, vars
  <1>2. CASE OtherStep
    <2>1. UNCHANGED <<contractVars, desk>>
      BY <1>2 DEF OtherStep
    <2> QED
      BY <1>0, <1>2, <2>1, MovingKeeps, StockFollows
  <1>3. ASSUME NEW w \in Worker, BulkMove(w) PROVE Facts'
    <2>1. \A x \in Worker : desk'[x].step = "write" => desk'[x] = desk[x]
      BY <1>0, <1>3 DEF BulkMove, ContractTypeOK
    <2>2. UNCHANGED contractVars
      BY <1>3 DEF BulkMove
    <2> QED
      BY <1>0, <1>3, <2>1, <2>2, MovingKeeps, BulkFollows
  <1>4. ASSUME NEW w \in Worker,
               \/ \E t \in BulkMoves : BulkPick(w, t)
               \/ AskRecompute(w) \/ ReadContract(w) \/ WorkerCut(w)
        PROVE  Facts'
    <2>1. \A x \in Worker : desk'[x].step = "write" => desk'[x] = desk[x]
      BY <1>0, <1>4
         DEF BulkPick, AskRecompute, ReadContract, WorkerCut, ContractTypeOK, Idle
    <2>2. UNCHANGED <<contractVars, status>>
      BY <1>4 DEF BulkPick, AskRecompute, ReadContract, WorkerCut, unitVars
    <2> QED
      BY <1>0, <2>1, <2>2, MovingKeeps, StandingFollows
  <1> QED
    BY <1>1, <1>2, <1>3, <1>4, SignKeeps, CancelKeeps, PaymentKeeps, ReadKeeps, WriteKeeps
       DEF ContractNext, ContractStep

\* The inductive invariant holds at first.
LEMMA ContractInvInit == ContractInit => ContractInv
  <1> SUFFICES ASSUME ContractInit PROVE ContractInv
    OBVIOUS
  <1>1. TypeOK
    BY InitInv DEF ContractInit, Inv
  <1>2. \A u \in Ordered : status[u] = "absent"
    BY ImportAssumption DEF ContractInit, Init
  <1> QED
    BY <1>1, <1>2, Ranks DEF ContractInit, ContractInv, ContractTypeOK, DraftIsBlank,
       WritesAhead, CancelledHasNoUnits, WarehousedIsReal, Places, Idle

\* It holds in every reachable state.
LEMMA ContractInvariance == ContractSpec => []ContractInv
  <1>1. ContractInv /\ [ContractNext]_allVars => ContractInv'
    <2> SUFFICES ASSUME ContractInv, [ContractNext]_allVars PROVE ContractInv'
      OBVIOUS
    <2>1. TypeOK' /\ ContractTypeOK'
      <3>1. CASE UNCHANGED allVars
        BY <3>1 DEF ContractInv, TypeOK, ContractTypeOK, allVars, vars, holdVars, saleVars,
           contractVars, OrderedStatuses
      <3> QED
        BY <3>1, StockTyped, ContractTyped DEF ContractInv, ContractNext
    <2> QED
      BY <2>1, FactsStep DEF ContractInv, Facts
  <1> QED
    BY <1>1, ContractInvInit, PTL DEF ContractSpec

---------------------------------------------------------------------------

\* For any number of units and concurrent requests, a cancelled contract has no
\* unit under way, and "warehoused" is never said of one that brought nothing
\* past the customs.
THEOREM ContractAndUnitsAgree ==
  ContractSpec => []ContractTypeOK /\ []ContractMatchesUnits
  <1>1. ContractInv => ContractTypeOK /\ ContractMatchesUnits
    BY DEF ContractInv, ContractMatchesUnits
  <1> QED
    BY <1>1, ContractInvariance, PTL

\* No request makes an obligation due that was paid or cancelled.
THEOREM ObligationsOnce == ContractSpec => ObligationOnce
  <1> DEFINE Once == \A k \in Kind : flow[k] \in {"actual", "cancelled"}
                                        => flow'[k] \in {"actual", "cancelled"}
  <1>1. ASSUME ContractInv, [ContractNext]_allVars PROVE Once
    <2>1. CASE Sign
      BY <1>1, <2>1 DEF ContractInv, Sign, DraftIsBlank
    <2>2. ASSUME NEW k \in Kind, MarkPaid(k) \/ PayFlow(k) \/ CancelFlow(k) PROVE Once
      BY <1>1, <2>2 DEF ContractInv, ContractTypeOK, MarkPaid, PayFlow, CancelFlow
    <2>3. ASSUME UNCHANGED flow PROVE Once
      BY <2>3
    <2> QED
      BY <1>1, <2>1, <2>2, <2>3
         DEF ContractNext, ContractStep, OtherStep, Cancel, BulkPick, BulkMove, AskRecompute,
             ReadContract, ReadUnits, WriteLifecycle, WorkerCut, contractVars, allVars
  <1>2. ContractInv /\ [ContractNext]_allVars => [Once]_allVars
    BY <1>1
  <1> QED
    BY <1>2, ContractInvariance, PTL DEF ContractSpec, ObligationOnce

\* The lifecycle goes back only when a recomputation writes over a contract that
\* is no longer the one it read.
THEOREM LifecycleBack == ContractSpec => BackOnlyFromStaleRead
  <1>1. ASSUME ContractInv, [ContractNext]_allVars, SetsBack PROVE StaleWrite
    <2>0. life \in DOMAIN Rank /\ Rank[life] \in Int
      BY <1>1, Ranks DEF ContractInv, ContractTypeOK
    <2>1. life' # life /\ life' # "cancelled"
      BY <1>1, <2>0 DEF SetsBack
    <2>2. CASE Sign
      BY <1>1, <2>0, <2>2, Ranks DEF ContractInv, Sign, DraftIsBlank, SetsBack
    <2>3. ASSUME NEW k \in Kind, MarkPaid(k) PROVE StaleWrite
      BY <1>1, <2>0, <2>1, <2>3, Ranks DEF MarkPaid, SetsBack
    <2>4. CASE Cancel
      BY <2>1, <2>4 DEF Cancel
    <2>5. ASSUME NEW w \in Worker, WriteLifecycle(w) PROVE StaleWrite
      <3>1. Advances(desk[w].seen, life') /\ Rank[life'] \in Int /\ desk[w].step = "write"
        BY <1>1, <2>5, Ranks DEF ContractInv, WritesAhead, WriteLifecycle
      <3>2. desk[w].seen # life
        BY <1>1, <2>0, <3>1 DEF Advances, SetsBack
      <3> QED
        BY <3>1, <3>2 DEF StaleWrite
    <2> QED
      BY <1>1, <2>1, <2>2, <2>3, <2>4, <2>5
         DEF ContractNext, ContractStep, OtherStep, PayFlow, CancelFlow, BulkPick, BulkMove,
             AskRecompute, ReadContract, ReadUnits, WorkerCut, contractVars, allVars
  <1>2. ContractInv /\ [ContractNext]_allVars => [SetsBack => StaleWrite]_allVars
    BY <1>1
  <1> QED
    BY <1>2, ContractInvariance, PTL DEF ContractSpec, BackOnlyFromStaleRead

\* Neither a contract nor its bulk actions undo a milestone of a unit, whatever
\* other requests do between their statements.
THEOREM ImportedMilestonesStay == ContractSpec => NeverBackwards
  <1> DEFINE On == \A u \in Unit : Past(status[u]) =< Past(status'[u])
  <1>1. ASSUME ContractInv, [ContractNext]_allVars PROVE On
    <2>0. TypeOK /\ ContractTypeOK /\ DraftIsBlank
      BY <1>1 DEF ContractInv
    <2>1. CASE Sign
      BY <2>0, <2>1, PastIsNat DEF Sign, DraftIsBlank, TypeOK, Past, Declared, InStock, Sold,
         Over
    <2>2. ASSUME NEW w \in Worker, BulkMove(w) PROVE On
      <3>1. desk[w].move \in Transitions
        BY <2>0, <2>2 DEF ContractTypeOK, Places, BulkMove, BulkMoves, Idle
      <3> SUFFICES ASSUME NEW u \in Unit PROVE Past(status[u]) =< Past(status'[u])
        OBVIOUS
      <3>2. CASE Moves(w, u)
        BY <2>2, <3>1, <3>2, ButtonsGoOn DEF BulkMove, Moves
      <3>3. CASE ~Moves(w, u)
        BY <2>2, <3>3, PastIsNat DEF BulkMove
      <3> QED
        BY <3>2, <3>3
    <2>3. CASE OtherStep
      <3>1. Next
        BY <2>3, OtherIsUnits DEF Next, UnitStep
      <3> QED
        BY <2>0, <3>1, UnitsGoOn
    <2>4. ASSUME status' = status PROVE On
      BY <2>4, PastIsNat
    <2> QED
      BY <1>1, <2>1, <2>2, <2>3, <2>4
         DEF ContractNext, ContractStep, Cancel, MarkPaid, PayFlow, CancelFlow, BulkPick,
             AskRecompute, ReadContract, ReadUnits, WriteLifecycle, WorkerCut, unitVars,
             allVars, vars
  <1>2. ContractInv /\ [ContractNext]_allVars => [On]_vars
    BY <1>1
  <1> QED
    BY <1>2, ContractInvariance, PTL DEF ContractSpec, NeverBackwards
=============================================================================
