------------------------------- MODULE Units -------------------------------
(***************************************************************************)
(* The stock of machines (apps/core/src/units/units.service.ts): the       *)
(* status of each unit on its way from the factory to the customer, the    *)
(* hold a customer has on it until a date, and the commission that closing *)
(* its sale accrues.                                                       *)
(*                                                                         *)
(* A handler locks the row of the unit and is one step.  Two are not: the  *)
(* sweep of lapsed holds, which every read of the list makes in two        *)
(* statements of their own, and the accrual, which follows the commit of   *)
(* the sale in statements of their own.  A statement that waits for a row  *)
(* checks its WHERE again on the new row, but a subquery in it keeps the   *)
(* snapshot the statement began with (PostgreSQL, READ COMMITTED).         *)
(***************************************************************************)
EXTENDS Integers, FiniteSets

CONSTANTS Unit,
          Sweep,         \* reads of the list under way
          Closer,        \* requests that close a sale
          Retail,        \* the units the sales desk works on
          MaxDay,
          MaxClosings,   \* times one sale is closed
          MaxFaults      \* requests cut off half-way

ASSUME UnitsAssumption ==
    /\ Retail \subseteq Unit
    /\ IsFiniteSet(Closer)
    /\ MaxDay \in Nat /\ MaxClosings \in Nat /\ MaxFaults \in Nat

VARIABLES today,
          status,        \* globerent_unit.status, "absent" before the row exists
          held,          \* end date of the active unit_reserve row, NoHold without one
          stage,         \* sales_stage: "none", "open" or "closed"
          sweep,         \* where each sweep stands
          listed,        \* the units its second statement found free
          renewed,       \* history: those reserved since that statement began
          closer,        \* where each accrual stands
          closings,      \* sales committed as CLOSED, by unit
          commission,    \* commission rows in money_flow, by unit
          notAccrued,    \* notices that say the commission was not accrued
          doubtful,      \* inserts reported as failed that were committed
          faults

holdVars == <<today, held, sweep, listed, renewed>>
saleVars == <<stage, closer, closings, commission, notAccrued, doubtful>>
vars == <<status, holdVars, saleVars, faults>>

NoHold == -1

Statuses ==
    {"NEW_REQUEST", "CONTRACT_SIGNED", "IN_PRODUCTION", "READY_FOR_SHIPMENT",
     "IN_TRANSIT_TO_BORDER", "IN_TRANSIT_TO_UZ", "AT_BORDER",
     "CUSTOMS_CLEARANCE", "IM74", "IM40", "DELIVERED_TO_WH", "IN_STOCK",
     "RESERVED", "SOLD", "DELIVERED_TO_CLIENT", "ARCHIVED", "CANCELLED"}

Move(action, from, to) == [action |-> action, from |-> from, to |-> to]

Transitions ==
    {Move("mark-in-production", {"CONTRACT_SIGNED"}, "IN_PRODUCTION"),
     Move("mark-ready-to-ship", {"CONTRACT_SIGNED", "IN_PRODUCTION"},
          "READY_FOR_SHIPMENT"),
     Move("mark-in-transit",
          {"CUSTOMS_CLEARANCE", "AT_BORDER", "READY_FOR_SHIPMENT",
           "IN_TRANSIT_TO_BORDER"}, "IN_TRANSIT_TO_UZ"),
     Move("mark-at-border",
          {"IN_TRANSIT_TO_BORDER", "IN_TRANSIT_TO_UZ", "READY_FOR_SHIPMENT"},
          "AT_BORDER"),
     Move("mark-customs-im74",
          {"IN_TRANSIT_TO_UZ", "AT_BORDER", "CUSTOMS_CLEARANCE"}, "IM74"),
     Move("mark-customs-im40",
          {"IN_TRANSIT_TO_UZ", "AT_BORDER", "CUSTOMS_CLEARANCE", "IM74"},
          "IM40"),
     Move("mark-delivered",
          {"IM74", "IM40", "IN_TRANSIT_TO_UZ", "AT_BORDER"},
          "DELIVERED_TO_WH"),
     Move("to-stock", {"DELIVERED_TO_WH"}, "IN_STOCK"),
     Move("mark-sold", {"IN_STOCK", "RESERVED", "DELIVERED_TO_WH"}, "SOLD"),
     Move("mark-handover", {"SOLD"}, "DELIVERED_TO_CLIENT"),
     Move("cancel", {"NEW_REQUEST", "CONTRACT_SIGNED", "IN_PRODUCTION"},
          "CANCELLED"),
     Move("archive", {"DELIVERED_TO_CLIENT", "CANCELLED"}, "ARCHIVED")}

VinUnbindAllowed == {"IN_TRANSIT_TO_UZ", "CONTRACT_SIGNED"}
ReserveAllowed   == {"IN_STOCK", "DELIVERED_TO_WH"}
SaleStartAllowed == ReserveAllowed \cup {"RESERVED"}

Held(u)   == held[u] # NoHold
Lapsed(u) == Held(u) /\ held[u] < today

\* Mutant: the reserve rows are not looked at.
FreeThoughHeld(u) == status[u] = "RESERVED"

\* Mutant: only a unit whose hold has lapsed, not one that lost it, is free.
FreeLapsedOnly(u) == status[u] = "RESERVED" /\ Lapsed(u)

Free(u) == status[u] = "RESERVED" /\ ~Held(u)

Idle == [step |-> "idle"]

Init ==
    /\ today = 0
    /\ status = [u \in Unit |-> "absent"]
    /\ held = [u \in Unit |-> NoHold]
    /\ stage = [u \in Unit |-> "none"]
    /\ sweep = [s \in Sweep |-> "idle"]
    /\ listed = [s \in Sweep |-> {}]
    /\ renewed = [s \in Sweep |-> {}]
    /\ closer = [c \in Closer |-> Idle]
    /\ closings = [u \in Unit |-> 0]
    /\ commission = [u \in Unit |-> 0]
    /\ notAccrued = [u \in Unit |-> 0]
    /\ doubtful = [u \in Unit |-> 0]
    /\ faults = 0

SetStatus(u, s) == status' = [status EXCEPT ![u] = s]

---------------------------------------------------------------------------
\* The life of a unit.

\* create: a request, or a machine already in stock; signing an import
\* contract brings machines that are ordered, and the import of the registry
\* also machines the customer has.
Create(u) ==
    /\ status[u] = "absent"
    /\ \E s \in {"NEW_REQUEST", "CONTRACT_SIGNED", "IN_STOCK", "DELIVERED_TO_CLIENT"} :
          SetStatus(u, s)
    /\ UNCHANGED <<holdVars, saleVars, faults>>

\* applyAction; a hold on the unit is left as it is.
ApplyAction(u, t) ==
    /\ status[u] \in t.from
    /\ SetStatus(u, t.to)
    /\ UNCHANGED <<holdVars, saleVars, faults>>

UnbindVin(u) ==
    /\ status[u] \in VinUnbindAllowed
    /\ SetStatus(u, "CONTRACT_SIGNED")
    /\ UNCHANGED <<holdVars, saleVars, faults>>

NewDay ==
    /\ today < MaxDay
    /\ today' = today + 1
    /\ UNCHANGED <<status, held, sweep, listed, renewed, saleVars, faults>>

---------------------------------------------------------------------------
\* Holds.

Reserve(u, end) ==
    /\ u \in Retail
    /\ end >= today
    /\ status[u] \in ReserveAllowed
    /\ ~Held(u)
    /\ held' = [held EXCEPT ![u] = end]
    /\ SetStatus(u, "RESERVED")
    /\ renewed' = [s \in Sweep |->
                      IF sweep[s] = "listed" THEN renewed[s] \cup {u} ELSE renewed[s]]
    /\ UNCHANGED <<today, sweep, listed, saleVars, faults>>

\* cancelReserve also ends the hold on a unit that is no longer RESERVED.
CancelReserve(u) ==
    /\ u \in Retail
    /\ status[u] # "absent"
    /\ held' = [held EXCEPT ![u] = NoHold]
    /\ SetStatus(u, IF status[u] = "RESERVED" THEN "IN_STOCK" ELSE status[u])
    /\ UNCHANGED <<today, sweep, listed, renewed, saleVars, faults>>

\* expireReserves, first statement.
ExpireHolds(s) ==
    /\ sweep[s] = "idle"
    /\ held' = [u \in Unit |-> IF Lapsed(u) THEN NoHold ELSE held[u]]
    /\ sweep' = [sweep EXCEPT ![s] = "expired"]
    /\ UNCHANGED <<today, status, listed, renewed, saleVars, faults>>

\* Second statement: its snapshot, and then its rows.
ListFree(s) ==
    /\ sweep[s] = "expired"
    /\ listed' = [listed EXCEPT ![s] = {u \in Unit : Free(u)}]
    /\ sweep' = [sweep EXCEPT ![s] = "listed"]
    /\ UNCHANGED <<today, status, held, renewed, saleVars, faults>>

\* Mutant: the status is not checked again on the row.
StillListedAnyStatus(s, u) == u \in listed[s]

StillListed(s, u) == u \in listed[s] /\ status[u] = "RESERVED"

FreeListed(s) ==
    /\ sweep[s] = "listed"
    /\ status' = [u \in Unit |->
                     IF StillListed(s, u) THEN "IN_STOCK" ELSE status[u]]
    /\ listed' = [listed EXCEPT ![s] = {}]
    /\ renewed' = [renewed EXCEPT ![s] = {}]
    /\ sweep' = [sweep EXCEPT ![s] = "idle"]
    /\ UNCHANGED <<today, held, saleVars, faults>>

SweepCut(s) ==
    /\ sweep[s] # "idle"
    /\ faults < MaxFaults
    /\ faults' = faults + 1
    /\ listed' = [listed EXCEPT ![s] = {}]
    /\ renewed' = [renewed EXCEPT ![s] = {}]
    /\ sweep' = [sweep EXCEPT ![s] = "idle"]
    /\ UNCHANGED <<today, status, held, saleVars>>

---------------------------------------------------------------------------
\* Sales and the commission.

MaySell(u) ==
    /\ u \in Retail
    /\ status[u] # "absent"
    /\ stage[u] = "none" => status[u] \in SaleStartAllowed

\* setSalesStage with any stage but CLOSED; the price some of them require is
\* part of the request.
SetSalesStage(u) ==
    /\ MaySell(u)
    /\ stage' = [stage EXCEPT ![u] = "open"]
    /\ UNCHANGED <<status, holdVars, closer, closings, commission, notAccrued,
                   doubtful, faults>>

\* setSalesStage with CLOSED: committed, the accrual is still to come.
CloseSale(c, u) ==
    /\ MaySell(u)
    /\ closer[c] = Idle
    /\ closings[u] < MaxClosings
    /\ stage' = [stage EXCEPT ![u] = "closed"]
    /\ closings' = [closings EXCEPT ![u] = @ + 1]
    /\ closer' = [closer EXCEPT ![c] = [step |-> "due", unit |-> u]]
    /\ UNCHANGED <<status, holdVars, commission, notAccrued, doubtful, faults>>

Accruing(c, step) == closer[c].step = step
Done(c) == closer' = [closer EXCEPT ![c] = Idle]

\* The row is in money_flow; audit and event, the trail, are still to come.
AccrueRow(c) ==
    /\ Accruing(c, "due")
    /\ commission' = [commission EXCEPT ![closer[c].unit] = @ + 1]
    /\ closer' = [closer EXCEPT ![c].step = "rowed"]
    /\ UNCHANGED <<status, holdVars, stage, closings, notAccrued, doubtful,
                   faults>>

\* The method gives nothing, and unit.sale_closed says so.
AccrueNothing(c) ==
    /\ Accruing(c, "due")
    /\ Done(c)
    /\ UNCHANGED <<status, holdVars, stage, closings, commission, notAccrued,
                   doubtful, faults>>

\* Anything before the row, or the row itself, fails: unit.commission_failed
\* without a row id, which the operator may act upon.
AccrueFails(c) ==
    /\ Accruing(c, "due")
    /\ faults < MaxFaults
    /\ faults' = faults + 1
    /\ notAccrued' = [notAccrued EXCEPT ![closer[c].unit] = @ + 1]
    /\ Done(c)
    /\ UNCHANGED <<status, holdVars, stage, closings, commission, doubtful>>

\* The insert is committed and its answer lost: the code cannot tell.
AccrueInDoubt(c) ==
    /\ Accruing(c, "due")
    /\ faults < MaxFaults
    /\ faults' = faults + 1
    /\ commission' = [commission EXCEPT ![closer[c].unit] = @ + 1]
    /\ doubtful' = [doubtful EXCEPT ![closer[c].unit] = @ + 1]
    /\ notAccrued' = [notAccrued EXCEPT ![closer[c].unit] = @ + 1]
    /\ Done(c)
    /\ UNCHANGED <<status, holdVars, stage, closings>>

\* Mutant: the failed trail reads as a commission that was not accrued.
TrailEndsAsNotAccrued(c) ==
    /\ Accruing(c, "rowed")
    /\ notAccrued' = [notAccrued EXCEPT ![closer[c].unit] = @ + 1]
    /\ Done(c)
    /\ UNCHANGED <<status, holdVars, stage, closings, commission, doubtful,
                   faults>>

\* The trail is written, or fails: then CommissionTrailError carries the id
\* of the row, and the notice says not to enter it again.
TrailEnds(c) ==
    /\ Accruing(c, "rowed")
    /\ Done(c)
    /\ UNCHANGED <<status, holdVars, stage, closings, commission, notAccrued,
                   doubtful, faults>>

\* The process stops: the sale stays closed, nothing is accrued or said.
CloserCut(c) ==
    /\ closer[c] # Idle
    /\ faults < MaxFaults
    /\ faults' = faults + 1
    /\ Done(c)
    /\ UNCHANGED <<status, holdVars, stage, closings, commission, notAccrued,
                   doubtful>>

\* The operator reads that the commission was not accrued and enters it.
EnterByHand(u) ==
    /\ notAccrued[u] > 0
    /\ notAccrued' = [notAccrued EXCEPT ![u] = @ - 1]
    /\ commission' = [commission EXCEPT ![u] = @ + 1]
    /\ UNCHANGED <<status, holdVars, stage, closer, closings, doubtful, faults>>

---------------------------------------------------------------------------

UnitStep(u) ==
    \/ Create(u)
    \/ \E t \in Transitions : ApplyAction(u, t)
    \/ UnbindVin(u)

HoldStep ==
    \/ NewDay
    \/ \E u \in Unit : CancelReserve(u) \/ \E d \in 0 .. MaxDay : Reserve(u, d)
    \/ \E s \in Sweep :
          ExpireHolds(s) \/ ListFree(s) \/ FreeListed(s) \/ SweepCut(s)

SaleStep ==
    \/ \E u \in Unit : SetSalesStage(u) \/ EnterByHand(u)
    \/ \E c \in Closer, u \in Unit : CloseSale(c, u)
    \/ \E c \in Closer :
          \/ AccrueRow(c) \/ AccrueNothing(c) \/ AccrueFails(c)
          \/ AccrueInDoubt(c) \/ TrailEnds(c) \/ CloserCut(c)

Next == (\E u \in Unit : UnitStep(u)) \/ HoldStep \/ SaleStep

\* Monitors, briefings and the panel read the list again and again, and a
\* statement that has begun ends.
Fairness ==
    \A s \in Sweep : /\ WF_vars(ExpireHolds(s)) /\ WF_vars(ListFree(s))
                     /\ WF_vars(FreeListed(s))

Spec == Init /\ [][Next]_vars /\ Fairness

---------------------------------------------------------------------------

\* State of the rows: globerent_unit, unit_reserve, money_flow, the requests.
TypeOK ==
    /\ today \in Nat
    /\ status \in [Unit -> Statuses \cup {"absent"}]
    /\ held \in [Unit -> Nat \cup {NoHold}]
    /\ stage \in [Unit -> {"none", "open", "closed"}]
    /\ sweep \in [Sweep -> {"idle", "expired", "listed"}]
    /\ listed \in [Sweep -> SUBSET Unit] /\ renewed \in [Sweep -> SUBSET Unit]
    /\ closer \in [Closer -> {Idle} \cup [step : {"due", "rowed"}, unit : Unit]]
    /\ closings \in [Unit -> Nat] /\ commission \in [Unit -> Nat]
    /\ notAccrued \in [Unit -> Nat] /\ doubtful \in [Unit -> Nat]
    /\ faults \in Nat

Declared == {"IM74", "IM40"}
InStock  == {"DELIVERED_TO_WH", "IN_STOCK", "RESERVED"}
Sold     == {"SOLD", "DELIVERED_TO_CLIENT"}
Over     == {"ARCHIVED", "CANCELLED"}
Past(s) == CASE s \in Declared -> 1
             [] s \in InStock -> 2
             [] s \in Sold -> 3
             [] s \in Over -> 4
             [] OTHER -> 0

\* A machine declared at the customs is never back on the road, one in stock
\* never back at the customs, and one that was sold is never offered again:
\* no button, bulk action, VIN rollback or late sweep undoes a milestone.
NeverBackwards ==
    [][\A u \in Unit : Past(status[u]) =< Past(status'[u])]_vars

\* Sweep s ends, and u was reserved after its second statement had begun.
Overtaken(s, u) == u \in renewed[s] /\ sweep'[s] = "idle"

\* A unit held until today or later leaves RESERVED only when it is sold or
\* when its hold ends with it.  The sweep takes it out in one case only: the
\* hold was made after the statement that frees the unit had begun.
HoldRespected ==
    [][\A u \in Unit :
          status[u] = "RESERVED" /\ held[u] >= today
             => \/ status'[u] \in {"RESERVED", "SOLD"} /\ held'[u] = held[u]
                \/ status'[u] = "IN_STOCK" /\ held'[u] = NoHold
                \/ status'[u] = "IN_STOCK" /\ \E s \in Sweep : Overtaken(s, u)]_vars

\* units.service.ts:109 says of the sweep that it puts RESERVED units without
\* an active reserve back to IN_STOCK: a unit back in stock has no hold.
FreedOnlyUnheld ==
    [][\A u \in Unit :
          status[u] = "RESERVED" /\ status'[u] = "IN_STOCK" => held'[u] = NoHold]_vars

\* What has been paid or may still be entered by hand is at most one
\* commission for each closing, inserts in doubt aside: a failure of the
\* trail must not read as "not accrued" (units.service.ts:510-514).
CommissionPerClosing ==
    \A u \in Unit :
        commission[u] + notAccrued[u] =< closings[u] + doubtful[u]

\* A hold whose date has passed does not keep its unit out of stock, whatever
\* sweep dies between its statements.
LapsedReserveFrees ==
    \A u \in Unit :
        (status[u] = "RESERVED" /\ held[u] < today)
            ~> ~(status[u] = "RESERVED" /\ held[u] < today)
=============================================================================
