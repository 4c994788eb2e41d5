--------------------------- MODULE ImportContracts -------------------------
(***************************************************************************)
(* An import contract (apps/core/src/imports/imports.service.ts) and the   *)
(* units it brings: signing creates the units and the payments that are    *)
(* due, a bulk action moves all the units that can be moved, and the       *)
(* lifecycle of the contract follows the statuses of its units.            *)
(*                                                                         *)
(* Handlers that lock the contract are one step, but a bulk action picks   *)
(* its units and then moves them, and does not lock their rows; and the    *)
(* lifecycle is recomputed without a lock: contract, units and write are   *)
(* statements of their own, after bulk actions and on request.  No code    *)
(* of src/ gives a unit its sale contract, so the phases "delivered" and   *)
(* "closed", which need one, are never computed.                           *)
(***************************************************************************)
EXTENDS Units

CONSTANTS Ordered,       \* the units of the contract
          Kind,          \* its payments with an amount: "prepayment", "balance"
          Worker         \* bulk actions and recomputations under way

ASSUME ImportAssumption ==
    /\ Ordered \subseteq Unit
    /\ Kind \subseteq {"prepayment", "balance"}

VARIABLES contract,      \* gr_import_contract.status
          life,          \* lifecycle_status
          paid,          \* the payments marked on the contract
          flow,          \* their money_flow rows
          desk           \* where each worker stands

contractVars == <<contract, life, paid, flow>>
unitVars == <<status, holdVars, saleVars>>
allVars == <<vars, contractVars, desk>>

ContractInit ==
    /\ Init
    /\ contract = "draft"
    /\ life = "draft"
    /\ paid = {}
    /\ flow = [k \in Kind |-> "none"]
    /\ desk = [w \in Worker |-> Idle]

BulkMoves ==
    {t \in Transitions :
        t.action \in {"mark-ready-to-ship", "mark-in-transit",
                      "mark-at-border", "mark-customs-im74",
                      "mark-customs-im40", "mark-delivered"}}

Active(s) == s \notin Over \cup {"absent"}

\* FOR UPDATE on the contract: a bulk action keeps it between its statements.
Unlocked == \A w \in Worker : desk[w].step # "picked"

---------------------------------------------------------------------------
\* The lifecycle: packages/shared/src/globerent/import-lifecycle.ts.

Rank == [cancelled |-> -1, draft |-> 0, signed |-> 1, paying |-> 2,
         shipping |-> 3, customs |-> 4, warehoused |-> 5]

Warehoused == {"DELIVERED_TO_WH", "IM40"}
Customs    == {"AT_BORDER", "CUSTOMS_CLEARANCE", "IM74"}
Shipping   == {"READY_FOR_SHIPMENT", "IN_TRANSIT_TO_BORDER", "IN_TRANSIT_TO_UZ"}

Meets(S, T) == S \cap T # {}

\* lifecycleFromUnits of statuses that are active: the first that applies.
Phase(statuses) ==
    IF Meets(statuses, Warehoused) THEN "warehoused"
    ELSE IF Meets(statuses, Customs) THEN "customs"
    ELSE IF Meets(statuses, Shipping) THEN "shipping" ELSE "signed"

OrderedStatuses == {status[u] : u \in {v \in Ordered : Active(status[v])}}

\* Mutant, as in the system this code was ported from: "paying" ranks as "draft".
AdvancesDonor(from, to) ==
    from # "cancelled" /\ (Rank[to] > Rank[from] \/ from = "paying")

\* monotonicLifecycleStep.
Advances(from, to) == from # "cancelled" /\ Rank[to] > Rank[from]

---------------------------------------------------------------------------
\* Requests on the contract.

\* Mutant: a contract is signed whatever its status.
SignAnyStatus ==
    /\ Unlocked
    /\ contract' = "in_progress"
    /\ life' = "signed"
    /\ status' = [u \in Unit |->
                    IF u \in Ordered /\ status[u] = "absent"
                    THEN "CONTRACT_SIGNED" ELSE status[u]]
    /\ flow' = [k \in Kind |-> "planned"]
    /\ UNCHANGED <<paid, holdVars, saleVars, faults, desk>>

\* Status, units and the payment plan are one transaction.
Sign ==
    /\ Unlocked
    /\ contract = "draft"
    /\ contract' = "in_progress"
    /\ life' = "signed"
    /\ status' = [u \in Unit |->
                    IF u \in Ordered THEN "CONTRACT_SIGNED" ELSE status[u]]
    /\ flow' = [k \in Kind |-> "planned"]
    /\ UNCHANGED <<paid, holdVars, saleVars, faults, desk>>

\* markPaid looks at no status of the contract, and closes the payment only
\* when it is still planned.
MarkPaid(k) ==
    /\ Unlocked
    /\ k \notin paid
    /\ paid' = paid \cup {k}
    /\ life' = IF k = "prepayment" /\ life = "signed" THEN "paying" ELSE life
    /\ flow' = [flow EXCEPT ![k] = IF @ = "planned" THEN "actual" ELSE @]
    /\ UNCHANGED <<contract, unitVars, faults, desk>>

\* The finance screen closes or cancels the row without the contract.
PayFlow(k) ==
    /\ flow[k] = "planned"
    /\ flow' = [flow EXCEPT ![k] = "actual"]
    /\ UNCHANGED <<contract, life, paid, unitVars, faults, desk>>

CancelFlow(k) ==
    /\ flow[k] \in {"planned", "actual"}
    /\ flow' = [flow EXCEPT ![k] = "cancelled"]
    /\ UNCHANGED <<contract, life, paid, unitVars, faults, desk>>

\* Mutant: units that nobody has begun to make do not count as linked.
CancelUnlessMade ==
    /\ Unlocked
    /\ contract # "cancelled"
    /\ OrderedStatuses \subseteq {"CONTRACT_SIGNED"}
    /\ contract' = "cancelled"
    /\ life' = "cancelled"
    /\ UNCHANGED <<paid, flow, unitVars, faults, desk>>

Cancel ==
    /\ Unlocked
    /\ contract # "cancelled"
    /\ OrderedStatuses = {}
    /\ contract' = "cancelled"
    /\ life' = "cancelled"
    /\ UNCHANGED <<paid, flow, unitVars, faults, desk>>

---------------------------------------------------------------------------
\* bulkUnitAction: pick under the lock, move, commit, then recompute.

BulkPick(w, t) ==
    /\ desk[w] = Idle
    /\ Unlocked
    /\ desk' = [desk EXCEPT ![w] =
                   [step |-> "picked", move |-> t,
                    units |-> {u \in Ordered : status[u] \in t.from}]]
    /\ UNCHANGED <<contractVars, unitVars, faults>>

Moves(w, u) == u \in desk[w].units /\ status[u] \in desk[w].move.from

BulkMove(w) ==
    /\ desk[w].step = "picked"
    /\ status' = [u \in Unit |->
                    IF Moves(w, u) THEN desk[w].move.to ELSE status[u]]
    /\ desk' = [desk EXCEPT ![w] = [step |-> "due"]]
    /\ UNCHANGED <<contractVars, holdVars, saleVars, faults>>

\* The recompute endpoint.
AskRecompute(w) ==
    /\ desk[w] = Idle
    /\ desk' = [desk EXCEPT ![w] = [step |-> "due"]]
    /\ UNCHANGED <<contractVars, unitVars, faults>>

ReadContract(w) ==
    /\ desk[w].step = "due"
    /\ desk' = [desk EXCEPT ![w] = [step |-> "read", seen |-> life]]
    /\ UNCHANGED <<contractVars, unitVars, faults>>

\* Nothing to do without active units or when the phase is not ahead.
ReadUnits(w) ==
    /\ desk[w].step = "read"
    /\ LET to == Phase(OrderedStatuses) IN
       desk' = [desk EXCEPT ![w] =
                  IF OrderedStatuses # {} /\ Advances(@.seen, to)
                  THEN [step |-> "write", seen |-> @.seen, to |-> to]
                  ELSE Idle]
    /\ UNCHANGED <<contractVars, unitVars, faults>>

\* The update names the contract only: it does not look at what is there.
WriteLifecycle(w) ==
    /\ desk[w].step = "write"
    /\ Unlocked
    /\ life' = desk[w].to
    /\ desk' = [desk EXCEPT ![w] = Idle]
    /\ UNCHANGED <<contract, paid, flow, unitVars, faults>>

\* The request is cut off: an open transaction is rolled back.
WorkerCut(w) ==
    /\ desk[w] # Idle
    /\ desk' = [desk EXCEPT ![w] = Idle]
    /\ UNCHANGED <<contractVars, unitVars, faults>>

---------------------------------------------------------------------------

ContractStep ==
    \/ Sign
    \/ Cancel
    \/ \E k \in Kind : MarkPaid(k) \/ PayFlow(k) \/ CancelFlow(k)
    \/ \E w \in Worker :
          \/ \E t \in BulkMoves : BulkPick(w, t)
          \/ BulkMove(w) \/ AskRecompute(w) \/ ReadContract(w)
          \/ ReadUnits(w) \/ WriteLifecycle(w) \/ WorkerCut(w)

\* The units of the contract exist once it is signed; the others come and go.
OtherStep ==
    /\ \/ \E u \in Unit :
             \/ u \notin Ordered /\ Create(u)
             \/ \E t \in Transitions : ApplyAction(u, t)
             \/ UnbindVin(u)
       \/ HoldStep
       \/ SaleStep
    /\ UNCHANGED <<contractVars, desk>>

ContractNext == ContractStep \/ OtherStep

ContractSpec == ContractInit /\ [][ContractNext]_allVars

---------------------------------------------------------------------------

Places ==
    {Idle, [step |-> "due"]}
      \cup [step : {"picked"}, move : BulkMoves, units : SUBSET Ordered]
      \cup [step : {"read"}, seen : DOMAIN Rank]
      \cup [step : {"write"}, seen : DOMAIN Rank, to : DOMAIN Rank]

\* State of the contract's row, its payments and the requests on it.
ContractTypeOK ==
    /\ contract \in {"draft", "in_progress", "cancelled"}
    /\ life \in DOMAIN Rank
    /\ paid \subseteq Kind
    /\ flow \in [Kind -> {"none", "planned", "actual", "cancelled"}]
    /\ desk \in [Worker -> Places]

\* A cancelled contract has no unit under way, and none comes back to life
\* under it: not from a bulk action that picked units before they were
\* cancelled, and not from signing (imports.service.ts:581).
CancelledHasNoUnits ==
    contract = "cancelled" => \A u \in Ordered : ~Active(status[u])

PastCustoms == Declared \cup InStock \cup Sold \cup {"ARCHIVED"}

\* The contract counts as warehoused only when one of its units really got
\* past the customs, however late the recomputation that says so is written
\* and whatever was rolled back meanwhile.
WarehousedIsReal ==
    life = "warehoused" => \E u \in Ordered : status[u] \in PastCustoms

\* What the contract says of its units is so, although it is written after
\* them, without their locks and from what was read before.
ContractMatchesUnits == CancelledHasNoUnits /\ WarehousedIsReal

\* An obligation to the factory that was paid or cancelled does not become
\* due a second time: signing is the only source of it (imports.service.ts:250).
ObligationOnce ==
    [][\A k \in Kind : flow[k] \in {"actual", "cancelled"}
                          => flow'[k] \in {"actual", "cancelled"}]_allVars

\* markPaid says that the mark on the contract and the closed obligation are
\* one fact (imports.service.ts:383): a payment that is marked is not due.
MarkedIsSettled == \A k \in paid : flow[k] # "planned"

\* The lifecycle goes back, or leaves "cancelled".
SetsBack == IF life = "cancelled" THEN life' # "cancelled"
            ELSE life' # "cancelled" /\ Rank[life'] < Rank[life]

StaleWrite ==
    \E w \in Worker : desk[w].step = "write" /\ desk[w].seen # life

\* The lifecycle is set back only when a recomputation writes although the
\* contract has changed since that recomputation read it.
BackOnlyFromStaleRead == [][SetsBack => StaleWrite]_allVars

\* import-lifecycle.ts:4 says of the lifecycle that it only goes forward, and
\* that "closed" and "cancelled" are not synchronised any more.
LifecycleForward == [][~SetsBack]_allVars
=============================================================================
