---------------------------- MODULE LedgerBudget ----------------------------
(***************************************************************************)
(* The llm_spend table (apps/core/src/llm-ledger/llm-ledger.service.ts)    *)
(* and what the ledger promises about it: reservations that fit the day's  *)
(* caps and an unbroken provider, and one final close per row.  Module     *)
(* LlmLedger implements it with concurrent transactions.                   *)
(***************************************************************************)
EXTENDS Integers, Functions

CONSTANTS Request,      \* request keys
          Provider, Agent,
          AgentOf,      \* the agent a request is booked on
          Cost,         \* reserveProviderRouteCostNano of a request
          GlobalCap, AgentCap,
          Settlement,   \* close payloads: [outcome, actual, mismatch]
          Day

\* actual: the cost the catalogue or the provider gives, Unpriced for none.
Unpriced == -1

ASSUME LedgerAssumption ==
    /\ AgentOf \in [Request -> Agent]
    /\ Cost \in [Request -> Nat]
    /\ GlobalCap \in Nat /\ AgentCap \in [Agent -> Nat]
    /\ Day \subseteq Nat \ {0}
    /\ \A s \in Settlement : /\ s.outcome \in {"success", "provider_error", "unknown"}
                             /\ s.actual \in Nat \union {Unpriced}
                             /\ s.mismatch \in BOOLEAN

VARIABLES status, provider, billDay,
          outcome,      \* storedOutcome of a settlement
          actual,       \* actualUsd, Unpriced for null
          closing,      \* settlementHash, or the reason of a release
          circuitDay    \* day of failedAt if the settlement opened the circuit, else 0

row == <<status, provider, billDay, outcome, actual, closing, circuitDay>>

None    == "none"
Closed  == {"settled", "failed", "released", "denied"}

\* A release is closed by its reason: the caller's or that of the recovery.
NoClosing == [outcome |-> None, actual |-> Unpriced, mismatch |-> FALSE]
Releases == {[NoClosing EXCEPT !.outcome = reason] :
                reason \in {"not dispatched", "pre-dispatch recovery"}}

RowType ==
    /\ status \in [Request -> {None, "reserved"} \union Closed]
    /\ provider \in [Request -> Provider \union {None}]
    /\ billDay \in [Request -> Day \union {0}]
    /\ outcome \in [Request -> {None, "success", "provider_error", "unknown"}]
    /\ actual \in [Request -> Nat \union {Unpriced}]
    /\ closing \in [Request -> Settlement \union Releases \union {NoClosing}]
    /\ circuitDay \in [Request -> Day \union {0}]

EmptyTable ==
    /\ status = [k \in Request |-> None]
    /\ provider = [k \in Request |-> None]
    /\ billDay = [k \in Request |-> 0]
    /\ outcome = [k \in Request |-> None]
    /\ actual = [k \in Request |-> Unpriced]
    /\ closing = [k \in Request |-> NoClosing]
    /\ circuitDay = [k \in Request |-> 0]

-----------------------------------------------------------------------------
(* Exposure and admission *)

Larger(m, n) == IF m > n THEN m ELSE n

\* exposureSumSql for one row: what the call has cost or may still cost.
Exposed(k) ==
    CASE status[k] = "reserved" -> Cost[k]
      [] status[k] = "settled"  -> Larger(0, actual[k])
      [] status[k] = "failed" /\ outcome[k] = "unknown" -> Larger(Cost[k], actual[k])
      [] status[k] = "failed"   -> IF actual[k] = Unpriced THEN Cost[k] ELSE actual[k]
      [] OTHER -> 0

Exposure(d) == SumFunction([k \in {j \in Request : billDay[j] = d} |-> Exposed(k)])

AgentExposure(d, a) ==
    SumFunction([k \in {j \in Request : billDay[j] = d /\ AgentOf[j] = a} |-> Exposed(k)])

\* The new reservation fits under the day's global and per-agent caps.
Fits(k, d) ==
    /\ Exposure(d) + Cost[k] <= GlobalCap
    /\ AgentExposure(d, AgentOf[k]) + Cost[k] <= AgentCap[AgentOf[k]]

\* providerCircuit: an anomaly of this provider was recorded on day d.
CircuitOpen(p, d) ==
    \E k \in Request : /\ provider[k] = p
                       /\ status[k] = "failed" /\ outcome[k] = "unknown"
                       /\ circuitDay[k] = d

-----------------------------------------------------------------------------
(* What the statements of the service write *)

InsertRow(k, p, d, s) ==
    /\ status' = [status EXCEPT ![k] = s]
    /\ provider' = [provider EXCEPT ![k] = p]
    /\ billDay' = [billDay EXCEPT ![k] = d]
    /\ UNCHANGED <<outcome, actual, closing, circuitDay>>

\* classifySettlementAnomaly: a foreign model, or a success without a price.
Anomaly(s) == s.mismatch \/ (s.outcome = "success" /\ s.actual = Unpriced)

\* settleInTx on day d; an anomaly is stored as unknown, a foreign model trips the circuit.
WriteSettlement(k, s, d) ==
    /\ status' = [status EXCEPT ![k] = IF s.outcome = "success" /\ ~Anomaly(s)
                                       THEN "settled" ELSE "failed"]
    /\ outcome' = [outcome EXCEPT ![k] = IF Anomaly(s) THEN "unknown" ELSE s.outcome]
    /\ actual' = [actual EXCEPT ![k] = s.actual]
    /\ closing' = [closing EXCEPT ![k] = s]
    /\ circuitDay' = [circuitDay EXCEPT ![k] = IF s.mismatch THEN d ELSE 0]
    /\ UNCHANGED <<provider, billDay>>

WriteRelease(k, reason) ==
    /\ status' = [status EXCEPT ![k] = "released"]
    /\ closing' = [closing EXCEPT ![k] = reason]
    /\ UNCHANGED <<provider, billDay, outcome, actual, circuitDay>>

-----------------------------------------------------------------------------
(* The promise *)

Admit(k, p, d) ==
    /\ status[k] = None
    /\ Fits(k, d)
    /\ ~CircuitOpen(p, d)
    /\ InsertRow(k, p, d, "reserved")

Deny(k, p, d) == status[k] = None /\ InsertRow(k, p, d, "denied")

Settle(k, s, d) == status[k] = "reserved" /\ WriteSettlement(k, s, d)

Release(k, reason) == status[k] = "reserved" /\ WriteRelease(k, reason)

BudgetNext ==
    \E k \in Request :
        \/ \E p \in Provider, d \in Day : Admit(k, p, d) \/ Deny(k, p, d)
        \/ \E s \in Settlement, d \in Day : Settle(k, s, d)
        \/ \E reason \in Releases : Release(k, reason)

BudgetSpec == EmptyTable /\ [][BudgetNext]_row
=============================================================================
