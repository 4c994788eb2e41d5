---------------------------- MODULE MCLlmLedger -----------------------------
(* A request key and a job with a key for each of two days, of one agent,   *)
(* whose reservations do not fit together under the cap (a failed call may  *)
(* still cost more than it reserved), and two providers.                    *)
EXTENDS LlmLedger

CONSTANTS k1, j1, j2

MCKeyOn == [k \in Request |-> [d \in Day |->
              IF k = k1 THEN k1 ELSE IF d = 1 THEN j1 ELSE j2]]

MCAgentOf == [k \in Request |-> "agent"]
MCCost == [k \in Request |-> 1]
MCAgentCap == [a \in Agent |-> 1]

MCSettlement ==
    { [outcome |-> "success", actual |-> 0, mismatch |-> FALSE],
      [outcome |-> "success", actual |-> 2, mismatch |-> TRUE],
      [outcome |-> "provider_error", actual |-> Unpriced, mismatch |-> FALSE] }
=============================================================================
