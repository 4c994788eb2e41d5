------------------------- MODULE MCSettlementOutbox -------------------------
(* One drainer, as the one poll loop of a deployment runs it, one or two    *)
(* submissions of the key, and crashes of both sides.  A second drainer     *)
(* appears only in the run of its own hazard.                               *)
EXTENDS SettlementOutbox
=============================================================================
