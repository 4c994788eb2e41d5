--------------------------- MODULE MCCardApprovals -------------------------
(***************************************************************************)
(* CardApprovals for TLC: the requests are interchangeable.                *)
(***************************************************************************)
EXTENDS CardApprovals, TLC

Alike == Permutations(Call)
=============================================================================
