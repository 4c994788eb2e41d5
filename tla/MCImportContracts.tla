------------------------- MODULE MCImportContracts -------------------------
(***************************************************************************)
(* ImportContracts for TLC: the units of one contract are interchangeable, *)
(* and so are the requests.                                                *)
(***************************************************************************)
EXTENDS ImportContracts, TLC

Alike == Permutations(Unit) \cup Permutations(Worker)
=============================================================================
