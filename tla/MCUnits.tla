------------------------------ MODULE MCUnits ------------------------------
(***************************************************************************)
(* Units for TLC.  Sweeps and accruals are interchangeable, but the run    *)
(* checks a liveness property, for which a symmetry set is not sound.      *)
(***************************************************************************)
EXTENDS Units
=============================================================================
