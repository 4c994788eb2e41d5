--------------------------- MODULE MCParityIssues --------------------------
(***************************************************************************)
(* ParityIssues for TLC.                                                   *)
(***************************************************************************)
EXTENDS ParityIssues

Transitions == {"opened", "resolved"} \X (1 .. MaxEpisode)
=============================================================================
