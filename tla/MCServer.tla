------------------------------ MODULE MCServer ------------------------------
(***************************************************************************)
(* Small instances of Server for TLC: ids, workers and cancel requests are *)
(* model values, without symmetry because the run checks liveness.         *)
(***************************************************************************)
EXTENDS Server
=============================================================================
