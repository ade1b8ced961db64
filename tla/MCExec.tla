------------------------------- MODULE MCExec -------------------------------
(***************************************************************************)
(* Small instances of Exec for TLC: Kids are model values.  There is no    *)
(* symmetry, because the runs check liveness.                              *)
(***************************************************************************)
EXTENDS Exec
=============================================================================
