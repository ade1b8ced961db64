------------------------------- MODULE MCQueue ------------------------------
(***************************************************************************)
(* Small instances of Queue for TLC.  Runs, workers and cancel requests    *)
(* are model values; Actors is their union, as QueueAssumption wants it.   *)
(***************************************************************************)
EXTENDS Queue, TLC

Symmetry == Permutations(Runs) \union Permutations(Workers) \union Permutations(Cancels)
=============================================================================
