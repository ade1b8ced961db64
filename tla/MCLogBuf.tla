------------------------------ MODULE MCLogBuf ------------------------------
(***************************************************************************)
(* Small instances of LogBuf for TLC: a ring of two lines, a client that   *)
(* begins behind, at, or ahead of the buffer.                              *)
(***************************************************************************)
EXTENDS LogBuf, TLC

ClientFroms == {-1, 0, 2, 5}
ClientLimits == {0, 1, 2}
=============================================================================
