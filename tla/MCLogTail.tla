----------------------------- MODULE MCLogTail -----------------------------
(***************************************************************************)
(* Small instances of LogTail for TLC: a ring of two lines, clients that   *)
(* begin before, at the start, or ahead of the output; and, for what a     *)
(* restart makes of a cursor, a client that has read all from the start.   *)
(***************************************************************************)
EXTENDS LogTail, TLC

FollowerFroms == {-1, 0, 3}
FollowerLimits == {0, 1}

FromTheStart == {0}
WholeLog == {0}
=============================================================================
