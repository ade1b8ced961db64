----------------------------- MODULE Execution ------------------------------
(***************************************************************************)
(* What the queue relies on when it calls Execute (queue.go:205-216): the  *)
(* call fails to launch a process, or launches one and later returns once, *)
(* when that process has exited; it says "cancelled" only if the context   *)
(* it was given was cancelled, before the call or in it.  Module Queue has *)
(* these steps as Launch, LaunchFails and ExecuteReturns.                  *)
(***************************************************************************)

VARIABLES proc,    (* the process: "none", "alive" or "exited"             *)
          asked,   (* the context given to Execute was cancelled           *)
          result   (* the State returned, "none" before                    *)

vars == <<proc, asked, result>>

Init == proc = "none" /\ asked \in BOOLEAN /\ result = "none"

Ask ==
  /\ ~asked
  /\ asked' = TRUE
  /\ UNCHANGED <<proc, result>>

LaunchFails ==
  /\ proc = "none" /\ result = "none"
  /\ result' = "errored"
  /\ UNCHANGED <<proc, asked>>

Launch ==
  /\ proc = "none" /\ result = "none"
  /\ proc' = "alive"
  /\ UNCHANGED <<asked, result>>

Return(r) ==
  /\ proc = "alive" /\ result = "none"
  /\ r = "cancelled" => asked
  /\ proc' = "exited"
  /\ result' = r
  /\ asked' = asked

Next ==
  \/ Ask \/ LaunchFails \/ Launch
  \/ \E r \in {"succeeded", "failed", "cancelled", "timed_out", "errored"} : Return(r)

Spec == Init /\ [][Next]_vars
=============================================================================
