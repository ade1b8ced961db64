------------------------------ MODULE RunState ------------------------------
(***************************************************************************)
(* The life of one run, as server/internal/run/run.go declares it: the     *)
(* values of State, which of them are terminal, and the fields of the Run  *)
(* record that the rest of the server branches on.                         *)
(*                                                                         *)
(* A record whose state is "absent" stands for an id the store does not    *)
(* hold, so that every id has a record of the same shape.                  *)
(***************************************************************************)

LiveStates == {"queued", "running"}
TerminalStates == {"succeeded", "failed", "cancelled", "timed_out", "errored"}
States == LiveStates \union TerminalStates

(* func (s State) Terminal() bool *)
Terminal(s) == s \in TerminalStates

(***************************************************************************)
(* pid is true while a PID is recorded, ended when EndedAt is set.         *)
(* Artifacts is the list Collect returned: "resolvable" while its entries  *)
(* carry Rel, the path a download is served from, and "unresolvable" once  *)
(* they do not.  error abstracts the text of Error to its cause.           *)
(***************************************************************************)
ArtifactLists == {"none", "resolvable", "unresolvable"}
Errors == {"none", "queue full", "exec", "was queued", "was running", "was errored"}

Records == [state : States \union {"absent"}, pid : BOOLEAN, ended : BOOLEAN,
            artifacts : ArtifactLists, error : Errors]

Absent == [state |-> "absent", pid |-> FALSE, ended |-> FALSE,
           artifacts |-> "none", error |-> "none"]

(* The record createRun builds before it calls Store.Add. *)
Fresh == [Absent EXCEPT !.state = "queued"]
=============================================================================
