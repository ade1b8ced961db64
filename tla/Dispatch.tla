------------------------------ MODULE Dispatch ------------------------------
(***************************************************************************)
(* What the run queue promises, without the store, the handlers, the       *)
(* cancellations and the processes: "Queue is a bounded FIFO with a fixed  *)
(* pool of workers.  Each worker runs one Playwright process at a time"    *)
(* (server/internal/run/queue.go:30-32), and a run is given to one worker, *)
(* once.                                                                   *)
(***************************************************************************)
EXTENDS Naturals, Sequences

CONSTANTS Runs, Workers, Depth, NoRun

VARIABLES waiting,    (* the accepted runs, oldest first                   *)
          executing,  (* the run each worker has                           *)
          over,       (* the runs a worker is done with                    *)
          open        (* whether runs are still accepted                   *)

vars == <<waiting, executing, over, open>>

Init ==
  /\ waiting = <<>>
  /\ executing = [w \in Workers |-> NoRun]
  /\ over = {}
  /\ open = TRUE

Unseen(r) ==
  /\ r \notin over
  /\ \A i \in 1..Len(waiting) : waiting[i] # r
  /\ \A w \in Workers : executing[w] # r

(* A run is accepted once, and only while there is room. *)
Accept(r) ==
  /\ open /\ Unseen(r) /\ Len(waiting) < Depth
  /\ waiting' = Append(waiting, r)
  /\ UNCHANGED <<executing, over, open>>

(* An idle worker gets the oldest. *)
Begin(w) ==
  /\ executing[w] = NoRun /\ waiting # <<>>
  /\ executing' = [executing EXCEPT ![w] = Head(waiting)]
  /\ waiting' = Tail(waiting)
  /\ UNCHANGED <<over, open>>

End(w) ==
  /\ executing[w] # NoRun
  /\ over' = over \union {executing[w]}
  /\ executing' = [executing EXCEPT ![w] = NoRun]
  /\ UNCHANGED <<waiting, open>>

(* What was accepted before the queue is shut is still executed. *)
Shut ==
  /\ open
  /\ open' = FALSE
  /\ UNCHANGED <<waiting, executing, over>>

Next ==
  \/ \E r \in Runs : Accept(r)
  \/ \E w \in Workers : Begin(w) \/ End(w)
  \/ Shut

Spec == Init /\ [][Next]_vars
=============================================================================
