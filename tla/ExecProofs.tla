----------------------------- MODULE ExecProofs -----------------------------
(***************************************************************************)
(* Theorems about Exec, for any number of descendants and lines, whether   *)
(* or not kill(2) can fail.                                                *)
(*                                                                         *)
(* None of the three properties is inductive.  Phases says how far each    *)
(* goroutine and the leader can be when Execute is at a given point,       *)
(* Verdicts what the channel killed and the outcome say of the context,    *)
(* Logged what the reader owes to run.log.                                 *)
(***************************************************************************)
EXTENDS Exec, TLAPS

Reaped == {"waited", "join", "decide", "returned"}

Phases ==
  /\ pc = "start" => leader = "none" /\ watcher = "none" /\ reader = "none"
  /\ pc = "onstart" => watcher = "none" /\ reader = "none"
  /\ pc \in Reaped => leader \in {"none", "reaped"}
  /\ pc \in {"onstart", "wait", "waited", "join", "decide"} => leader # "none"
  /\ pc = "decide" => reader = "done"
  /\ pc = "returned" => reader \in {"none", "done"}
  /\ leader = "none" => pc \in {"start", "returned"}
  /\ leader = "reaped" => pc \in Reaped
  /\ done => pc \in {"join", "decide", "returned"}

Verdicts ==
  /\ watcher \in {"none", "watching"} => killed = "none"
  /\ watcher \in {"killing", "polling"} => killed # "none"
  /\ signalled => killed # "none"
  /\ pc # "returned" =>
       /\ outcome = "none"
       /\ ctx # "released"
       /\ killed = "cancelled" => ctx = "cancelled"
       /\ killed = "timed_out" => ctx = "expired"
  /\ pc = "returned" => outcome # "none"
  /\ outcome = "cancelled" => ctx = "cancelled"
  /\ outcome = "timed_out" => ctx = "expired"
  /\ pc = "returned" /\ signalled => outcome \notin {"succeeded", "failed"}

Logged ==
  /\ reader \in {"none", "done"} => onDisk = read
  /\ reader = "none" => read = 0

IInv == TypeOK /\ Phases /\ Verdicts /\ Logged

-----------------------------------------------------------------------------
(* The initial states satisfy the invariant. *)
LEMMA InitInvariant == ASSUME Init PROVE IInv
<1>1. kids \in [Kids -> {"unborn", "alive", "dead"}]
  BY DEF Init
<1>2. 0 \in 0..MaxLines /\ 0 \in 0..0
  BY ExecAssumption
<1>3. TypeOK
  BY <1>1, <1>2, Zenon DEF Init, TypeOK, Outcomes
<1>4. Phases /\ Verdicts /\ Logged
  BY DEF Init, Phases, Verdicts, Logged, Reaped
<1> QED BY <1>3, <1>4 DEF IInv

(***************************************************************************)
(* Every step keeps it: the processes, the context, Execute, the reader    *)
(* and the watcher in turn (exec.go, kill_unix.go).                        *)
(***************************************************************************)
LEMMA ProcessesKeep ==
  ASSUME IInv,
         \/ \E k \in Kids : Spawn(k) \/ KidExits(k)
         \/ \E code \in {"zero", "nonzero"} : LeaderExits(code)
         \/ LeaderWrites
  PROVE  IInv'
<1> USE DEF processVars, outputVars, watchVars, contextVars, executeVars
<1>1. ASSUME NEW k \in Kids, Spawn(k) \/ KidExits(k) PROVE IInv'
  BY <1>1 DEF Spawn, KidExits, Alive, IInv, TypeOK, Phases, Verdicts, Logged, Reaped
<1>2. ASSUME NEW code \in {"zero", "nonzero"}, LeaderExits(code) PROVE IInv'
  BY <1>2 DEF LeaderExits, IInv, TypeOK, Phases, Verdicts, Logged, Reaped
<1>3. ASSUME LeaderWrites PROVE IInv'
  BY <1>3, ExecAssumption DEF LeaderWrites, IInv, TypeOK, Phases, Verdicts, Logged, Reaped
<1> QED BY <1>1, <1>2, <1>3

LEMMA ContextKeeps ==
  ASSUME IInv, CancelRun \/ Shutdown \/ Expire \/ DaemonExits
  PROVE  IInv'
<1> USE DEF processVars, outputVars, watchVars, contextVars, executeVars,
            IInv, TypeOK, Phases, Verdicts, Logged, Reaped
<1>1. ASSUME CancelRun PROVE IInv' BY <1>1 DEF CancelRun
<1>2. ASSUME Shutdown PROVE IInv' BY <1>2 DEF Shutdown
<1>3. ASSUME Expire PROVE IInv' BY <1>3 DEF Expire
<1>4. ASSUME DaemonExits PROVE IInv' BY <1>4 DEF DaemonExits
<1> QED BY <1>1, <1>2, <1>3, <1>4

LEMMA ExecuteKeeps ==
  ASSUME IInv, Execute
  PROVE  IInv'
<1> USE DEF processVars, outputVars, watchVars, contextVars, executeVars,
            IInv, TypeOK, Phases, Verdicts, Logged, Reaped, Step, Return, Outcomes
<1>1. ASSUME StartFails PROVE IInv' BY <1>1 DEF StartFails
<1>2. ASSUME StartProcess PROVE IInv' BY <1>2 DEF StartProcess
<1>3. ASSUME StartGoroutines PROVE IInv' BY <1>3 DEF StartGoroutines
<1>4. ASSUME NEW err \in {"zero", "nonzero", "other"}, WaitReturns(err) PROVE IInv'
  BY <1>4 DEF WaitReturns
<1>5. ASSUME CloseDone PROVE IInv' BY <1>5 DEF CloseDone
<1>6. ASSUME Join PROVE IInv' BY <1>6 DEF Join
<1>7. ASSUME Decide PROVE IInv' BY <1>7 DEF Decide
<1> QED BY <1>1, <1>2, <1>3, <1>4, <1>5, <1>6, <1>7 DEF Execute

LEMMA ReaderKeeps ==
  ASSUME IInv, Reader
  PROVE  IInv'
<1> USE DEF processVars, outputVars, watchVars, contextVars, executeVars,
            IInv, TypeOK, Phases, Verdicts, Logged, Reaped
<1>1. ASSUME Fetch PROVE IInv' BY <1>1 DEF Fetch
<1>2. ASSUME ReadLine PROVE IInv' BY <1>2 DEF ReadLine
<1>3. ASSUME ScanEnds PROVE IInv' BY <1>3 DEF ScanEnds
<1>4. ASSUME Flush PROVE IInv' BY <1>4 DEF Flush
<1> QED BY <1>1, <1>2, <1>3, <1>4 DEF Reader

LEMMA WatcherKeeps ==
  ASSUME IInv, Watcher
  PROVE  IInv'
<1> USE DEF processVars, outputVars, watchVars, contextVars, executeVars,
            IInv, TypeOK, Phases, Verdicts, Logged, Reaped
<1>1. ASSUME SeeDone PROVE IInv' BY <1>1 DEF SeeDone
<1>2. ASSUME SeeContextEnd PROVE IInv' BY <1>2 DEF SeeContextEnd, Verdict
<1>3. ASSUME Terminate PROVE IInv'
  <2>1. CASE watcher' \in {"done", "failed"} /\ UNCHANGED signalled
    BY <1>3, <2>1 DEF Terminate
  <2>2. CASE watcher' = "polling" /\ leader = "running"
    BY <1>3, <2>2 DEF Terminate, GroupEmpty
  <2>3. CASE watcher' = "polling" /\ leader # "running"
    BY <1>3, <2>3 DEF Terminate, GroupEmpty
  <2> QED BY <1>3, <2>1, <2>2, <2>3 DEF Terminate
<1>4. ASSUME FindGone PROVE IInv' BY <1>4 DEF FindGone
<1>5. ASSUME Kill PROVE IInv' BY <1>5 DEF Kill
<1> QED BY <1>1, <1>2, <1>3, <1>4, <1>5 DEF Watcher

LEMMA StepInvariant ==
  ASSUME IInv, [Next]_vars
  PROVE  IInv'
<1>1. CASE UNCHANGED vars
  BY <1>1 DEF vars, processVars, outputVars, watchVars, contextVars, executeVars,
              IInv, TypeOK, Phases, Verdicts, Logged, Reaped
<1>2. CASE Next
  BY <1>1, <1>2, ProcessesKeep, ContextKeeps, ExecuteKeeps, ReaderKeeps, WatcherKeeps
  DEF Next, Over
<1> QED BY <1>1, <1>2

LEMMA Invariance == Spec => []IInv
<1>1. Init => IInv
  BY InitInvariant
<1>2. IInv /\ [Next]_vars => IInv'
  BY StepInvariant
<1> QED BY <1>1, <1>2, PTL DEF Spec

-----------------------------------------------------------------------------
(* Every variable keeps its type; the counters keep their order: on disk,  *)
(* read, fetched, written.                                                 *)
THEOREM TypeCorrect == Spec => []TypeOK
<1>1. IInv => TypeOK
  BY DEF IInv
<1> QED BY <1>1, Invariance, PTL

(* A signalled process is never reported as succeeded or failed.           *)
THEOREM KillsAreReported == Spec => []KilledIsReported
<1>1. IInv => KilledIsReported
  BY DEF IInv, Verdicts, KilledIsReported
<1> QED BY <1>1, Invariance, PTL

(* Cancelled means asked to stop, timed out means past the deadline.       *)
THEOREM CausesAreRight == Spec => []ReportedAsAsked
<1>1. IInv => ReportedAsAsked
  BY DEF IInv, Verdicts, ReportedAsAsked
<1> QED BY <1>1, Invariance, PTL

(* What clients were shown is in run.log when Execute has returned.        *)
THEOREM LogIsFlushed == Spec => []ReadIsOnDisk
<1>1. IInv => ReadIsOnDisk
  BY DEF IInv, Phases, Logged, ReadIsOnDisk
<1> QED BY <1>1, Invariance, PTL

-----------------------------------------------------------------------------
(* The refinement: what the queue sees of a step of Execute.               *)

Seen == <<leader, pc, ctx, outcome>>

(* Steps that change none of these are steps the queue does not see.       *)
LEMMA UnseenSteps ==
  ASSUME UNCHANGED Seen
  PROVE  UNCHANGED E!vars
BY DEF Seen, E!vars

(* A leader that exits, or is killed, is still "alive" until reaped.       *)
LEMMA ProcessSteps ==
  ASSUME IInv, UNCHANGED <<pc, ctx, outcome>>, leader = "running", leader' = "zombie"
  PROVE  UNCHANGED E!vars
BY DEF E!vars

(***************************************************************************)
(* Every step of Exec is a step of Execution or none: the end of the       *)
(* context is Ask, cmd.Start is Launch, a failure before it LaunchFails,   *)
(* and Decide is Return.                                                   *)
(***************************************************************************)
LEMMA StepRefines ==
  ASSUME IInv, [Next]_vars
  PROVE  [E!Next]_E!vars
<1> USE DEF processVars, outputVars, watchVars, contextVars, executeVars
<1> DEFINE Goal == [E!Next]_E!vars
<1>1. ASSUME UNCHANGED vars PROVE Goal
  BY <1>1 DEF vars, E!vars
<1>2. ASSUME \/ \E k \in Kids : Spawn(k) \/ KidExits(k)
             \/ LeaderWrites \/ DaemonExits \/ Reader
      PROVE  Goal
  <2>1. UNCHANGED Seen
    BY <1>2 DEF Spawn, KidExits, LeaderWrites, DaemonExits, Reader, Fetch, ReadLine,
                ScanEnds, Flush, Seen
  <2> QED BY <2>1, UnseenSteps
<1>3. ASSUME NEW code \in {"zero", "nonzero"}, LeaderExits(code) PROVE Goal
  BY <1>3, ProcessSteps DEF LeaderExits
<1>4. ASSUME Watcher PROVE Goal
  <2>1. CASE UNCHANGED Seen
    BY <2>1, UnseenSteps
  <2>2. CASE leader = "running" /\ leader' = "zombie" /\ UNCHANGED <<pc, ctx, outcome>>
    BY <2>2, ProcessSteps
  <2> QED
    BY <1>4, <2>1, <2>2 DEF Watcher, SeeDone, SeeContextEnd, Terminate, FindGone, Kill, Seen
<1>5. ASSUME CancelRun \/ Shutdown \/ Expire PROVE Goal
  <2>1. CASE ctx = "live" /\ ctx' = "cancelled"
    <3>1. E!Ask
      BY <1>5, <2>1 DEF CancelRun, Shutdown, Expire, E!Ask
    <3> QED BY <3>1 DEF E!Next
  <2>2. CASE UNCHANGED ctx \/ (ctx = "live" /\ ctx' = "expired")
    <3>1. UNCHANGED E!vars
      BY <1>5, <2>2 DEF CancelRun, Shutdown, Expire, E!vars
    <3> QED BY <3>1
  <2> QED BY <1>5, <2>1, <2>2 DEF CancelRun, Shutdown, Expire, IInv, TypeOK
<1>6. ASSUME StartFails PROVE Goal
  <2>1. E!LaunchFails
    BY <1>6 DEF StartFails, Return, IInv, Phases, Verdicts, E!LaunchFails
  <2> QED BY <2>1 DEF E!Next
<1>7. ASSUME StartProcess PROVE Goal
  <2>1. E!Launch
    BY <1>7 DEF StartProcess, Step, IInv, Phases, Verdicts, E!Launch
  <2> QED BY <2>1 DEF E!Next
<1>8. ASSUME StartGoroutines \/ CloseDone \/ Join
             \/ \E err \in {"zero", "nonzero", "other"} : WaitReturns(err)
      PROVE  Goal
  <2>1. UNCHANGED E!vars
    BY <1>8 DEF StartGoroutines, CloseDone, Join, WaitReturns, Step, IInv, Phases, Reaped,
                E!vars
  <2> QED BY <2>1
<1>9. ASSUME Decide PROVE Goal
  <2>1. outcome' \in Outcomes /\ (outcome' = "cancelled" => ctx = "cancelled")
    BY <1>9 DEF Decide, Return, Outcomes, IInv, TypeOK, Verdicts
  <2>2. leader = "reaped" /\ leader' = "reaped" /\ pc = "decide" /\ pc' = "returned"
    BY <1>9 DEF Decide, Return, IInv, TypeOK, Phases, Reaped
  <2>3. (ctx' = "cancelled") = (ctx = "cancelled") /\ outcome = "none"
    BY <1>9 DEF Decide, Return, IInv, Verdicts
  <2>4. E!Return(outcome')
    BY <2>1, <2>2, <2>3 DEF E!Return
  <2> QED BY <2>1, <2>4 DEF E!Next, Outcomes
<1>10. ASSUME Over PROVE Goal
  BY <1>1, <1>10 DEF Over
<1> QED
  BY <1>1, <1>2, <1>3, <1>4, <1>5, <1>6, <1>7, <1>8, <1>9, <1>10 DEF Next, Execute

(* Execute, seen from the queue, is the Execute the queue relies on.       *)
THEOREM RefinesExecution == Spec => ImplementsExecution
<1>1. Init => E!Init
  BY DEF Init, E!Init
<1>2. IInv /\ [Next]_vars => [E!Next]_E!vars
  BY StepRefines
<1> QED BY <1>1, <1>2, Invariance, PTL DEF Spec, ImplementsExecution, E!Spec
=============================================================================
