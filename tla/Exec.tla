-------------------------------- MODULE Exec --------------------------------
(***************************************************************************)
(* server/internal/run/exec.go and kill_unix.go: one call of Execute.      *)
(*                                                                         *)
(* Three goroutines: Execute itself, which starts the process, waits for   *)
(* it and settles the outcome; the reader, which copies the output to the  *)
(* log buffer and to run.log; the watcher, which on the end of the context *)
(* kills the process group.  Execute waits for the reader, not for the     *)
(* watcher, which may be inside KillTree long after Execute has returned   *)
(* and is gone once the daemon exits.                                      *)
(*                                                                         *)
(* The process that is started leads a process group; the processes it     *)
(* starts (workers, browsers) stay in the group and may survive it.  Any   *)
(* of them may ignore SIGTERM.                                             *)
(***************************************************************************)
EXTENDS Naturals, FiniteSets

CONSTANTS Kids,        (* the processes the leader may start               *)
          MaxLines,    (* bound: the lines of output the leader writes     *)
          LongLines,   (* whether a line can exceed the scanner's 4 MB     *)
          KillRefused  (* whether kill(2) can fail other than with ESRCH   *)

ASSUME ExecAssumption ==
  MaxLines \in Nat /\ LongLines \in BOOLEAN /\ KillRefused \in BOOLEAN

VARIABLES pc,         (* where Execute is                                  *)
          ctx,        (* the run's context, which has a deadline           *)
          shutdown,   (* the root context is cancelled                     *)
          daemon,     (* whether pstad itself runs                         *)
          leader,     (* the process that cmd.Start creates                *)
          kids,       (* its descendants                                   *)
          signalled,  (* the leader got a signal while it was running      *)
          exitCode,   (* the exit status the leader leaves                 *)
          waitErr,    (* what cmd.Wait makes of it                         *)
          written,    (* lines the leader wrote to its stdout              *)
          fetched,    (* ... the reader has got out of the pipe            *)
          read,       (* ... it has appended to the buffer and to bufio    *)
          onDisk,     (* ... that are in run.log                           *)
          pipe,       (* the reading end of the pipe                       *)
          reader,     (* where the reader is                               *)
          watcher,    (* where the watcher, or KillTree inside it, is      *)
          done,       (* channel done is closed                            *)
          killed,     (* content of channel killed                         *)
          outcome     (* the State of the Outcome returned                 *)

processVars == <<leader, kids, signalled, exitCode>>
outputVars == <<written, fetched, read, onDisk, pipe, reader>>
watchVars == <<watcher, killed>>
contextVars == <<ctx, shutdown, daemon>>
executeVars == <<pc, waitErr, done, outcome>>
vars == <<processVars, outputVars, watchVars, contextVars, executeVars>>

Outcomes == {"succeeded", "failed", "cancelled", "timed_out", "errored"}

TypeOK ==
  /\ pc \in {"start", "onstart", "wait", "waited", "join", "decide", "returned"}
  /\ ctx \in {"live", "cancelled", "expired", "released"}
  /\ shutdown \in BOOLEAN
  /\ daemon \in {"up", "gone"}
  /\ leader \in {"none", "running", "zombie", "reaped"}
  /\ kids \in [Kids -> {"unborn", "alive", "dead"}]
  /\ signalled \in BOOLEAN
  /\ exitCode \in {"none", "zero", "nonzero"}
  /\ waitErr \in {"none", "zero", "nonzero", "other"}
  /\ written \in 0..MaxLines
  /\ fetched \in 0..written
  /\ read \in 0..fetched
  /\ onDisk \in 0..read
  /\ pipe \in {"none", "open", "closed"}
  /\ reader \in {"none", "reading", "flushing", "done"}
  /\ watcher \in {"none", "watching", "killing", "polling", "done", "failed"}
  /\ done \in BOOLEAN
  /\ killed \in {"none", "cancelled", "timed_out"}
  /\ outcome \in Outcomes \union {"none"}

Init ==
  /\ pc = "start" /\ waitErr = "none" /\ done = FALSE /\ outcome = "none"
  /\ ctx = "live" /\ shutdown = FALSE /\ daemon = "up"
  /\ leader = "none" /\ kids = [k \in Kids |-> "unborn"]
  /\ signalled = FALSE /\ exitCode = "none"
  /\ written = 0 /\ fetched = 0 /\ read = 0 /\ onDisk = 0
  /\ pipe = "none" /\ reader = "none"
  /\ watcher = "none" /\ killed = "none"

Step(from, to) == pc = from /\ pc' = to

-----------------------------------------------------------------------------
(* The process group.                                                      *)

Alive(k) == kids[k] = "alive"

(* kill(2) finds a group while one member, if only a zombie, is unreaped.  *)
GroupEmpty == leader \in {"none", "reaped"} /\ \A k \in Kids : ~Alive(k)

Spawn(k) ==
  /\ kids[k] = "unborn"
  /\ leader = "running" \/ \E p \in Kids : Alive(p)
  /\ kids' = [kids EXCEPT ![k] = "alive"]
  /\ UNCHANGED <<leader, signalled, exitCode, outputVars, watchVars, contextVars, executeVars>>

KidExits(k) ==
  /\ Alive(k)
  /\ kids' = [kids EXCEPT ![k] = "dead"]
  /\ UNCHANGED <<leader, signalled, exitCode, outputVars, watchVars, contextVars, executeVars>>

(* A leader that handles SIGTERM may well exit with status zero.           *)
LeaderExits(code) ==
  /\ leader = "running"
  /\ leader' = "zombie"
  /\ exitCode' = code
  /\ UNCHANGED <<kids, signalled, outputVars, watchVars, contextVars, executeVars>>

LeaderWrites ==
  /\ leader = "running" /\ pipe = "open" /\ written < MaxLines
  /\ written' = written + 1
  /\ UNCHANGED <<processVars, fetched, read, onDisk, pipe, reader, watchVars,
                 contextVars, executeVars>>

-----------------------------------------------------------------------------
(* The context: Cancel, the root context, the deadline.                    *)

CancelRun ==
  /\ ctx = "live"
  /\ ctx' = "cancelled"
  /\ UNCHANGED <<processVars, outputVars, watchVars, shutdown, daemon, executeVars>>

Shutdown ==
  /\ ~shutdown
  /\ shutdown' = TRUE
  /\ ctx' = IF ctx = "live" THEN "cancelled" ELSE ctx
  /\ UNCHANGED <<processVars, outputVars, watchVars, daemon, executeVars>>

Expire ==
  /\ ctx = "live"
  /\ ctx' = "expired"
  /\ UNCHANGED <<processVars, outputVars, watchVars, shutdown, daemon, executeVars>>

(* main returns once the worker that called Execute is done: the watcher   *)
(* ends with it, wherever it is; the processes do not.                     *)
DaemonExits ==
  /\ shutdown /\ pc = "returned" /\ daemon = "up"
  /\ daemon' = "gone"
  /\ UNCHANGED <<processVars, outputVars, watchVars, ctx, shutdown, executeVars>>

-----------------------------------------------------------------------------
(* Execute itself.                                                         *)

(* defer cancel(): the context ends when Execute returns, at the latest.   *)
Return(o) ==
  /\ pc' = "returned"
  /\ outcome' = o
  /\ ctx' = IF ctx = "live" THEN "released" ELSE ctx

(* os.Create, StdoutPipe or cmd.Start failed: there is no process.         *)
StartFails ==
  /\ pc = "start"
  /\ Return("errored")
  /\ UNCHANGED <<processVars, outputVars, watchVars, shutdown, daemon, waitErr, done>>

(* cmd.Start; the context is not looked at before it.                      *)
StartProcess ==
  /\ Step("start", "onstart")
  /\ leader' = "running"
  /\ pipe' = "open"
  /\ UNCHANGED <<kids, signalled, exitCode, written, fetched, read, onDisk, reader,
                 watchVars, contextVars, waitErr, done, outcome>>

(* onStart has recorded the PID; now the two goroutines start.             *)
StartGoroutines ==
  /\ Step("onstart", "wait")
  /\ reader' = "reading"
  /\ watcher' = "watching"
  /\ UNCHANGED <<processVars, written, fetched, read, onDisk, pipe, killed,
                 contextVars, waitErr, done, outcome>>

Mut_WaitReturns(err) ==
  /\ err \in {exitCode, "other"}
  /\ leader \in {"running", "zombie"}
  /\ Step("wait", "waited")
  /\ leader' = IF leader = "zombie" THEN "reaped" ELSE leader
  /\ pipe' = "closed"
  /\ waitErr' = err
  /\ UNCHANGED <<kids, signalled, exitCode, written, fetched, read, onDisk, reader,
                 watchVars, contextVars, done, outcome>>

(***************************************************************************)
(* cmd.Wait reaps the leader and closes the reading end of the pipe,       *)
(* whether the reader is done with it or not.  An error that is not an     *)
(* ExitError says nothing of the exit status.                              *)
(***************************************************************************)
WaitReturns(err) ==
  /\ err \in {exitCode, "other"}
  /\ leader = "zombie"
  /\ Step("wait", "waited")
  /\ leader' = "reaped"
  /\ pipe' = "closed"
  /\ waitErr' = err
  /\ UNCHANGED <<kids, signalled, exitCode, written, fetched, read, onDisk, reader,
                 watchVars, contextVars, done, outcome>>

Mut_CloseDone ==
  /\ Step("waited", "join")
  /\ done' = TRUE
  /\ ctx' = IF ctx = "live" THEN "released" ELSE ctx
  /\ UNCHANGED <<processVars, outputVars, watchVars, shutdown, daemon, waitErr, outcome>>

CloseDone ==
  /\ Step("waited", "join")
  /\ done' = TRUE
  /\ UNCHANGED <<processVars, outputVars, watchVars, contextVars, waitErr, outcome>>

Mut_Join ==
  /\ Step("join", "decide")
  /\ UNCHANGED <<processVars, outputVars, watchVars, contextVars, waitErr, done, outcome>>

(* wg.Wait() *)
Join ==
  /\ reader = "done"
  /\ Step("join", "decide")
  /\ UNCHANGED <<processVars, outputVars, watchVars, contextVars, waitErr, done, outcome>>

Decide ==
  /\ pc = "decide"
  /\ Return(IF waitErr = "other" THEN "errored"
            ELSE IF killed # "none" THEN killed
            ELSE IF waitErr = "zero" THEN "succeeded" ELSE "failed")
  /\ UNCHANGED <<processVars, outputVars, watchVars, shutdown, daemon, waitErr, done>>

Execute ==
  \/ StartFails \/ StartProcess \/ StartGoroutines
  \/ (\E err \in {"zero", "nonzero", "other"} : WaitReturns(err))
  \/ CloseDone \/ Join \/ Decide

-----------------------------------------------------------------------------
(* The reader.                                                             *)

(* One read of the pipe brings the scanner some complete lines.            *)
Fetch ==
  /\ reader = "reading" /\ pipe = "open" /\ read = fetched
  /\ fetched' \in (fetched + 1)..written
  /\ UNCHANGED <<processVars, written, read, onDisk, pipe, reader, watchVars,
                 contextVars, executeVars>>

(* buf.Append and w.WriteString; a full bufio.Writer spills to the file.   *)
ReadLine ==
  /\ reader = "reading" /\ read < fetched
  /\ read' = read + 1
  /\ onDisk' \in onDisk..(read + 1)
  /\ UNCHANGED <<processVars, written, fetched, pipe, reader, watchVars,
                 contextVars, executeVars>>

(***************************************************************************)
(* Scan returns false: at the end of the output, which no surviving child  *)
(* may hold open; when the pipe is closed under it; or at a line longer    *)
(* than the scanner takes, after which nobody reads the pipe.              *)
(***************************************************************************)
ScanEnds ==
  /\ reader = "reading" /\ read = fetched
  /\ \/ pipe = "closed"
     \/ fetched = written /\ leader # "running" /\ \A k \in Kids : ~Alive(k)
     \/ LongLines /\ fetched < written
  /\ reader' = "flushing"
  /\ UNCHANGED <<processVars, written, fetched, read, onDisk, pipe, watchVars,
                 contextVars, executeVars>>

(* The deferred w.Flush(), then wg.Done(). *)
Flush ==
  /\ reader = "flushing"
  /\ onDisk' = read
  /\ reader' = "done"
  /\ UNCHANGED <<processVars, written, fetched, read, pipe, watchVars,
                 contextVars, executeVars>>

Reader == Fetch \/ ReadLine \/ ScanEnds \/ Flush

-----------------------------------------------------------------------------
(* The watcher and, inside it, KillTree.                                   *)

(* Of a select with two ready cases either is taken. *)
SeeDone ==
  /\ watcher = "watching" /\ done
  /\ watcher' = "done"
  /\ UNCHANGED <<processVars, outputVars, killed, contextVars, executeVars>>

Verdict == IF ctx = "expired" THEN "timed_out" ELSE "cancelled"

Mut_SeeContextEnd ==
  /\ watcher = "watching" /\ ctx # "live"
  /\ watcher' = "killing"
  /\ UNCHANGED <<processVars, outputVars, killed, contextVars, executeVars>>

(* The verdict is on the channel before the first signal is sent. *)
SeeContextEnd ==
  /\ watcher = "watching" /\ ctx # "live"
  /\ killed' = Verdict
  /\ watcher' = "killing"
  /\ UNCHANGED <<processVars, outputVars, contextVars, executeVars>>

(* SIGTERM to the group: ESRCH and success are not errors, others are.     *)
Terminate ==
  /\ watcher = "killing"
  /\ \/ /\ GroupEmpty
        /\ watcher' = "done"
        /\ UNCHANGED signalled
     \/ /\ KillRefused /\ ~GroupEmpty
        /\ watcher' = "failed"
        /\ UNCHANGED signalled
     \/ /\ ~GroupEmpty
        /\ watcher' = "polling"
        /\ signalled' = IF leader = "running" THEN TRUE ELSE signalled
  /\ UNCHANGED <<leader, kids, exitCode, outputVars, killed, contextVars, executeVars>>

(* Within ten seconds the group was found gone ... *)
FindGone ==
  /\ watcher = "polling" /\ GroupEmpty
  /\ watcher' = "done"
  /\ UNCHANGED <<processVars, outputVars, killed, contextVars, executeVars>>

Mut_Kill ==
  /\ watcher = "polling"
  /\ watcher' = "done"
  /\ leader' = IF leader = "running" THEN "zombie" ELSE leader
  /\ exitCode' = IF leader = "running" THEN "nonzero" ELSE exitCode
  /\ UNCHANGED <<kids, signalled, outputVars, killed, contextVars, executeVars>>

Mut_NoKill ==
  /\ watcher = "polling"
  /\ watcher' = "done"
  /\ UNCHANGED <<processVars, outputVars, killed, contextVars, executeVars>>

(* ... or SIGKILL goes to the group, which no member survives. *)
Kill ==
  /\ watcher = "polling"
  /\ \/ /\ watcher' = "done"
        /\ leader' = IF leader = "running" THEN "zombie" ELSE leader
        /\ exitCode' = IF leader = "running" THEN "nonzero" ELSE exitCode
        /\ kids' = [k \in Kids |-> IF Alive(k) THEN "dead" ELSE kids[k]]
     \/ /\ KillRefused /\ ~GroupEmpty
        /\ watcher' = "failed"
        /\ UNCHANGED <<leader, exitCode, kids>>
  /\ UNCHANGED <<signalled, outputVars, killed, contextVars, executeVars>>

Watcher ==
  /\ daemon = "up"
  /\ SeeDone \/ SeeContextEnd \/ Terminate \/ FindGone \/ Kill

-----------------------------------------------------------------------------
(* Nothing is left to do once the daemon is gone and the processes too, or *)
(* once Execute is over and waits for no one.                              *)
Over == pc = "returned" /\ UNCHANGED vars

Next ==
  \/ \E k \in Kids : Spawn(k) \/ KidExits(k)
  \/ \E code \in {"zero", "nonzero"} : LeaderExits(code)
  \/ LeaderWrites
  \/ CancelRun \/ Shutdown \/ Expire \/ DaemonExits
  \/ Execute \/ Reader \/ Watcher
  \/ Over

Spec == Init /\ [][Next]_vars

(***************************************************************************)
(* The goroutines run and the timer of the context fires.  No process has  *)
(* to exit or to say anything.                                             *)
(***************************************************************************)
Fairness ==
  /\ WF_vars(Execute) /\ WF_vars(Reader) /\ WF_vars(Watcher)
  /\ WF_vars(Expire)

FairSpec == Spec /\ Fairness

-----------------------------------------------------------------------------
(* What Execute promises.                                                  *)

(***************************************************************************)
(* A process that was signalled is never reported as having succeeded or   *)
(* failed by itself, even if it exits with status zero at SIGTERM          *)
(* (exec.go: killed is sent before KillTree is called).                    *)
(***************************************************************************)
KilledIsReported ==
  signalled /\ pc = "returned" => outcome \notin {"succeeded", "failed"}

(***************************************************************************)
(* A run is reported cancelled only if it was asked to stop and timed out  *)
(* only if its deadline came first (exec.go: the deferred cancel must not  *)
(* reach the watcher before the outcome is settled).                       *)
(***************************************************************************)
ReportedAsAsked ==
  /\ outcome = "cancelled" => ctx = "cancelled"
  /\ outcome = "timed_out" => ctx = "expired"

(***************************************************************************)
(* Once Execute has returned and closed run.log, every line the reader has *)
(* shown to clients through the buffer is in that file (wg.Wait before the *)
(* deferred logFile.Close).                                                *)
(***************************************************************************)
ReadIsOnDisk ==
  pc = "returned" => reader \in {"none", "done"} /\ onDisk = read

(***************************************************************************)
(* Seen from the queue this is the Execute it relies on (Execution).       *)
(***************************************************************************)
E == INSTANCE Execution WITH
       proc <- IF leader = "none" THEN "none"
               ELSE IF pc = "returned" /\ leader = "reaped" THEN "exited" ELSE "alive",
       asked <- ctx = "cancelled",
       result <- outcome

ImplementsExecution == E!Spec

(* Execute returns, whatever the process does, since its deadline comes,   *)
(* unless KillTree has reported an error.                                  *)
ExecuteReturns == pc = "wait" ~> (pc = "returned" \/ watcher = "failed")

(***************************************************************************)
(* A tree that was sent SIGTERM dies as a whole unless the daemon goes     *)
(* first or KillTree reports an error, although Execute may have returned  *)
(* long before (KillTree).                                                 *)
(***************************************************************************)
TreeDies ==
  watcher = "polling" ~> (GroupEmpty \/ daemon = "gone" \/ watcher = "failed")

-----------------------------------------------------------------------------
(* What comments and documents say, and the code does not keep.            *)

(* logbuf.go:4: "The full log always exists on disk". *)
FullLogOnDisk == pc = "returned" => onDisk = written

(***************************************************************************)
(* main.go:130: "Workers observe the cancelled context, kill their process *)
(* trees, and record the outcome - so a stop does not leave orphaned       *)
(* browsers".                                                              *)
(***************************************************************************)
StopLeavesNoOrphans == daemon = "gone" => GroupEmpty
=============================================================================
