------------------------------ MODULE LogTail ------------------------------
(***************************************************************************)
(* The output of one run on its way to a client: Execute and finish fill   *)
(* the buffer of LogBuf and run.log (server/internal/run/exec.go,          *)
(* queue.go), getLog answers from the buffer or, once a restart has taken  *)
(* it away, from the file (httpapi/handlers.go), and a client follows with *)
(* two requests a round until it reads a terminal state                    *)
(* (streamlit/app.py), or for ever, as somebody with curl does.            *)
(*                                                                         *)
(* A line of the file is the number the buffer gave it.  Only what the     *)
(* child writes is in the file: the command and the daemon's own lines are *)
(* numbered by the buffer alone.                                           *)
(***************************************************************************)
EXTENDS LogBuf

CONSTANTS reader,   (* Execute's goroutine that reads the child's output   *)
          watcher,  (* Execute's goroutine that waits for the context      *)
          worker    (* the worker of the pool, in Execute and in finish    *)

ASSUME LogTailAssumption ==
  /\ Appenders = {reader, watcher, worker}
  /\ reader # watcher /\ reader # worker /\ watcher # worker
  /\ Subscribers = {}  (* nothing in the server calls Subscribe yet *)
  /\ MaxLines >= 4

(* What tailFile finds in an empty file: Split of "" is one empty string.  *)
Blank == MaxLines

VARIABLES rec,      (* the state of the record, as far as a follower cares *)
          asked,    (* how far a cancellation is                           *)
          wpc,      (* where the run is in Submit, Execute and finish      *)
          logged,   (* run.log exists                                      *)
          file,     (* the lines in run.log ...                            *)
          pending,  (* ... and in the bufio.Writer before it               *)
          daemon,   (* "up", "down", or "back" after store.Recover         *)
          stops,    (* the client stops when it reads a terminal state     *)
          cpc,      (* its next request: "state" or "log"                  *)
          known,    (* the state it was told last                          *)
          last      (* where its last answer came from, or how it failed   *)

runVars == <<rec, asked, wpc, logged, file, pending, daemon>>
clientVars == <<stops, cpc, known, last>>
tailVars == <<vars, runVars, clientVars>>

TailTypeOK ==
  /\ TypeOK
  /\ rec \in {"live", "cancelled", "finished", "given up"}
  /\ asked \in {"no", "refused", "flagged", "recorded"}
  /\ wpc \in {"added", "waiting", "taken", "preparing", "heading", "reading",
              "waited", "recorded", "telling", "over"}
  /\ logged \in BOOLEAN
  /\ file \in Seq(Nat) /\ pending \in Seq(Nat)
  /\ pending # <<>> => wpc = "reading" /\ daemon = "up"
  /\ daemon \in {"up", "down", "back"}
  /\ stops \in BOOLEAN
  /\ cpc \in {"state", "log", "stopped"}
  /\ known \in {"live", "cancelled", "finished", "given up", "lost"}
  /\ last \in {"none", "memory", "cut short", "file", "lost"}

(* The record is in the store and createRun is about to call Submit. *)
TailInit ==
  /\ Init
  /\ rec = "live" /\ asked = "no" /\ wpc = "added"
  /\ logged = FALSE /\ file = <<>> /\ pending = <<>>
  /\ daemon = "up"
  /\ stops \in BOOLEAN /\ known = "live" /\ last = "none"
  /\ cpc = IF stops THEN "state" ELSE "log"

-----------------------------------------------------------------------------
(* The run: Submit, the worker's execute, Execute, finish.                 *)

Moves(from, to) == daemon = "up" /\ wpc = from /\ wpc' = to

Submit ==
  /\ Moves("added", "waiting")
  /\ UNCHANGED <<vars, rec, asked, logged, file, pending, daemon, clientVars>>

(* A run that is cancelled while it waits goes straight to finish. *)
Take ==
  /\ Moves("waiting", IF asked = "no" THEN "taken" ELSE "waited")
  /\ UNCHANGED <<vars, rec, asked, logged, file, pending, daemon, clientVars>>

MarkRunning ==
  /\ Moves("taken", "preparing")
  /\ rec' = "live"
  /\ UNCHANGED <<vars, asked, logged, file, pending, daemon, clientVars>>

(* os.Create or StdoutPipe fails, or the process cannot be started. *)
NotStarted ==
  /\ \/ Moves("preparing", "waited")
     \/ Moves("heading", "waited") /\ apc[worker] = "idle"
  /\ UNCHANGED <<vars, rec, asked, logged, file, pending, daemon, clientVars>>

Mut_BannerInFile ==
  /\ Moves("preparing", "heading")
  /\ logged' = TRUE /\ file' = <<nextSeq, nextSeq>>
  /\ Record(worker)
  /\ UNCHANGED <<rec, asked, pending, daemon, clientVars>>

(* os.Create, and the command in the buffer. *)
Header ==
  /\ Moves("preparing", "heading")
  /\ logged' = TRUE /\ file' = <<>>
  /\ Record(worker)
  /\ UNCHANGED <<rec, asked, pending, daemon, clientVars>>

Start ==
  /\ Moves("heading", "reading") /\ apc[worker] = "idle"
  /\ UNCHANGED <<vars, rec, asked, logged, file, pending, daemon, clientVars>>

(* Bound: two lines are left to the watcher and to finish. *)
Read ==
  /\ daemon = "up" /\ wpc = "reading" /\ nextSeq < MaxLines - 2
  /\ Record(reader)
  /\ UNCHANGED <<runVars, clientVars>>

(* w.WriteString; a full bufio.Writer empties itself into the file, before *)
(* the line or in the middle of it.  A line whose beginning is in the file *)
(* counts as one of the file.                                              *)
Write ==
  /\ daemon = "up"
  /\ AppendReturns(reader)
  /\ \/ /\ pending' = Append(pending, line[reader])
        /\ UNCHANGED file
     \/ /\ file' = file \o pending
        /\ pending' = <<line[reader]>>
     \/ /\ file' = Append(file \o pending, line[reader])
        /\ pending' = <<>>
  /\ UNCHANGED <<rec, asked, wpc, logged, daemon, clientVars>>

Mut_Flush ==
  /\ Moves("reading", "waited") /\ apc[reader] = "idle"
  /\ UNCHANGED <<vars, rec, asked, logged, file, pending, daemon, clientVars>>

Mut_FlushLoses ==
  /\ Moves("reading", "waited") /\ apc[reader] = "idle"
  /\ pending' = <<>>
  /\ UNCHANGED <<vars, rec, asked, logged, file, daemon, clientVars>>

(* The scanner ends: w.Flush, then wg.Done, for which the worker waits. *)
Flush ==
  /\ Moves("reading", "waited") /\ apc[reader] = "idle"
  /\ file' = file \o pending /\ pending' = <<>>
  /\ UNCHANGED <<vars, rec, asked, logged, daemon, clientVars>>

(* "[server] failed to kill process tree": nobody waits for this goroutine. *)
Complain ==
  /\ daemon = "up"
  /\ wpc \in {"reading", "waited", "recorded", "telling"}
  /\ line[watcher] = 0
  /\ Record(watcher)
  /\ UNCHANGED <<runVars, clientVars>>

(* finish's Update: a cancellation recorded meanwhile stays. *)
Finish ==
  /\ Moves("waited", "recorded")
  /\ rec' \in IF rec = "cancelled" THEN {"cancelled"}
              ELSE IF asked = "no" THEN {"finished"} ELSE {"finished", "cancelled"}
  /\ UNCHANGED <<vars, asked, logged, file, pending, daemon, clientVars>>

(* "[server] run <state>" *)
Tell ==
  /\ Moves("recorded", "telling")
  /\ Record(worker)
  /\ UNCHANGED <<rec, asked, logged, file, pending, daemon, clientVars>>

CloseBuffer ==
  /\ Moves("telling", "over") /\ apc[worker] = "idle"
  /\ Close
  /\ UNCHANGED <<rec, asked, logged, file, pending, daemon, clientVars>>

Worker ==
  \/ Submit \/ Take \/ MarkRunning \/ NotStarted \/ Header \/ Start \/ Flush
  \/ Finish \/ Tell \/ CloseBuffer
  \/ daemon = "up" /\ AppendReturns(worker) /\ UNCHANGED <<runVars, clientVars>>

Watcher ==
  \/ Complain
  \/ daemon = "up" /\ AppendReturns(watcher) /\ UNCHANGED <<runVars, clientVars>>

-----------------------------------------------------------------------------
(* Cancellations, crashes and restarts.                                    *)

(* Cancel flags the run; before Submit it answers 404 all the same. *)
Cancel ==
  /\ daemon = "up" /\ rec = "live" /\ asked = "no"
  /\ asked' = IF wpc = "added" THEN "refused" ELSE "flagged"
  /\ UNCHANGED <<vars, rec, wpc, logged, file, pending, daemon, clientVars>>

(* It found no cancelFn and records the end itself, however late. *)
CancelRecords ==
  /\ daemon = "up" /\ asked = "flagged"
  /\ asked' = "recorded"
  /\ rec' = "cancelled"
  /\ UNCHANGED <<vars, wpc, logged, file, pending, daemon, clientVars>>

(* The buffer is gone, and with it what was not flushed. *)
Crash ==
  /\ daemon = "up"
  /\ daemon' = "down"
  /\ pending' = <<>>
  /\ UNCHANGED <<vars, rec, asked, wpc, logged, file, clientVars>>

Mut_Restart ==
  /\ daemon = "down"
  /\ daemon' = "back"
  /\ UNCHANGED <<vars, rec, asked, wpc, logged, file, pending, clientVars>>

Restart ==
  /\ daemon = "down"
  /\ daemon' = "back"
  /\ rec' = IF rec = "live" THEN "given up" ELSE rec
  /\ UNCHANGED <<vars, asked, wpc, logged, file, pending, clientVars>>

-----------------------------------------------------------------------------
(* tailFile.                                                               *)

FileLines == IF file = <<>> THEN <<Blank>> ELSE file

(* Line i of the file has number i - 1. *)
InFile(from, limit) ==
  {i \in 1..Len(FileLines) :
     i - 1 >= from /\ (limit > 0 => i <= limit \/ i - from <= limit)}

Mut_NextPastFile(out) == Len(FileLines)

NextInFile(out) ==
  IF out = {} THEN Len(FileLines) ELSE CHOOSE i \in out : \A j \in out : j <= i

TailFile(limit) ==
  LET out == InFile(cursor, limit)
  IN /\ got' = {FileLines[i] : i \in out}
     /\ cursor' = NextInFile(out)
     /\ seen' = seen \union got
     /\ last' = IF limit > 0 /\ Cardinality(out) = limit THEN "cut short" ELSE "file"

(* The file cannot be read. *)
NoFile == got' = {} /\ cursor' = cursor /\ seen' = seen \union got /\ last' = "file"

-----------------------------------------------------------------------------
(* The client: the state of the run, then the log from its cursor on.      *)

Ends(s) == s # "live"

HasBuffer == daemon = "up" /\ wpc # "added"

Mut_AskState ==
  /\ cpc = "state"
  /\ \/ daemon # "down" /\ known' = rec
     \/ known' = "lost"
  /\ cpc' = IF Ends(known') THEN "stopped" ELSE "log"
  /\ UNCHANGED <<vars, runVars, stops, last>>

(* A client that never stops does not ask: cpc stays "log". *)
AskState ==
  /\ cpc = "state" /\ cpc' = "log"
  /\ \/ daemon # "down" /\ known' = rec
     \/ known' = "lost"  (* app.py makes {"state": "errored"} of it *)
  /\ UNCHANGED <<vars, runVars, stops, last>>

(* app.py stops on the state it has read, whatever it got of the log. *)
AfterLog ==
  /\ cpc = "log"
  /\ cpc' = IF ~stops THEN "log" ELSE IF Ends(known) THEN "stopped" ELSE "state"

FromMemory(limit) ==
  /\ AfterLog /\ HasBuffer
  /\ Poll(limit)
  /\ last' = IF limit > 0 /\ Cardinality(Chosen(cursor, limit)) = limit
             THEN "cut short" ELSE "memory"
  /\ UNCHANGED <<runVars, stops, known>>

FromFile(limit) ==
  /\ AfterLog /\ daemon # "down" /\ ~HasBuffer
  /\ IF logged THEN TailFile(limit) ELSE NoFile
  /\ UNCHANGED <<bufferVars, chan, appendVars, runVars, stops, known>>

Answer == \E limit \in Limits : FromMemory(limit) \/ FromFile(limit)

(* For a client that never stops it is as if it had not asked. *)
NoAnswer ==
  /\ stops /\ AfterLog
  /\ last' = "lost"
  /\ UNCHANGED <<vars, runVars, stops, known>>

(* Nothing is left to do. *)
TailRest == cpc = "stopped" /\ daemon = "back" /\ UNCHANGED tailVars

TailNext ==
  \/ Worker \/ Read \/ Write \/ Watcher
  \/ Cancel \/ CancelRecords
  \/ Crash \/ Restart
  \/ AskState \/ Answer \/ NoAnswer
  \/ TailRest

TailSpec == TailInit /\ [][TailNext]_tailVars

(***************************************************************************)
(* The goroutines run on and the container is restarted; the child closes  *)
(* its output (module Exec); some requests for the log are answered.       *)
(***************************************************************************)
TailFairness ==
  /\ WF_tailVars(Worker) /\ WF_tailVars(Write) /\ WF_tailVars(Watcher)
  /\ WF_tailVars(Restart)
  /\ WF_tailVars(AskState) /\ SF_tailVars(Answer)

TailFairSpec == TailSpec /\ TailFairness

-----------------------------------------------------------------------------
(* What the log promises to its followers.                                 *)

(***************************************************************************)
(* The number tailFile gives a line of run.log, its place less one, is     *)
(* never beyond the number the buffer gave it, and lines keep their order: *)
(* a cursor of the buffer never makes the file repeat a line (handlers.go: *)
(* 545-566 against exec.go:92 and 114-116).                                *)
(***************************************************************************)
FileLagsBehind ==
  /\ \A i \in 1..Len(file) : i - 1 <= file[i] /\ file[i] < nextSeq
  /\ \A i, j \in 1..Len(file) : i < j => file[i] < file[j]

(***************************************************************************)
(* As long as the source stays the same, the buffer or, after a restart,   *)
(* the file, an answer moves the cursor past a line only if it has it, at  *)
(* the limit and at the edge of the ring as well (Since, tailFile).        *)
(***************************************************************************)
NoneSkipped ==
  [][IF daemon = "up"
     THEN \A i \in 1..Len(lines) :
            cursor <= lines[i] /\ lines[i] < cursor' => lines[i] \in got'
     ELSE \A i \in 1..Len(file) :
            cursor < i /\ i <= cursor' => file[i] \in got']_tailVars

(***************************************************************************)
(* A client that stops because it has read that the run finished, and      *)
(* whose last answer was not cut short, has been given or offered all that *)
(* the child wrote: finish records the end after the reader's (exec.go:141, *)
(* queue.go:224), and the client asks for the state before the log.        *)
(***************************************************************************)
StoppedHasAll ==
  cpc = "stopped" /\ known = "finished" /\ last = "memory" =>
    \A i \in 1..Len(file \o pending) : (file \o pending)[i] < cursor

(***************************************************************************)
(* Once finish has recorded the end of the run, run.log has all that the   *)
(* buffer was ever given of the child's output, so that a crash from then  *)
(* on takes nothing away ("the full log always exists on disk",            *)
(* logbuf.go:4-5): every line that is retained and is not the daemon's own.*)
(***************************************************************************)
FinishedIsOnDisk ==
  rec = "finished" =>
    \A i \in 1..Len(lines) :
      \/ lines[i] \in {0, line[watcher], line[worker]}
      \/ \E j \in 1..Len(file) : file[j] = lines[i]

(* A Streamlit session stops by itself: every run reaches a terminal state. *)
FollowerStops == stops ~> cpc = "stopped"

(***************************************************************************)
(* A client that follows for ever gets to the end of the output, in the    *)
(* buffer once it is closed or in the file after a restart, wherever it    *)
(* began and whichever limits it asks with.                                *)
(***************************************************************************)
AtTheEnd ==
  IF daemon = "up" THEN closed /\ cursor <= nextSeq /\ Wanted(cursor) = {}
  ELSE daemon = "back" /\ (logged => Len(file) <= cursor)

FollowerCatchesUp == ~stops ~> AtTheEnd

-----------------------------------------------------------------------------
(* What comments say, and the code does not keep.                          *)

(***************************************************************************)
(* handlers.go:408-409: "`from` makes it resumable, so nothing is missed   *)
(* between polls", and 543-544: tailFile numbers "lines from zero so       *)
(* `from` keeps the same meaning as the memory path".  A client that has   *)
(* polled from zero on, with a ring that forgets nothing, has been given   *)
(* every line of run.log its cursor is past when a restart makes the file  *)
(* answer.                                                                 *)
(***************************************************************************)
NothingMissed ==
  daemon = "back" /\ last = "file" =>
    \A i \in 1..Len(file) : i <= cursor => file[i] \in seen \union got
=============================================================================
