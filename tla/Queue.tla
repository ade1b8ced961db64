------------------------------- MODULE Queue --------------------------------
(***************************************************************************)
(* server/internal/run/queue.go: a bounded FIFO with a fixed pool of       *)
(* workers, together with the two handlers that drive it: the part of      *)
(* createRun that admits a run (Store.Add, Queue.Submit, the refusal) and  *)
(* cancelRun.  Execute is seen from outside: it fails to launch, or it     *)
(* launches a process, reports its PID and some time later returns an      *)
(* outcome.                                                                *)
(*                                                                         *)
(* A step is what one goroutine does between two points where another one  *)
(* can be seen: one critical section of q.mu or of the store, one          *)
(* operation on the channel, one call of a CancelFunc, one write of        *)
(* meta.json.                                                              *)
(***************************************************************************)
EXTENDS Store, Integers, Sequences, FiniteSets

CONSTANTS Workers,     (* the worker goroutines                            *)
          Cancels,     (* the cancel requests clients make, one call each  *)
          Depth,       (* capacity of the jobs channel: PSTAD_QUEUE_DEPTH  *)
          DiskMayFail, (* whether a write of meta.json can fail            *)
          NoRun        (* "no run": what an idle goroutine works on        *)

(***************************************************************************)
(* A createRun handler is named by the id of the run it creates.           *)
(* config.validate rejects a pool or a queue depth below one.              *)
(***************************************************************************)
ASSUME QueueAssumption ==
  /\ Actors = Runs \union Workers \union Cancels
  /\ Runs \intersect Workers = {}
  /\ Runs \intersect Cancels = {}
  /\ Workers \intersect Cancels = {}
  /\ NoRun \notin Runs
  /\ Depth \in Nat \ {0}
  /\ DiskMayFail \in BOOLEAN

VARIABLES jobs,       (* the channel of waiting jobs, oldest first         *)
          closed,     (* Stop has closed the channel                       *)
          rootDone,   (* the context given to Start is cancelled           *)
          live,       (* keys of q.live                                    *)
          bufs,       (* q.bufs: the log buffer of a run, open or closed   *)
          cancelled,  (* keys of q.cancelled                               *)
          armed,      (* the jobs whose cancelFn is set                    *)
          stopped,    (* the jobs whose cancelFn has been called           *)
          proc,       (* the process Execute starts and waits for, by run  *)
          wpc,        (* where each worker is in worker, execute, finish   *)
          cur,        (* the job each worker holds                         *)
          outcome,    (* what Execute returned to each worker              *)
          cpc,        (* where each cancel request is in Cancel            *)
          target,     (* the run each cancel request names                 *)
          reply,      (* the status each cancel request was answered with  *)
          spc,        (* where each createRun handler is                   *)
          ack         (* the state shown in each 202 response to a submit  *)

workerVars == <<wpc, cur, outcome>>
cancelVars == <<cpc, target, reply>>
submitVars == <<spc, ack>>
queueVars == <<jobs, closed, rootDone, live, bufs, cancelled, armed, stopped, proc>>
vars == <<storeVars, queueVars, workerVars, cancelVars, submitVars>>

WorkerPCs == {"idle", "taken", "starting", "armed", "marked", "launching",
              "launched", "recorded", "running", "finishing", "finished",
              "closing", "retiring", "exited"}
CancelPCs == {"new", "got", "flagged", "recording", "recorded", "done"}
SubmitPCs == {"new", "added", "stored", "registered", "sent", "acked",
              "full", "refusing", "refused", "rejected", "failed", "panicked"}
Replies == {"none", "202", "404", "409", "500"}

TypeOK ==
  /\ StoreTypeOK
  /\ jobs \in Seq(Runs)
  /\ closed \in BOOLEAN
  /\ rootDone \in BOOLEAN
  /\ live \in SUBSET Runs
  /\ bufs \in [Runs -> {"none", "open", "closed"}]
  /\ cancelled \in SUBSET Runs
  /\ armed \in SUBSET Runs
  /\ stopped \in SUBSET Runs
  /\ proc \in [Runs -> {"none", "alive", "exited"}]
  /\ wpc \in [Workers -> WorkerPCs]
  /\ cur \in [Workers -> Runs \union {NoRun}]
  /\ outcome \in [Workers -> TerminalStates \union {"none"}]
  /\ cpc \in [Cancels -> CancelPCs]
  /\ target \in [Cancels -> Runs \union {NoRun}]
  /\ reply \in [Cancels -> Replies]
  /\ spc \in [Runs -> SubmitPCs]
  /\ ack \in [Runs -> States \union {"none"}]

QueueInit ==
  /\ jobs = <<>>
  /\ closed = FALSE
  /\ rootDone = FALSE
  /\ live = {}
  /\ bufs = [r \in Runs |-> "none"]
  /\ cancelled = {}
  /\ armed = {}
  /\ stopped = {}
  /\ proc = [r \in Runs |-> "none"]
  /\ wpc = [w \in Workers |-> "idle"]
  /\ cur = [w \in Workers |-> NoRun]
  /\ outcome = [w \in Workers |-> "none"]
  /\ cpc = [c \in Cancels |-> "new"]
  /\ target = [c \in Cancels |-> NoRun]
  /\ reply = [c \in Cancels |-> "none"]
  /\ spc = [r \in Runs |-> "new"]
  /\ ack = [r \in Runs |-> "none"]

Init == StoreInit /\ QueueInit

-----------------------------------------------------------------------------
(* createRun, from Store.Add to the response.                              *)

SubmitStep(r, from, to) ==
  /\ spc[r] = from
  /\ spc' = [spc EXCEPT ![r] = to]

(* s.store.Add(r0): the record is in memory before it is on disk. *)
AddRun(r) ==
  /\ SubmitStep(r, "new", "added")
  /\ Update(r, r, Fresh)
  /\ UNCHANGED <<queueVars, workerVars, cancelVars, ack>>

(* Add's write: a failure is answered 500, and the record stays in memory. *)
AddPersists(r) ==
  /\ \/ SubmitStep(r, "added", "stored") /\ Persist(r, r)
     \/ DiskMayFail /\ SubmitStep(r, "added", "failed") /\ PersistFails(r)
  /\ UNCHANGED <<queueVars, workerVars, cancelVars, ack>>

(* Submit, first critical section: the job can be found before it is sent. *)
Register(r) ==
  /\ SubmitStep(r, "stored", "registered")
  /\ live' = live \union {r}
  /\ bufs' = [bufs EXCEPT ![r] = "open"]
  /\ UNCHANGED <<storeVars, jobs, closed, rootDone, cancelled, armed, stopped,
                 proc, workerVars, cancelVars, ack>>

Mut_HasRoom == Len(jobs) <= Depth

HasRoom == Len(jobs) < Depth

Mut_Send(r) ==
  /\ ~closed /\ HasRoom
  /\ spc[r] \in {"registered", "sent"} /\ spc' = [spc EXCEPT ![r] = "sent"]
  /\ jobs' = Append(jobs, r)
  /\ UNCHANGED <<storeVars, closed, rootDone, live, bufs, cancelled, armed,
                 stopped, proc, workerVars, cancelVars, ack>>

(* The select in Submit: the job is sent if the channel has room for it.   *)
Send(r) ==
  /\ ~closed /\ HasRoom
  /\ SubmitStep(r, "registered", "sent")
  /\ jobs' = Append(jobs, r)
  /\ UNCHANGED <<storeVars, closed, rootDone, live, bufs, cancelled, armed,
                 stopped, proc, workerVars, cancelVars, ack>>

(* Its default branch, when the channel is full: Submit is to give up ...  *)
FindFull(r) ==
  /\ ~closed /\ ~HasRoom
  /\ SubmitStep(r, "registered", "full")
  /\ UNCHANGED <<storeVars, queueVars, workerVars, cancelVars, ack>>

Mut_Unregister(r) ==
  /\ SubmitStep(r, "full", "refusing")
  /\ live' = live \ {r}
  /\ UNCHANGED <<storeVars, jobs, closed, rootDone, bufs, cancelled, armed, stopped,
                 proc, workerVars, cancelVars, ack>>

(* ... takes the job out of both maps, and closes the buffer it made.      *)
Unregister(r) ==
  /\ SubmitStep(r, "full", "refusing")
  /\ live' = live \ {r}
  /\ bufs' = [bufs EXCEPT ![r] = "none"]
  /\ UNCHANGED <<storeVars, jobs, closed, rootDone, cancelled, armed, stopped,
                 proc, workerVars, cancelVars, ack>>

(* createRun on ErrQueueFull: the record becomes errored, the answer 429.  *)
Refuse(r) ==
  /\ SubmitStep(r, "refusing", "refused")
  /\ Update(r, r, [mem[r] EXCEPT !.state = "errored", !.error = "queue full"])
  /\ UNCHANGED <<queueVars, workerVars, cancelVars, ack>>

RefusePersists(r) ==
  /\ SubmitStep(r, "refused", "rejected")
  /\ Persist(r, r) \/ (DiskMayFail /\ PersistFails(r))
  /\ UNCHANGED <<queueVars, workerVars, cancelVars, ack>>

(* A send on a closed channel panics, with a default branch or without;    *)
(* recoverPanics turns it into a 500.                                      *)
SendPanics(r) ==
  /\ closed
  /\ SubmitStep(r, "registered", "panicked")
  /\ UNCHANGED <<storeVars, queueVars, workerVars, cancelVars, ack>>

(* The 202 response encodes r0, the record the store itself holds.         *)
Acknowledge(r) ==
  /\ SubmitStep(r, "sent", "acked")
  /\ ack' = [ack EXCEPT ![r] = mem[r].state]
  /\ UNCHANGED <<storeVars, queueVars, workerVars, cancelVars>>

Submitter(r) ==
  \/ AddPersists(r) \/ Register(r) \/ Send(r) \/ FindFull(r) \/ Unregister(r)
  \/ Refuse(r) \/ RefusePersists(r) \/ SendPanics(r) \/ Acknowledge(r)

-----------------------------------------------------------------------------
(* Cancel, and the status cancelRun answers with.                          *)

CancelStep(c, from, to) ==
  /\ cpc[c] = from
  /\ cpc' = [cpc EXCEPT ![c] = to]

Answer(c, status) == reply' = [reply EXCEPT ![c] = status]

(* store.Get: an unknown and a finished run are answered at once.          *)
CancelGet(c, r) ==
  /\ target' = [target EXCEPT ![c] = r]
  /\ \/ ~Known(r) /\ CancelStep(c, "new", "done") /\ Answer(c, "404")
     \/ Terminal(mem[r].state) /\ CancelStep(c, "new", "done") /\ Answer(c, "409")
     \/ mem[r].state \in LiveStates /\ CancelStep(c, "new", "got") /\ UNCHANGED reply
  /\ UNCHANGED <<storeVars, queueVars, workerVars, submitVars>>

(* The critical section of Cancel.  The flag is set whether or not the     *)
(* job is found, and an unfound job is answered 404.                       *)
CancelFlag(c) ==
  /\ cancelled' = cancelled \union {target[c]}
  /\ \/ target[c] \in live /\ CancelStep(c, "got", "flagged") /\ UNCHANGED reply
     \/ target[c] \notin live /\ CancelStep(c, "got", "done") /\ Answer(c, "404")
  /\ UNCHANGED <<storeVars, jobs, closed, rootDone, live, bufs, armed, stopped,
                 proc, workerVars, target, submitVars>>

(* j.cancelFn is read after the lock is released.  Set, it is called; the  *)
(* caller is told 202 whatever Execute makes of it.                        *)
CancelSignal(c) ==
  /\ \/ /\ target[c] \in armed
        /\ CancelStep(c, "flagged", "done")
        /\ Answer(c, "202")
        /\ stopped' = stopped \union {target[c]}
     \/ /\ target[c] \notin armed
        /\ CancelStep(c, "flagged", "recording")
        /\ UNCHANGED <<reply, stopped>>
  /\ UNCHANGED <<storeVars, jobs, closed, rootDone, live, bufs, cancelled, armed,
                 proc, workerVars, target, submitVars>>

(* Not set, the job is taken to be still queued and is marked cancelled.   *)
CancelRecord(c) ==
  /\ CancelStep(c, "recording", "recorded")
  /\ Update(c, target[c], [mem[target[c]] EXCEPT !.state = "cancelled", !.ended = TRUE])
  /\ UNCHANGED <<queueVars, workerVars, target, reply, submitVars>>

CancelPersists(c) ==
  /\ CancelStep(c, "recorded", "done")
  /\ \/ Persist(c, target[c]) /\ Answer(c, "202")
     \/ DiskMayFail /\ PersistFails(c) /\ Answer(c, "500")
  /\ UNCHANGED <<queueVars, workerVars, target, submitVars>>

Canceller(c) ==
  \/ CancelFlag(c) \/ CancelSignal(c) \/ CancelRecord(c) \/ CancelPersists(c)

-----------------------------------------------------------------------------
(* worker, execute and finish.                                             *)

WorkerStep(w, from, to) ==
  /\ wpc[w] = from
  /\ wpc' = [wpc EXCEPT ![w] = to]

(* One iteration of "for j := range q.jobs" receives the oldest job ...    *)
Take(w) ==
  /\ jobs # <<>>
  /\ WorkerStep(w, "idle", "taken")
  /\ cur' = [cur EXCEPT ![w] = Head(jobs)]
  /\ jobs' = Tail(jobs)
  /\ UNCHANGED <<storeVars, closed, rootDone, live, bufs, cancelled, armed,
                 stopped, proc, outcome, cancelVars, submitVars>>

(* ... and the loop ends once the channel is closed and drained.           *)
WorkerExit(w) ==
  /\ closed /\ jobs = <<>>
  /\ WorkerStep(w, "idle", "exited")
  /\ UNCHANGED <<storeVars, queueVars, cur, outcome, cancelVars, submitVars>>

Mut_MustSkip(r) == FALSE

MustSkip(r) == r \in cancelled

Mut_CheckFlag(w) ==
  /\ \/ /\ MustSkip(cur[w])
        /\ WorkerStep(w, "taken", "finishing")
     \/ /\ ~MustSkip(cur[w])
        /\ WorkerStep(w, "taken", "starting")
  /\ UNCHANGED <<storeVars, queueVars, cur, outcome, cancelVars, submitVars>>

Mut_SkipCheckFlag(w) ==
  \/ /\ MustSkip(cur[w])
     /\ WorkerStep(w, "taken", "idle")
     /\ cur' = [cur EXCEPT ![w] = NoRun]
     /\ UNCHANGED <<storeVars, queueVars, outcome, cancelVars, submitVars>>
  \/ /\ ~MustSkip(cur[w])
     /\ WorkerStep(w, "taken", "starting")
     /\ UNCHANGED <<storeVars, queueVars, cur, outcome, cancelVars, submitVars>>

(* The critical section of worker: a flagged job goes straight to finish.  *)
CheckFlag(w) ==
  /\ \/ /\ MustSkip(cur[w])
        /\ WorkerStep(w, "taken", "finishing")
        /\ outcome' = [outcome EXCEPT ![w] = "cancelled"]
     \/ /\ ~MustSkip(cur[w])
        /\ WorkerStep(w, "taken", "starting")
        /\ UNCHANGED outcome
  /\ UNCHANGED <<storeVars, queueVars, cur, cancelVars, submitVars>>

(* execute publishes the CancelFunc of the run's own context.              *)
Arm(w) ==
  /\ WorkerStep(w, "starting", "armed")
  /\ armed' = armed \union {cur[w]}
  /\ UNCHANGED <<storeVars, jobs, closed, rootDone, live, bufs, cancelled,
                 stopped, proc, cur, outcome, cancelVars, submitVars>>

(* The state becomes running, whatever it was.                             *)
MarkRunning(w) ==
  /\ WorkerStep(w, "armed", "marked")
  /\ Update(w, cur[w], [mem[cur[w]] EXCEPT !.state = "running"])
  /\ UNCHANGED <<queueVars, cur, outcome, cancelVars, submitVars>>

(* Execute up to cmd.Start; the context is not consulted.                  *)
Launch(w) ==
  /\ WorkerStep(w, "launching", "launched")
  /\ proc' = [proc EXCEPT ![cur[w]] = "alive"]
  /\ UNCHANGED <<storeVars, jobs, closed, rootDone, live, bufs, cancelled, armed,
                 stopped, cur, outcome, cancelVars, submitVars>>

LaunchFails(w) ==
  /\ WorkerStep(w, "launching", "finishing")
  /\ outcome' = [outcome EXCEPT ![w] = "errored"]
  /\ UNCHANGED <<storeVars, queueVars, cur, cancelVars, submitVars>>

(* onStart records the PID. *)
RecordPid(w) ==
  /\ WorkerStep(w, "launched", "recorded")
  /\ Update(w, cur[w], [mem[cur[w]] EXCEPT !.pid = TRUE])
  /\ UNCHANGED <<queueVars, cur, outcome, cancelVars, submitVars>>

(***************************************************************************)
(* What Execute can return for a launched job.  A deadline that fires, an  *)
(* exit status and an error of Wait need no cause here.  A cancelled       *)
(* outcome needs a cancelled context, but a cancelled context does not     *)
(* settle the outcome: the process may exit before the goroutine watching  *)
(* the context has looked at it.                                           *)
(***************************************************************************)
Outcomes(r) ==
  {"succeeded", "failed", "timed_out", "errored"}
    \union (IF rootDone \/ r \in stopped THEN {"cancelled"} ELSE {})

Mut_ExecuteReturns(w, o) ==
  /\ o \in Outcomes(cur[w])
  /\ WorkerStep(w, "running", "finishing")
  /\ outcome' = [outcome EXCEPT ![w] = o]
  /\ UNCHANGED <<storeVars, queueVars, cur, cancelVars, submitVars>>

Mut_ReturnCloses(w, o) ==
  /\ o \in Outcomes(cur[w])
  /\ WorkerStep(w, "running", "finishing")
  /\ proc' = [proc EXCEPT ![cur[w]] = "exited"]
  /\ bufs' = [bufs EXCEPT ![cur[w]] = "closed"]
  /\ outcome' = [outcome EXCEPT ![w] = o]
  /\ UNCHANGED <<storeVars, jobs, closed, rootDone, live, cancelled, armed, stopped,
                 cur, cancelVars, submitVars>>

ExecuteReturns(w, o) ==
  /\ o \in Outcomes(cur[w])
  /\ WorkerStep(w, "running", "finishing")
  /\ proc' = [proc EXCEPT ![cur[w]] = "exited"]
  /\ outcome' = [outcome EXCEPT ![w] = o]
  /\ UNCHANGED <<storeVars, jobs, closed, rootDone, live, bufs, cancelled, armed,
                 stopped, cur, cancelVars, submitVars>>

(* The mutation of finish: a recorded cancellation is not overwritten.     *)
Mut_FinalState(old, o) == old

FinalState(old, o) == IF old # "cancelled" \/ o = "cancelled" THEN o ELSE old

FinalRecord(rec, o, ran) ==
  [state |-> FinalState(rec.state, o),
   pid |-> FALSE,
   ended |-> TRUE,
   artifacts |-> IF ran THEN "resolvable" ELSE "none",
   error |-> IF o = "errored" THEN "exec" ELSE rec.error]

Finish(w) ==
  /\ WorkerStep(w, "finishing", "finished")
  /\ Update(w, cur[w], FinalRecord(mem[cur[w]], outcome[w], proc[cur[w]] = "exited"))
  /\ UNCHANGED <<queueVars, cur, outcome, cancelVars, submitVars>>

Mut_WorkerPersists(w) ==
  /\ \/ WorkerStep(w, "marked", "launching") /\ Persist(w, cur[w])
     \/ WorkerStep(w, "recorded", "running") /\ Persist(w, cur[w])
     \/ WorkerStep(w, "finished", "closing") /\ Persist(w, cur[w])
     \/ DiskMayFail /\ WorkerStep(w, "finished", "finishing") /\ PersistFails(w)
  /\ UNCHANGED <<queueVars, cur, outcome, cancelVars, submitVars>>

(* Where a worker goes on once its update is written; errors are logged.   *)
WorkerPersists(w) ==
  /\ \/ WorkerStep(w, "marked", "launching")
     \/ WorkerStep(w, "recorded", "running")
     \/ WorkerStep(w, "finished", "closing")
  /\ Persist(w, cur[w]) \/ (DiskMayFail /\ PersistFails(w))
  /\ UNCHANGED <<queueVars, cur, outcome, cancelVars, submitVars>>

(* finish closes the buffer with the job still in q.live ...               *)
CloseBuffer(w) ==
  /\ WorkerStep(w, "closing", "retiring")
  /\ bufs' = [bufs EXCEPT ![cur[w]] = "closed"]
  /\ UNCHANGED <<storeVars, jobs, closed, rootDone, live, cancelled, armed, stopped,
                 proc, cur, outcome, cancelVars, submitVars>>

Mut_Retire(w) ==
  /\ WorkerStep(w, "retiring", "idle")
  /\ cancelled' = cancelled \ {cur[w]}
  /\ cur' = [cur EXCEPT ![w] = NoRun]
  /\ outcome' = [outcome EXCEPT ![w] = "none"]
  /\ UNCHANGED <<storeVars, jobs, closed, rootDone, live, bufs, armed, stopped, proc,
                 cancelVars, submitVars>>

(* ... and then, in one critical section, both maps let go of the job.     *)
Retire(w) ==
  /\ WorkerStep(w, "retiring", "idle")
  /\ live' = live \ {cur[w]}
  /\ cancelled' = cancelled \ {cur[w]}
  /\ cur' = [cur EXCEPT ![w] = NoRun]
  /\ outcome' = [outcome EXCEPT ![w] = "none"]
  /\ UNCHANGED <<storeVars, jobs, closed, rootDone, bufs, armed, stopped, proc,
                 cancelVars, submitVars>>

Worker(w) ==
  \/ Take(w) \/ WorkerExit(w) \/ CheckFlag(w) \/ Arm(w) \/ MarkRunning(w)
  \/ Launch(w) \/ LaunchFails(w) \/ RecordPid(w)
  \/ (\E o \in TerminalStates : ExecuteReturns(w, o))
  \/ Finish(w) \/ CloseBuffer(w) \/ Retire(w) \/ WorkerPersists(w)

-----------------------------------------------------------------------------
(* Shutdown: the signal cancels the context, then main calls Stop.         *)

Signal ==
  /\ ~rootDone
  /\ rootDone' = TRUE
  /\ UNCHANGED <<storeVars, jobs, closed, live, bufs, cancelled, armed, stopped,
                 proc, workerVars, cancelVars, submitVars>>

Stop ==
  /\ rootDone /\ ~closed
  /\ closed' = TRUE
  /\ UNCHANGED <<storeVars, jobs, rootDone, live, bufs, cancelled, armed, stopped,
                 proc, workerVars, cancelVars, submitVars>>

(* Every request answered and every worker idle or gone: no step is left.  *)
SubmitEnds == {"acked", "rejected", "failed", "panicked"}

AtRest ==
  /\ \A r \in Runs : spc[r] \in SubmitEnds
  /\ \A c \in Cancels : cpc[c] = "done"
  /\ closed
  /\ \A w \in Workers : wpc[w] = "exited"

Rest == AtRest /\ UNCHANGED vars

Next ==
  \/ \E r \in Runs : AddRun(r) \/ Submitter(r)
  \/ \E c \in Cancels, r \in Runs : CancelGet(c, r)
  \/ \E c \in Cancels : Canceller(c)
  \/ \E w \in Workers : Worker(w)
  \/ Signal \/ Stop \/ Rest

Spec == Init /\ [][Next]_vars

(***************************************************************************)
(* The Go scheduler runs every goroutine that can run.  Execute returns    *)
(* because its context has a deadline whose expiry kills the process tree; *)
(* main goes on to Stop because the wait for the HTTP server is bounded.   *)
(* No client has to send anything, and no signal has to come.              *)
(***************************************************************************)
Fairness ==
  /\ \A r \in Runs : WF_vars(Submitter(r))
  /\ \A c \in Cancels : WF_vars(Canceller(c))
  /\ \A w \in Workers : WF_vars(Worker(w))
  /\ WF_vars(Stop)

FairSpec == Spec /\ Fairness

-----------------------------------------------------------------------------
(* What the queue owes its callers.                                        *)

Waiting(r) == \E i \in 1..Len(jobs) : jobs[i] = r
Holds(w, r) == cur[w] = r
HeldAt(r, pcs) == \E w \in Workers : Holds(w, r) /\ wpc[w] \in pcs

Unfinished == {"taken", "starting", "armed", "marked", "launching", "launched",
               "recorded", "running", "finishing"}
Marked == {"marked", "launching", "launched", "recorded", "running", "finishing"}
Supervising == {"launched", "recorded", "running"}
Holding == Unfinished \union {"finished", "closing", "retiring"}

Submitted(r) == spc[r] \in {"sent", "acked"}

(* The worker is done changing the record of this run. *)
Settled(r) == Submitted(r) /\ ~Waiting(r) /\ ~HeldAt(r, Unfinished)

(* ... and has written it and let go of it.                                *)
Retired(r) == Submitted(r) /\ ~Waiting(r) /\ ~HeldAt(r, Holding)

(***************************************************************************)
(* No run is executed twice: it is in the channel at most once, never at a *)
(* worker as well, and never at two workers (queue.go: Submit, worker).    *)
(***************************************************************************)
OneHolder ==
  /\ \A i, j \in 1..Len(jobs) : jobs[i] = jobs[j] => i = j
  /\ \A w \in Workers : cur[w] \in Runs => ~Waiting(cur[w])
  /\ \A v, w \in Workers : cur[v] = cur[w] /\ cur[v] \in Runs => v = w

(***************************************************************************)
(* A run that reads "running" has a worker that will still finalise it,    *)
(* whatever cancellations did to the record in between: no run is left in  *)
(* "running" (store.go: "runs that never leave running").                  *)
(***************************************************************************)
RunningIsSupervised ==
  \A r \in Runs : mem[r].state = "running" => HeldAt(r, Marked)

(***************************************************************************)
(* No more runs execute at once than the pool has workers, by the count    *)
(* health reports and by the processes Execute has started and still waits *)
(* for (PSTAD_MAX_CONCURRENT, "Runs executing at once").  What such a      *)
(* process leaves behind in its group is Exec's subject, and not counted.  *)
(***************************************************************************)
WithinPool ==
  Cardinality(InState("running") \union {r \in Runs : proc[r] = "alive"})
    <= Cardinality(Workers)

(***************************************************************************)
(* A run that reads "queued" is on its way: its handler has yet to send    *)
(* it, or it waits, or a worker is about to mark it.  The two exceptions   *)
(* are submissions answered 500, whose record nothing will touch again.    *)
(***************************************************************************)
QueuedIsPending ==
  \A r \in Runs : mem[r].state = "queued" =>
    \/ spc[r] \notin {"sent", "acked", "rejected", "failed", "panicked"}
    \/ Waiting(r)
    \/ HeldAt(r, Unfinished)
    \/ spc[r] \in {"failed", "panicked"}

(***************************************************************************)
(* While a run waits or a worker holds it, cancel can find its job and     *)
(* getLog its buffer (q.live, q.bufs), whichever handlers ran meanwhile.   *)
(* The buffer is open until finish has finalised the record and closes it: *)
(* whoever sees it closed is not told any more that the run is executing.  *)
(***************************************************************************)
ReachableWhileLive ==
  \A r \in Runs :
    /\ Waiting(r) \/ HeldAt(r, Holding) => r \in live /\ bufs[r] # "none" /\ Known(r)
    /\ Waiting(r) \/ HeldAt(r, Holding \ {"retiring"}) => bufs[r] = "open"
    /\ bufs[r] = "closed" => Terminal(mem[r].state)

(***************************************************************************)
(* A submission answered 429 leaves nothing behind that could execute it   *)
(* (Submit's default branch undoes its registration).                      *)
(***************************************************************************)
RefusedNeverRuns ==
  \A r \in Runs : spc[r] \in {"refusing", "refused", "rejected"} =>
    /\ r \notin live /\ bufs[r] = "none"
    /\ ~Waiting(r) /\ ~HeldAt(r, WorkerPCs) /\ proc[r] = "none"

(***************************************************************************)
(* A finalised run is in a terminal state and stays in one, although a     *)
(* cancellation that read the record earlier may still write to it         *)
(* (finish and Cancel).                                                    *)
(***************************************************************************)
SettledIsTerminal == \A r \in Runs : Settled(r) => Terminal(mem[r].state)

(***************************************************************************)
(* When no write fails, a retired run is terminal on disk too: the copies  *)
(* that goroutines write late are never those of a live state, so a        *)
(* restart does not take a finished run for an orphan.                     *)
(***************************************************************************)
SettledOnDisk ==
  ~DiskMayFail => \A r \in Runs : Retired(r) => Terminal(disk[r].state)

(* A cancellation in time is that of a run not yet looked at by a worker:  *)
(* it still waits, flagged, or has just been received ...                  *)
Doomed(r) == r \in cancelled /\ (Waiting(r) \/ HeldAt(r, {"taken"}))

(* ... a worker gives it straight to finish ...                            *)
Skips(w, r) ==
  /\ cur[w] = r /\ outcome[w] = "cancelled"
  /\ \/ wpc[w] = "finishing"
     \/ wpc[w] \in {"finished", "closing", "retiring"} /\ mem[r].state = "cancelled"

(* ... and has let go of it.                                               *)
CalledOff(r) ==
  /\ Submitted(r) /\ ~Waiting(r) /\ (\A w \in Workers : ~Holds(w, r))
  /\ mem[r].state = "cancelled"

CancelledInTime(r) ==
  /\ proc[r] = "none"
  /\ Doomed(r) \/ (\E w \in Workers : Skips(w, r)) \/ CalledOff(r)

(***************************************************************************)
(* queue.go:123: "A queued run is flagged and skipped when it reaches the  *)
(* front": from the moment a run is flagged while it waits, no step leads  *)
(* it anywhere but to finish and to "cancelled", where it stays, and it is *)
(* never launched, however many rival cancellations write its record.      *)
(***************************************************************************)
TimelyIsFinal ==
  /\ \A r \in Runs : Waiting(r) /\ r \in cancelled => CancelledInTime(r)
  /\ \A r \in Runs : CancelledInTime(r) => CancelledInTime(r)'

TimelyCancelIsFinal == [][TimelyIsFinal]_vars

(* Every job that enters the channel is finalised and let go of. *)
EveryJobSettles ==
  \A r \in Runs : Waiting(r) ~> Retired(r) /\ Terminal(mem[r].state) /\ r \notin live

(* Stop returns: q.wg.Wait sees every worker go, the backlog included. *)
StopReturns == closed ~> (\A w \in Workers : wpc[w] = "exited")

(***************************************************************************)
(* The queue implements the bounded FIFO with a pool of Dispatch: a run    *)
(* waits while it is in the channel, executes while a worker holds it, and *)
(* is over once finish has let go of it.                                   *)
(***************************************************************************)
D == INSTANCE Dispatch WITH
       waiting <- jobs,
       executing <- cur,
       over <- {r \in Runs : Retired(r)},
       open <- ~closed

ImplementsDispatch == D!Spec

-----------------------------------------------------------------------------
(* What comments and documents say, and the code does not keep.            *)

(***************************************************************************)
(* queue.go:123: "Cancel stops a run.  A queued run is flagged and skipped *)
(* when it reaches the front; a running one has its process tree killed":  *)
(* no process of a run whose cancellation was answered 202 goes on with    *)
(* its context intact.                                                     *)
(***************************************************************************)
AcceptedCancelStops ==
  \A c \in Cancels : reply[c] = "202" /\ proc[target[c]] = "alive" =>
    target[c] \in stopped
=============================================================================
