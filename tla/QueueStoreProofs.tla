-------------------------- MODULE QueueStoreProofs --------------------------
(***************************************************************************)
(* Theorems about what Queue leaves in the store and outside it: who may   *)
(* write a record in memory and on disk, what a retired run reads on disk, *)
(* how many runs can be executing, how its workers use Execute, and what   *)
(* becomes of a run cancelled while it waits.                              *)
(***************************************************************************)
EXTENDS QueueProofs, FiniteSetTheorems

USE QueueAssumption

-----------------------------------------------------------------------------
(* Who writes what. *)

(* A record in memory is written by its handler, its worker or a cancel.   *)
LEMMA MemMoves ==
  ASSUME Typed, [Next]_vars, NEW r \in Runs
  PROVE  \/ mem'[r] = mem[r]
         \/ AddRun(r)
         \/ Refuse(r)
         \/ \E c \in Cancels : CancelRecord(c) /\ target[c] = r
         \/ \E w \in Workers : cur[w] = r /\ (MarkRunning(w) \/ RecordPid(w) \/ Finish(w))
<1> DEFINE Goal ==
             \/ mem'[r] = mem[r]
             \/ AddRun(r)
             \/ Refuse(r)
             \/ \E c \in Cancels : CancelRecord(c) /\ target[c] = r
             \/ \E w \in Workers : cur[w] = r /\ (MarkRunning(w) \/ RecordPid(w) \/ Finish(w))
<1>1. StoreTypeOK /\ WorkerInv /\ TargetInv
  BY DEF Typed, TypeOK
<1>2. ASSUME NEW s \in Runs, AddRun(s) \/ Submitter(s) PROVE Goal
  <2>1. CASE AddRun(s) \/ Refuse(s)
    <3>1. r # s => mem'[r] = mem[r]
      BY <1>1, <2>1 DEF AddRun, Refuse, Update, StoreTypeOK
    <3> QED
      BY <2>1, <3>1
  <2>2. CASE AddPersists(s) \/ RefusePersists(s) \/ Register(s) \/ Send(s) \/ FindFull(s)
             \/ Unregister(s) \/ SendPanics(s) \/ Acknowledge(s)
    BY <2>2 DEF AddPersists, RefusePersists, Register, Send, FindFull, Unregister, SendPanics,
            Acknowledge, Persist, PersistFails, storeVars
  <2> QED
    BY <1>2, <2>1, <2>2 DEF Submitter
<1>3. ASSUME NEW c \in Cancels, NEW s \in Runs, CancelGet(c, s) PROVE Goal
  BY <1>3 DEF CancelGet, storeVars
<1>4. ASSUME NEW c \in Cancels, Canceller(c) PROVE Goal
  <2>1. CASE CancelRecord(c)
    <3>1. r # target[c] => mem'[r] = mem[r]
      BY <1>1, <2>1 DEF CancelRecord, Update, StoreTypeOK
    <3> QED
      BY <2>1, <3>1
  <2>2. CASE CancelFlag(c) \/ CancelSignal(c) \/ CancelPersists(c)
    BY <2>2 DEF CancelFlag, CancelSignal, CancelPersists, Persist, PersistFails, storeVars
  <2> QED
    BY <1>4, <2>1, <2>2 DEF Canceller
<1>5. ASSUME NEW w \in Workers, Worker(w) PROVE Goal
  <2>1. CASE MarkRunning(w) \/ RecordPid(w) \/ Finish(w)
    <3>1. r # cur[w] => mem'[r] = mem[r]
      BY <1>1, <2>1 DEF MarkRunning, RecordPid, Finish, Update, StoreTypeOK
    <3> QED
      BY <2>1, <3>1
  <2>2. CASE ~MarkRunning(w) /\ ~Finish(w) /\ ~RecordPid(w)
    BY <1>5, <2>2 DEF Worker, Take, WorkerExit, CheckFlag, Arm, Launch, LaunchFails,
            ExecuteReturns, CloseBuffer, Retire, WorkerPersists, Persist, PersistFails, storeVars
  <2> QED
    BY <2>1, <2>2
<1>6. ASSUME Signal \/ Stop \/ UNCHANGED vars PROVE Goal
  BY <1>6 DEF Signal, Stop, vars, storeVars
<1> HIDE DEF Goal
<1>7. Goal
  BY <1>2, <1>3, <1>4, <1>5, <1>6 DEF Next, Rest
<1> QED
  BY <1>7 DEF Goal

(* So is meta.json, by a goroutine whose update was the step before.       *)
Writes(a, r) ==
  \/ a = r /\ spc[r] \in {"added", "refused"}
  \/ a \in Workers /\ cur[a] = r /\ wpc[a] \in {"marked", "recorded", "finished"}
  \/ a \in Cancels /\ target[a] = r /\ cpc[a] = "recorded"

LEMMA DiskMoves ==
  ASSUME Typed, [Next]_vars, NEW r \in Runs
  PROVE  \/ disk'[r] = disk[r]
         \/ \E a \in Actors : Writes(a, r) /\ Persist(a, r)
<1> DEFINE Goal == \/ disk'[r] = disk[r]
                   \/ \E a \in Actors : Writes(a, r) /\ Persist(a, r)
<1>1. disk \in [Runs -> Records]
  BY DEF Typed, TypeOK, StoreTypeOK
<1>2. ASSUME NEW s \in Runs, AddRun(s) \/ Submitter(s) PROVE Goal
  <2>1. CASE AddPersists(s) \/ RefusePersists(s)
    <3>1. s \in Actors /\ (PersistFails(s) \/ (Persist(s, s) /\ Writes(s, s)))
      BY <2>1 DEF AddPersists, RefusePersists, SubmitStep, Writes
    <3>2. r # s => disk'[r] = disk[r]
      BY <1>1, <3>1 DEF Persist, PersistFails
    <3> QED
      BY <3>1, <3>2 DEF PersistFails
  <2>2. CASE AddRun(s) \/ Refuse(s) \/ Register(s) \/ Send(s) \/ FindFull(s)
             \/ Unregister(s) \/ SendPanics(s) \/ Acknowledge(s)
    BY <2>2 DEF AddRun, Refuse, Update, Register, Send, FindFull, Unregister, SendPanics,
            Acknowledge, storeVars
  <2> QED
    BY <1>2, <2>1, <2>2 DEF Submitter
<1>3. ASSUME NEW c \in Cancels, NEW s \in Runs, CancelGet(c, s) PROVE Goal
  BY <1>3 DEF CancelGet, storeVars
<1>4. ASSUME NEW c \in Cancels, Canceller(c) PROVE Goal
  <2>1. CASE CancelPersists(c)
    <3>1. c \in Actors
          /\ (PersistFails(c) \/ (Persist(c, target[c]) /\ Writes(c, target[c])))
      BY <2>1 DEF CancelPersists, CancelStep, Writes
    <3>2. r # target[c] => disk'[r] = disk[r]
      BY <1>1, <3>1 DEF Persist, PersistFails
    <3> QED
      BY <3>1, <3>2 DEF PersistFails
  <2>2. CASE CancelFlag(c) \/ CancelSignal(c) \/ CancelRecord(c)
    BY <2>2 DEF CancelFlag, CancelSignal, CancelRecord, Update, storeVars
  <2> QED
    BY <1>4, <2>1, <2>2 DEF Canceller
<1>5. ASSUME NEW w \in Workers, Worker(w) PROVE Goal
  <2>1. CASE WorkerPersists(w)
    <3>1. w \in Actors
          /\ (PersistFails(w) \/ (Persist(w, cur[w]) /\ Writes(w, cur[w])))
      BY <2>1 DEF WorkerPersists, WorkerStep, Writes
    <3>2. r # cur[w] => disk'[r] = disk[r]
      BY <1>1, <3>1 DEF Persist, PersistFails
    <3> QED
      BY <3>1, <3>2 DEF PersistFails
  <2>2. CASE ~WorkerPersists(w)
    BY <1>5, <2>2 DEF Worker, Take, WorkerExit, CheckFlag, Arm, MarkRunning, Launch,
            LaunchFails, RecordPid, ExecuteReturns, Finish, CloseBuffer, Retire, Update, storeVars
  <2> QED
    BY <2>1, <2>2
<1>6. ASSUME Signal \/ Stop \/ UNCHANGED vars PROVE Goal
  BY <1>6 DEF Signal, Stop, vars, storeVars
<1> HIDE DEF Goal
<1>7. Goal
  BY <1>2, <1>3, <1>4, <1>5, <1>6 DEF Next, Rest
<1> QED
  BY <1>7 DEF Goal

(* A goroutine's copy is its own, of the record it has just written.       *)
Updates(a, r) ==
  \/ a = r /\ spc[r] \in {"new", "refusing"}
  \/ a \in Workers /\ cur[a] = r
  \/ a \in Cancels /\ target[a] = r /\ cpc[a] = "recording"

LEMMA CopyMoves ==
  ASSUME Typed, [Next]_vars, NEW a \in Actors
  PROVE  \/ pend'[a] = pend[a]
         \/ /\ \/ a \in Runs /\ (AddRun(a) \/ Submitter(a))
               \/ a \in Cancels /\ Canceller(a)
               \/ a \in Workers /\ Worker(a)
            /\ \/ pend'[a] = Absent
               \/ \E r \in Runs : Updates(a, r) /\ Update(a, r, pend'[a])
<1> DEFINE Goal ==
             \/ pend'[a] = pend[a]
             \/ /\ \/ a \in Runs /\ (AddRun(a) \/ Submitter(a))
                   \/ a \in Cancels /\ Canceller(a)
                   \/ a \in Workers /\ Worker(a)
                /\ \/ pend'[a] = Absent
                   \/ \E r \in Runs : Updates(a, r) /\ Update(a, r, pend'[a])
<1>0. pend \in [Actors -> Records] /\ WorkerInv /\ TargetInv
  BY DEF Typed, TypeOK, StoreTypeOK
<1>1. ASSUME NEW b \in Actors, NEW r \in Runs, NEW rec, Update(b, r, rec)
      PROVE  IF a = b THEN pend'[a] = rec ELSE pend'[a] = pend[a]
  BY <1>0, <1>1 DEF Update
<1>2. ASSUME NEW b \in Actors, NEW r, Persist(b, r) \/ PersistFails(b)
      PROVE  IF a = b THEN pend'[a] = Absent ELSE pend'[a] = pend[a]
  BY <1>0, <1>2 DEF Persist, PersistFails
<1>3. ASSUME NEW s \in Runs, AddRun(s) \/ Submitter(s) PROVE Goal
  <2> s \in Actors
    OBVIOUS
  <2>1. CASE AddRun(s)
    <3>1. Update(s, s, Fresh) /\ Updates(s, s)
      BY <2>1 DEF AddRun, SubmitStep, Updates
    <3> QED
      BY <1>1, <1>3, <3>1
  <2>2. CASE Refuse(s)
    <3>1. Updates(s, s)
      BY <2>2 DEF Refuse, SubmitStep, Updates
    <3>2. PICK rec : Update(s, s, rec)
      BY <2>2 DEF Refuse
    <3> QED
      BY <1>1, <1>3, <3>1, <3>2
  <2>3. CASE AddPersists(s) \/ RefusePersists(s)
    BY <1>2, <1>3, <2>3 DEF AddPersists, RefusePersists
  <2>4. CASE Register(s) \/ Send(s) \/ FindFull(s) \/ Unregister(s) \/ SendPanics(s)
             \/ Acknowledge(s)
    BY <2>4 DEF Register, Send, FindFull, Unregister, SendPanics, Acknowledge, storeVars
  <2> QED
    BY <1>3, <2>1, <2>2, <2>3, <2>4 DEF Submitter
<1>4. ASSUME NEW c \in Cancels, NEW s \in Runs, CancelGet(c, s) PROVE Goal
  BY <1>4 DEF CancelGet, storeVars
<1>5. ASSUME NEW c \in Cancels, Canceller(c) PROVE Goal
  <2> c \in Actors
    OBVIOUS
  <2>1. CASE CancelRecord(c)
    <3>1. target[c] \in Runs /\ Updates(c, target[c])
      BY <1>0, <2>1 DEF CancelRecord, CancelStep, TargetInv, Updates
    <3>2. PICK rec : Update(c, target[c], rec)
      BY <2>1 DEF CancelRecord
    <3> QED
      BY <1>1, <1>5, <3>1, <3>2
  <2>2. CASE CancelPersists(c)
    BY <1>2, <1>5, <2>2 DEF CancelPersists
  <2>3. CASE CancelFlag(c) \/ CancelSignal(c)
    BY <2>3 DEF CancelFlag, CancelSignal, storeVars
  <2> QED
    BY <1>5, <2>1, <2>2, <2>3 DEF Canceller
<1>6. ASSUME NEW w \in Workers, Worker(w) PROVE Goal
  <2> w \in Actors
    OBVIOUS
  <2>1. CASE MarkRunning(w) \/ RecordPid(w) \/ Finish(w)
    <3>1. cur[w] \in Runs /\ Updates(w, cur[w])
      BY <1>0, <2>1 DEF MarkRunning, RecordPid, Finish, WorkerStep, WorkerInv, Updates
    <3>2. PICK rec : Update(w, cur[w], rec)
      BY <2>1 DEF MarkRunning, RecordPid, Finish
    <3> QED
      BY <1>1, <1>6, <3>1, <3>2
  <2>2. CASE WorkerPersists(w)
    BY <1>2, <1>6, <2>2 DEF WorkerPersists
  <2>3. CASE ~MarkRunning(w) /\ ~RecordPid(w) /\ ~Finish(w) /\ ~WorkerPersists(w)
    BY <1>6, <2>3 DEF Worker, Take, WorkerExit, CheckFlag, Arm, Launch, LaunchFails,
            ExecuteReturns, CloseBuffer, Retire, storeVars
  <2> QED
    BY <2>1, <2>2, <2>3
<1>7. ASSUME Signal \/ Stop \/ UNCHANGED vars PROVE Goal
  BY <1>7 DEF Signal, Stop, vars, storeVars
<1> HIDE DEF Goal
<1>8. Goal
  BY <1>3, <1>4, <1>5, <1>6, <1>7 DEF Next, Rest
<1> QED
  BY <1>8 DEF Goal

-----------------------------------------------------------------------------
(* A retired run is terminal on disk. *)

(* The copy a finishing worker, or a cancellation, has still to write.     *)
CopyInv ==
  /\ \A w \in Workers : wpc[w] = "finished" => Terminal(pend[w].state)
  /\ \A c \in Cancels : cpc[c] = "recorded" => Terminal(pend[c].state)

LEMMA CopyStep ==
  ASSUME Typed, CopyInv, [Next]_vars
  PROVE  CopyInv'
<1>0. /\ StoreTypeOK /\ WorkerInv /\ TargetInv
      /\ wpc \in [Workers -> WorkerPCs] /\ cpc \in [Cancels -> CancelPCs]
      /\ Workers \subseteq Actors /\ Cancels \subseteq Actors
  BY DEF Typed, TypeOK
<1>1. ASSUME NEW w \in Workers, wpc'[w] = "finished" PROVE Terminal(pend'[w].state)
  <2>1. CASE Finish(w)
    <3>1. cur[w] \in Runs /\ Terminal(mem'[cur[w]].state)
      BY <2>1, FinishState
    <3>2. pend'[w] = mem'[cur[w]]
      BY <1>0, <2>1, <3>1 DEF Finish, Update, StoreTypeOK
    <3> QED
      BY <3>1, <3>2
  <2>2. CASE Worker(w) /\ ~Finish(w)
    BY <1>0, <1>1, <2>2 DEF Worker, WorkerStep, Take, WorkerExit, CheckFlag, Arm, MarkRunning,
            Launch, LaunchFails, RecordPid, ExecuteReturns, CloseBuffer, Retire, WorkerPersists
  <2>3. CASE ~Worker(w)
    <3>1. wpc[w] = "finished"
      BY <1>1, <2>3, Phases
    <3>2. pend'[w] = pend[w]
      BY <1>0, <2>3, CopyMoves
    <3> QED
      BY <3>1, <3>2 DEF CopyInv
  <2> QED
    BY <2>1, <2>2, <2>3
<1>2. ASSUME NEW c \in Cancels, cpc'[c] = "recorded" PROVE Terminal(pend'[c].state)
  <2>1. CASE CancelRecord(c)
    <3>1. target[c] \in Runs /\ mem[target[c]] \in Records
      BY <1>0, <2>1 DEF CancelRecord, CancelStep, TargetInv, StoreTypeOK
    <3>2. pend'[c] = [mem[target[c]] EXCEPT !.state = "cancelled", !.ended = TRUE]
      BY <1>0, <2>1 DEF CancelRecord, Update, StoreTypeOK
    <3>3. pend'[c].state = "cancelled"
      BY <3>1, <3>2 DEF Records
    <3> QED
      BY <3>3 DEF Terminal, TerminalStates
  <2>2. CASE Canceller(c) /\ ~CancelRecord(c)
    BY <1>0, <1>2, <2>2 DEF Canceller, CancelStep, CancelFlag, CancelSignal, CancelPersists
  <2>3. CASE ~Canceller(c)
    <3>1. cpc[c] = "recorded"
      <4>1. ASSUME NEW s \in Runs, AddRun(s) \/ Submitter(s) PROVE cpc' = cpc
        BY <4>1 DEF AddRun, Submitter, AddPersists, Register, Send, FindFull, Unregister,
                Refuse, RefusePersists, SendPanics, Acknowledge, cancelVars
      <4>2. ASSUME NEW d \in Cancels, NEW s \in Runs, CancelGet(d, s)
            PROVE  cpc[c] = "recorded"
        BY <1>0, <1>2, <4>2 DEF CancelGet, CancelStep
      <4>3. ASSUME NEW d \in Cancels, d # c, Canceller(d) PROVE cpc'[c] = cpc[c]
        BY <1>0, <4>3 DEF Canceller, CancelStep, CancelFlag, CancelSignal, CancelRecord,
                CancelPersists
      <4>4. ASSUME NEW w \in Workers, Worker(w) PROVE cpc' = cpc
        BY <4>4 DEF Worker, WorkerExit, Take, CheckFlag, Arm, MarkRunning, Launch, LaunchFails,
                RecordPid, ExecuteReturns, Finish, CloseBuffer, Retire, WorkerPersists, cancelVars
      <4>5. Signal \/ Stop \/ UNCHANGED vars => cpc' = cpc
        BY DEF Signal, Stop, vars, cancelVars
      <4> QED
        BY <1>2, <2>3, <4>1, <4>2, <4>3, <4>4, <4>5 DEF Next, Rest
    <3>2. pend'[c] = pend[c]
      BY <1>0, <2>3, CopyMoves
    <3> QED
      BY <3>1, <3>2 DEF CopyInv
  <2> QED
    BY <2>1, <2>2, <2>3
<1> QED
  BY <1>1, <1>2 DEF CopyInv, Terminal

(* The worker has written the record it finalised. *)
Written(r) == Submitted(r) /\ ~Waiting(r) /\ ~HeldAt(r, Unfinished \union {"finished"})

(* Copies of live states are written by the worker alone, and before it    *)
(* finalises: a write that comes after that one is of a terminal record.   *)
LEMMA WrittenStep ==
  ASSUME Typed, CopyInv, [Next]_vars, ~DiskMayFail, NEW r \in Runs,
         Written(r) => Terminal(disk[r].state), Written(r)'
  PROVE  Terminal(disk'[r].state)
<1>1. /\ StoreTypeOK /\ jobs \in Seq(Runs) /\ cur \in [Workers -> Runs \union {NoRun}]
      /\ wpc \in [Workers -> WorkerPCs] /\ WorkerInv
  BY DEF Typed, TypeOK
<1>2. ASSUME NEW a \in Actors, Persist(a, r), Terminal(pend[a].state)
      PROVE  Terminal(disk'[r].state)
  <2>1. pend[a] \in Records /\ disk'[r] = ToMeta(pend[a])
    BY <1>1, <1>2 DEF StoreTypeOK, Persist
  <2>2. disk'[r].state = pend[a].state
    BY <2>1 DEF ToMeta, Records
  <2> QED
    BY <1>2, <2>2
<1>3. CASE Written(r)
  <2>1. Terminal(disk[r].state) /\ Submitted(r) /\ ~HeldAt(r, Unfinished \union {"finished"})
    BY <1>3 DEF Written
  <2>2. ASSUME NEW a \in Actors, Writes(a, r), Persist(a, r) PROVE Terminal(pend[a].state)
    BY <2>1, <2>2 DEF Writes, Submitted, HeldAt, Holds, Unfinished, CopyInv
  <2> QED
    BY <1>2, <2>1, <2>2, DiskMoves
<1>4. CASE ~Submitted(r)
  <2>1. ~Waiting(r)' /\ Submitted(r)'
    BY DEF Written
  <2>2. ~Send(r)
    BY <1>1, <2>1, WaitingAfterSend DEF Send
  <2> QED
    BY <1>4, <2>1, <2>2, SentBySend
<1>5. CASE Waiting(r)
  <2>1. ~Waiting(r)' /\ ~HeldAt(r, Unfinished \union {"finished"})'
    BY DEF Written
  <2>2. PICK w \in Workers : Take(w)
    <3>1. jobs' # jobs
      BY <1>5, <2>1 DEF Waiting
    <3>2. ASSUME NEW s \in Runs, Send(s) PROVE FALSE
      BY <1>1, <1>5, <2>1, <3>2, WaitingAfterSend DEF Send
    <3>3. ASSUME NEW w \in Workers, Retire(w) PROVE FALSE
      BY <3>1, <3>3 DEF Retire
    <3> QED
      BY <3>1, <3>2, <3>3, Moves
  <2>3. /\ jobs # <<>> /\ jobs' = Tail(jobs) /\ cur' = [cur EXCEPT ![w] = Head(jobs)]
        /\ wpc'[w] = "taken"
    BY <1>1, <2>2 DEF Take, WorkerStep
  <2>4. r = Head(jobs)
    BY <1>1, <1>5, <2>1, <2>3, WaitingAfterReceive
  <2>5. cur'[w] = r
    BY <1>1, <2>3, <2>4
  <2> QED
    BY <2>1, <2>3, <2>5 DEF HeldAt, Holds, Unfinished
<1>6. ASSUME NEW v \in Workers, Holds(v, r), wpc[v] \in Unfinished \union {"finished"}
      PROVE  Terminal(disk'[r].state)
  <2>1. ~(cur'[v] = r /\ wpc'[v] \in Unfinished \union {"finished"})
    BY DEF Written, HeldAt, Holds
  <2>2. Worker(v)
    BY <1>6, <2>1, Phases DEF Holds
  <2>3. CASE WorkerPersists(v) /\ wpc[v] = "finished"
    <3>1. v \in Actors /\ Persist(v, r) /\ Terminal(pend[v].state)
      BY <1>6, <2>3 DEF WorkerPersists, Holds, CopyInv
    <3> QED
      BY <1>2, <3>1
  <2>4. CASE ~(WorkerPersists(v) /\ wpc[v] = "finished")
    <3>1. cur'[v] = r /\ wpc'[v] \in Unfinished \union {"finished"}
      BY <1>1, <1>6, <2>2, <2>4 DEF Holds, Unfinished, Worker, WorkerStep, Take, WorkerExit,
              CheckFlag, Arm, MarkRunning, Launch, LaunchFails, RecordPid, ExecuteReturns,
              Finish, CloseBuffer, Retire, WorkerPersists
    <3> QED
      BY <2>1, <3>1
  <2> QED
    BY <2>3, <2>4
<1> QED
  BY <1>3, <1>4, <1>5, <1>6 DEF Written, HeldAt

(***************************************************************************)
(* When no write fails, a run the worker has let go of is terminal in its  *)
(* meta.json, whatever cancellation was still writing (Store.Update's two  *)
(* halves, finish, Cancel): a restart takes no finished run for an orphan. *)
(***************************************************************************)
THEOREM TerminalOnDisk == Spec => []SettledOnDisk
<1> DEFINE WrittenInv == ~DiskMayFail => \A r \in Runs : Written(r) => Terminal(disk[r].state)
<1>1. Init => CopyInv /\ WrittenInv
  BY DEF Init, QueueInit, CopyInv, Written, Submitted
<1>2. Typed /\ CopyInv /\ WrittenInv /\ [Next]_vars => (CopyInv /\ WrittenInv)'
  <2> SUFFICES ASSUME Typed, CopyInv, WrittenInv, [Next]_vars PROVE CopyInv' /\ WrittenInv'
    OBVIOUS
  <2>1. ASSUME ~DiskMayFail, NEW r \in Runs, Written(r)' PROVE Terminal(disk'[r].state)
    BY <2>1, WrittenStep
  <2> QED
    BY <2>1, CopyStep DEF Terminal
<1>3. WrittenInv => SettledOnDisk
  BY DEF SettledOnDisk, Retired, Written, HeldAt, Holding
<1> QED
  BY <1>1, <1>2, <1>3, PlaceAlways, PTL DEF Spec

-----------------------------------------------------------------------------
(* No more runs execute than there are workers. *)

(* A process that is alive has the worker that waits for it. *)
AliveInv == \A r \in Runs : proc[r] = "alive" => HeldAt(r, Supervising)

LEMMA AliveStays ==
  ASSUME Typed, [Next]_vars, NEW r \in Runs,
         proc[r] = "alive" => HeldAt(r, Supervising), proc'[r] = "alive"
  PROVE  HeldAt(r, Supervising)'
<1>0. /\ cur \in [Workers -> Runs \union {NoRun}] /\ wpc \in [Workers -> WorkerPCs]
      /\ proc \in [Runs -> {"none", "alive", "exited"}]
  BY DEF Typed, TypeOK
<1>1. ASSUME NEW w \in Workers, Launch(w), cur[w] = r PROVE HeldAt(r, Supervising)'
  BY <1>0, <1>1 DEF Launch, WorkerStep, HeldAt, Holds, Supervising
<1>2. proc[r] = "alive" \/ \E w \in Workers : Launch(w) /\ cur[w] = r
  <2>1. ASSUME NEW s \in Runs, AddRun(s) \/ Submitter(s) PROVE proc' = proc
    BY <2>1 DEF AddRun, Submitter, AddPersists, Register, Send, FindFull, Unregister, Refuse,
            RefusePersists, SendPanics, Acknowledge, queueVars
  <2>2. ASSUME NEW c \in Cancels, Canceller(c) \/ \E s \in Runs : CancelGet(c, s)
        PROVE  proc' = proc
    BY <2>2 DEF Canceller, CancelGet, CancelFlag, CancelSignal, CancelRecord, CancelPersists,
            queueVars
  <2>3. ASSUME NEW w \in Workers, Worker(w), ~(Launch(w) /\ cur[w] = r)
        PROVE  proc[r] = "alive"
    <3>1. CASE Launch(w)
      BY <1>0, <2>3, <3>1 DEF Launch
    <3>2. CASE \E o \in TerminalStates : ExecuteReturns(w, o)
      BY <1>0, <3>2 DEF ExecuteReturns
    <3>3. CASE ~Launch(w) /\ ~\E o \in TerminalStates : ExecuteReturns(w, o)
      BY <2>3, <3>3 DEF Worker, WorkerExit, Take, CheckFlag, Arm, MarkRunning, LaunchFails,
              RecordPid, Finish, CloseBuffer, Retire, WorkerPersists, queueVars
    <3> QED
      BY <3>1, <3>2, <3>3
  <2>4. Signal \/ Stop \/ UNCHANGED vars => proc' = proc
    BY DEF Signal, Stop, vars, queueVars
  <2> QED
    BY <2>1, <2>2, <2>3, <2>4 DEF Next, Rest
<1>3. ASSUME NEW v \in Workers, Holds(v, r), wpc[v] \in Supervising
      PROVE  cur'[v] = r /\ wpc'[v] \in Supervising
  <2>1. ASSUME NEW o \in TerminalStates, ExecuteReturns(v, o) PROVE FALSE
    BY <1>0, <1>3, <2>1 DEF ExecuteReturns, Holds
  <2>2. CASE Worker(v)
    BY <1>0, <1>3, <2>1, <2>2 DEF Holds, Supervising, Worker, WorkerStep, Take, WorkerExit,
            CheckFlag, Arm, MarkRunning, Launch, LaunchFails, RecordPid, Finish,
            CloseBuffer, Retire, WorkerPersists
  <2> QED
    BY <1>3, <2>2, Phases DEF Holds
<1> QED
  BY <1>1, <1>2, <1>3 DEF HeldAt, Holds

LEMMA AliveStep ==
  ASSUME Typed, AliveInv, [Next]_vars
  PROVE  AliveInv'
BY AliveStays DEF AliveInv

(* A worker has one run at a time. *)
LEMMA OneEach ==
  ASSUME IsFiniteSet(Workers), NEW Busy, \A r \in Busy : Executing(r)
  PROVE  Cardinality(Busy) <= Cardinality(Workers)
<1> DEFINE keeper == [r \in Busy |-> CHOOSE w \in Workers : cur[w] = r]
<1>1. \A r \in Busy : keeper[r] \in Workers /\ cur[keeper[r]] = r
  BY DEF Executing
<1>2. keeper \in [Busy -> Workers]
  BY <1>1
<1>3. \A q, r \in Busy : keeper[q] = keeper[r] => q = r
  BY <1>1
<1> HIDE DEF keeper
<1>4. keeper \in Injection(Busy, Workers)
  BY <1>2, <1>3 DEF Injection, IsInjective
<1> QED
  BY <1>4, FS_Injection

(***************************************************************************)
(* The runs that read "running" and those whose Playwright process, the    *)
(* leader of its group, is alive are at most as many as the workers, and   *)
(* every such leader has a worker that is waiting for it in Execute.       *)
(* Descendants that outlive their leader are not counted                   *)
(* (PSTAD_MAX_CONCURRENT, worker, execute).                                *)
(***************************************************************************)
THEOREM PoolIsTheLimit ==
  ASSUME IsFiniteSet(Workers)
  PROVE  Spec => [](WithinPool /\ AliveInv)
<1>1. Init => AliveInv /\ RunningIsSupervised
  BY DEF Init, StoreInit, QueueInit, Absent, AliveInv, RunningIsSupervised
<1>2. Typed /\ AliveInv /\ RunningIsSupervised /\ [Next]_vars
        => (AliveInv /\ RunningIsSupervised)'
  BY AliveStep, RunningStep
<1>3. AliveInv /\ RunningIsSupervised => WithinPool
  <2> SUFFICES ASSUME AliveInv, RunningIsSupervised PROVE WithinPool
    OBVIOUS
  <2> DEFINE Busy == InState("running") \union {r \in Runs : proc[r] = "alive"}
  <2>1. \A r \in Busy : Executing(r)
    BY DEF InState, AliveInv, RunningIsSupervised, HeldAt, Holds, Executing
  <2>2. Cardinality(Busy) <= Cardinality(Workers)
    BY <2>1, OneEach
  <2> QED
    BY <2>2 DEF WithinPool
<1> QED
  BY <1>1, <1>2, <1>3, PlaceAlways, PTL DEF Spec

-----------------------------------------------------------------------------
(* A worker on its run, and the call of Execute it makes.                  *)

(* The process of a run starts and ends with the worker that holds it.     *)
LEMMA ProcByWorker ==
  ASSUME Typed, [Next]_vars, NEW r \in Runs
  PROVE  \/ proc'[r] = proc[r]
         \/ \E w \in Workers :
              /\ Launch(w) \/ \E o \in TerminalStates : ExecuteReturns(w, o)
              /\ cur[w] = r /\ cur'[w] = r /\ wpc'[w] \in {"launched", "finishing"}
<1>0. /\ proc \in [Runs -> {"none", "alive", "exited"}] /\ wpc \in [Workers -> WorkerPCs]
  BY DEF Typed, TypeOK
<1>1. ASSUME NEW s \in Runs, AddRun(s) \/ Submitter(s) PROVE proc' = proc
  BY <1>1 DEF AddRun, Submitter, AddPersists, Register, Send, FindFull, Unregister, Refuse,
          RefusePersists, SendPanics, Acknowledge, queueVars
<1>2. ASSUME NEW c \in Cancels, Canceller(c) \/ \E s \in Runs : CancelGet(c, s)
      PROVE  proc' = proc
  BY <1>2 DEF Canceller, CancelGet, CancelFlag, CancelSignal, CancelRecord, CancelPersists,
          queueVars
<1>3. ASSUME NEW w \in Workers, Launch(w) \/ \E o \in TerminalStates : ExecuteReturns(w, o)
      PROVE  /\ proc'[r] = proc[r] \/ cur[w] = r
             /\ cur' = cur /\ wpc'[w] \in {"launched", "finishing"}
  BY <1>0, <1>3 DEF Launch, ExecuteReturns, WorkerStep
<1>4. ASSUME NEW w \in Workers, Worker(w),
             ~(Launch(w) \/ \E o \in TerminalStates : ExecuteReturns(w, o))
      PROVE  proc' = proc
  BY <1>4 DEF Worker, WorkerExit, Take, CheckFlag, Arm, MarkRunning, LaunchFails, RecordPid,
          Finish, CloseBuffer, Retire, WorkerPersists, queueVars
<1>5. Signal \/ Stop \/ UNCHANGED vars => proc' = proc
  BY DEF Signal, Stop, vars, queueVars
<1> QED
  BY <1>1, <1>2, <1>3, <1>4, <1>5 DEF Next, Rest

(* Where a worker has yet to start the process of its run.                 *)
Before == {"taken", "starting", "armed", "marked", "launching"}

FreshInv == \A r \in Runs : Waiting(r) \/ HeldAt(r, Before) => proc[r] = "none"

LEMMA FreshStep ==
  ASSUME Typed, PlaceInv, PlaceInv', FreshInv, [Next]_vars,
         \A r \in Runs : spc[r] = "registered" => proc[r] = "none"
  PROVE  FreshInv'
<1> SUFFICES ASSUME NEW r \in Runs, (Waiting(r) \/ HeldAt(r, Before))'
             PROVE  proc'[r] = "none"
  BY DEF FreshInv
<1>0. /\ jobs \in Seq(Runs) /\ cur \in [Workers -> Runs \union {NoRun}]
      /\ wpc \in [Workers -> WorkerPCs]
  BY DEF Typed, TypeOK
<1>1. Waiting(r)' => Waiting(r) \/ Send(r)
  <2>1. ASSUME NEW s \in Runs, Send(s) PROVE Waiting(r)' => Waiting(r) \/ Send(r)
    <3>1. Waiting(r)' <=> Waiting(r) \/ r = s
      BY <1>0, <2>1, WaitingAfterSend DEF Send
    <3> QED
      BY <2>1, <3>1
  <2>2. ASSUME NEW w \in Workers, Take(w) PROVE Waiting(r)' => Waiting(r)
    BY <1>0, <2>2, WaitingAfterReceive DEF Take
  <2>3. ASSUME NEW w \in Workers, Retire(w) PROVE Waiting(r)' => Waiting(r)
    BY <2>3 DEF Retire, Waiting
  <2>4. UNCHANGED <<jobs, cur>> => (Waiting(r)' => Waiting(r))
    BY DEF Waiting
  <2> QED
    BY <2>1, <2>2, <2>3, <2>4, Moves
<1>2. ASSUME NEW v \in Workers, cur'[v] = r, wpc'[v] \in Before
      PROVE  Waiting(r) \/ HeldAt(r, Before)
  <2>1. CASE Take(v)
    <3>1. cur'[v] = Head(jobs) /\ Waiting(Head(jobs))
      BY <1>0, <2>1, WaitingAfterReceive DEF Take
    <3> QED
      BY <1>2, <3>1
  <2>2. CASE Worker(v) /\ ~Take(v)
    <3>1. cur[v] = r /\ wpc[v] \in Before
      BY <1>0, <1>2, <2>2 DEF Worker, WorkerExit, CheckFlag, Arm, MarkRunning, Launch,
              LaunchFails, RecordPid, ExecuteReturns, Finish, CloseBuffer, Retire, WorkerPersists,
              WorkerStep, Before
    <3> QED
      BY <3>1 DEF HeldAt, Holds
  <2>3. CASE wpc'[v] = wpc[v] /\ cur'[v] = cur[v]
    BY <1>2, <2>3 DEF HeldAt, Holds
  <2> QED
    BY <2>1, <2>2, <2>3, Phases
<1>3. proc[r] = "none"
  <2>1. CASE Waiting(r)'
    BY <1>1, <2>1 DEF FreshInv, Send, SubmitStep
  <2>2. CASE HeldAt(r, Before)'
    BY <1>2, <2>2 DEF FreshInv, HeldAt, Holds
  <2> QED
    BY <2>1, <2>2
<1>4. ASSUME NEW w \in Workers, cur'[w] = r, wpc'[w] \in {"launched", "finishing"}
      PROVE  FALSE
  <2>1. ~Waiting(r)'
    BY <1>4 DEF PlaceInv, OneHolder, Waiting
  <2>2. ~HeldAt(r, Before)'
    <3>1. \A v \in Workers : cur'[v] = r => v = w
      BY <1>4 DEF PlaceInv, OneHolder
    <3> QED
      BY <1>4, <3>1 DEF HeldAt, Holds, Before
  <2> QED
    BY <2>1, <2>2
<1> QED
  BY <1>3, <1>4, ProcByWorker

(* The process of a run is alive while its worker waits for it. *)
WaitsInv == \A w \in Workers : wpc[w] \in Supervising => proc[cur[w]] = "alive"

LEMMA WaitsStep ==
  ASSUME Typed, PlaceInv', WaitsInv, [Next]_vars
  PROVE  WaitsInv'
<1> SUFFICES ASSUME NEW w \in Workers, wpc'[w] \in Supervising
             PROVE  proc'[cur'[w]] = "alive"
  BY DEF WaitsInv
<1>0. /\ wpc \in [Workers -> WorkerPCs] /\ cur \in [Workers -> Runs \union {NoRun}]
      /\ proc \in [Runs -> {"none", "alive", "exited"}] /\ WorkerInv
  BY DEF Typed, TypeOK
<1>1. CASE Launch(w)
  <2>1. cur[w] \in Runs /\ cur' = cur /\ proc' = [proc EXCEPT ![cur[w]] = "alive"]
    BY <1>0, <1>1 DEF Launch, WorkerStep, WorkerInv
  <2> QED
    BY <1>0, <2>1
<1>2. CASE ~Launch(w)
  <2>1. wpc[w] \in Supervising /\ cur'[w] = cur[w]
    <3>1. CASE Worker(w)
      BY <1>0, <1>2, <3>1 DEF Worker, WorkerExit, Take, CheckFlag, Arm, MarkRunning,
              LaunchFails, RecordPid, ExecuteReturns, Finish, CloseBuffer, Retire, WorkerPersists,
              WorkerStep, Supervising
    <3> QED
      BY <3>1, Phases
  <2>2. cur[w] \in Runs /\ proc[cur[w]] = "alive"
    BY <1>0, <2>1 DEF WorkerInv, WaitsInv, Supervising
  <2>3. ASSUME NEW v \in Workers, cur[v] = cur[w], cur'[v] = cur[w],
               Launch(v) \/ \E o \in TerminalStates : ExecuteReturns(v, o)
        PROVE  FALSE
    <3>1. v = w
      BY <2>1, <2>2, <2>3 DEF PlaceInv, OneHolder
    <3> QED
      BY <1>0, <1>2, <2>3, <3>1 DEF ExecuteReturns, WorkerStep, Supervising
  <2> QED
    BY <2>1, <2>2, <2>3, ProcByWorker
<1> QED
  BY <1>1, <1>2

(* What the call of Execute by a worker has returned; a skipped run was    *)
(* given to none.                                                          *)
Returned(w) ==
  IF /\ wpc[w] \in {"finishing", "finished", "closing", "retiring"}
     /\ outcome[w] = "cancelled" => proc[cur[w]] # "none"
  THEN outcome[w] ELSE "none"

(* Execute as Exec implements it, seen from the worker that calls it.      *)
E(w) == INSTANCE Execution WITH
          proc <- proc[cur[w]],
          asked <- rootDone \/ cur[w] \in stopped,
          result <- Returned(w)

CallsAreExecutions ==
  \A w \in Workers :
    /\ cur'[w] \in Runs /\ cur[w] # cur'[w] => E(w)!Init'
    /\ cur'[w] \in Runs /\ cur[w] = cur'[w] => [E(w)!Next]_(E(w)!vars)

(* The invariants this needs, for Queue alone. *)
LEMMA FreshAlways == Spec => [](Typed /\ PlaceInv /\ FreshInv /\ WaitsInv)
<1>1. Init => ProcInv /\ FreshInv /\ WaitsInv
  BY DEF Init, QueueInit, ProcInv, FreshInv, Waiting, HeldAt, Before, WaitsInv, Supervising
<1>2. Typed /\ PlaceInv /\ PlaceInv' /\ ProcInv /\ FreshInv /\ WaitsInv /\ [Next]_vars
        => (ProcInv /\ FreshInv /\ WaitsInv)'
  <2> SUFFICES ASSUME Typed, PlaceInv, PlaceInv', ProcInv, FreshInv, WaitsInv, [Next]_vars
               PROVE  (ProcInv /\ FreshInv /\ WaitsInv)'
    OBVIOUS
  <2>1. \A r \in Runs : spc[r] = "registered" => proc[r] = "none"
    BY DEF ProcInv, Submitted
  <2> QED
    BY <2>1, ProcStep, FreshStep, WaitsStep
<1> QED
  BY <1>1, <1>2, PlaceAlways, PTL DEF Spec

(* Nothing but the worker's own steps and a request to stop shows in it.   *)
LEMMA CallKept ==
  ASSUME Typed, PlaceInv, [Next]_vars, NEW w \in Workers, ~Worker(w), cur[w] \in Runs
  PROVE  /\ proc'[cur[w]] = proc[cur[w]] /\ Returned(w)' = Returned(w)
         /\ wpc'[w] = wpc[w] /\ cur'[w] = cur[w] /\ outcome'[w] = outcome[w]
         /\ rootDone \/ cur[w] \in stopped => rootDone' \/ cur[w] \in stopped'
<1>1. wpc'[w] = wpc[w] /\ cur'[w] = cur[w]
  BY Phases
<1>2. proc'[cur[w]] = proc[cur[w]]
  <2>1. ASSUME NEW v \in Workers, cur[v] = cur[w],
               Launch(v) \/ \E o \in TerminalStates : ExecuteReturns(v, o)
        PROVE  FALSE
    BY <2>1 DEF PlaceInv, OneHolder, Worker
  <2> QED
    BY <2>1, ProcByWorker
<1>3. /\ outcome'[w] = outcome[w]
      /\ rootDone \/ cur[w] \in stopped => rootDone' \/ cur[w] \in stopped'
  <2>0. outcome \in [Workers -> TerminalStates \union {"none"}]
    BY DEF Typed, TypeOK
  <2>1. ASSUME NEW s \in Runs, AddRun(s) \/ Submitter(s)
        PROVE  UNCHANGED <<outcome, rootDone, stopped>>
    BY <2>1 DEF AddRun, Submitter, AddPersists, Register, Send, FindFull, Unregister, Refuse,
            RefusePersists, SendPanics, Acknowledge, queueVars, workerVars
  <2>2. ASSUME NEW c \in Cancels, Canceller(c) \/ \E s \in Runs : CancelGet(c, s)
        PROVE  UNCHANGED <<outcome, rootDone>> /\ stopped \subseteq stopped'
    BY <2>2 DEF Canceller, CancelGet, CancelFlag, CancelSignal, CancelRecord, CancelPersists,
            queueVars, workerVars
  <2>3. ASSUME NEW v \in Workers, Worker(v), v # w
        PROVE  outcome'[w] = outcome[w] /\ UNCHANGED <<rootDone, stopped>>
    BY <2>0, <2>3 DEF Worker, WorkerExit, Take, CheckFlag, Arm, MarkRunning, Launch,
            LaunchFails, RecordPid, ExecuteReturns, Finish, CloseBuffer, Retire, WorkerPersists, queueVars
  <2>4. Signal \/ Stop \/ UNCHANGED vars => UNCHANGED <<outcome, stopped>> /\ (rootDone => rootDone')
    BY DEF Signal, Stop, vars, queueVars, workerVars
  <2> QED
    BY <2>1, <2>2, <2>3, <2>4 DEF Next, Rest
<1> QED
  BY <1>1, <1>2, <1>3 DEF Returned

(* While the worker has the run, each of its steps is one of the call, or  *)
(* none of it.                                                             *)
LEMMA CallStep ==
  ASSUME Typed, PlaceInv, FreshInv, WaitsInv, [Next]_vars, NEW w \in Workers,
         cur'[w] \in Runs, cur[w] = cur'[w]
  PROVE  [E(w)!Next]_(E(w)!vars)
<1>0. /\ cur[w] \in Runs /\ proc[cur[w]] \in {"none", "alive", "exited"}
      /\ proc \in [Runs -> {"none", "alive", "exited"}]
      /\ wpc \in [Workers -> WorkerPCs] /\ outcome \in [Workers -> TerminalStates \union {"none"}]
      /\ cur \in [Workers -> Runs \union {NoRun}]
  BY DEF Typed, TypeOK
<1>1. wpc[w] \in Before => proc[cur[w]] = "none"
  BY <1>0 DEF FreshInv, HeldAt, Holds
<1>2. wpc[w] \in Supervising => proc[cur[w]] = "alive"
  BY DEF WaitsInv
<1>3. CASE ~Worker(w)
  <2>1. /\ proc'[cur[w]] = proc[cur[w]] /\ Returned(w)' = Returned(w)
        /\ rootDone \/ cur[w] \in stopped => rootDone' \/ cur[w] \in stopped'
    BY <1>0, <1>3, CallKept
  <2> QED
    BY <2>1 DEF E!Next, E!Ask, E!vars
<1>4. CASE Launch(w)
  <2>1. /\ proc[cur[w]] = "none" /\ proc'[cur[w]] = "alive" /\ Returned(w) = "none"
        /\ Returned(w)' = "none" /\ UNCHANGED <<rootDone, stopped>>
    BY <1>0, <1>1, <1>4 DEF Launch, WorkerStep, Returned, Before
  <2> QED
    BY <2>1 DEF E!Next, E!Launch
<1>5. CASE LaunchFails(w)
  <2>1. /\ proc[cur[w]] = "none" /\ proc' = proc /\ Returned(w) = "none"
        /\ Returned(w)' = "errored" /\ UNCHANGED <<rootDone, stopped>>
    BY <1>0, <1>1, <1>5 DEF LaunchFails, WorkerStep, Returned, Before, queueVars
  <2> QED
    BY <2>1 DEF E!Next, E!LaunchFails
<1>6. ASSUME NEW o \in TerminalStates, ExecuteReturns(w, o) PROVE E(w)!Next
  <2>1. /\ proc[cur[w]] = "alive" /\ proc'[cur[w]] = "exited" /\ Returned(w) = "none"
        /\ Returned(w)' = o /\ UNCHANGED <<rootDone, stopped>>
    BY <1>0, <1>2, <1>6 DEF ExecuteReturns, WorkerStep, Returned, Supervising
  <2>2. o = "cancelled" => rootDone \/ cur[w] \in stopped
    BY <1>6 DEF ExecuteReturns, Outcomes
  <2> QED
    BY <2>1, <2>2 DEF E!Next, E!Return, TerminalStates
<1>7. CASE CheckFlag(w)
  <2>1. /\ proc[cur[w]] = "none" /\ proc' = proc /\ Returned(w) = "none"
        /\ Returned(w)' = "none" /\ UNCHANGED <<rootDone, stopped>>
    BY <1>0, <1>1, <1>7 DEF CheckFlag, WorkerStep, Returned, Before, queueVars
  <2> QED
    BY <2>1 DEF E!vars
<1>8. CASE Finish(w) \/ WorkerPersists(w) \/ CloseBuffer(w) \/ Arm(w) \/ MarkRunning(w)
             \/ RecordPid(w)
  <2>1. /\ proc' = proc /\ Returned(w)' = Returned(w) /\ UNCHANGED <<rootDone, stopped>>
    BY <1>0, <1>8 DEF Finish, WorkerPersists, CloseBuffer, Arm, MarkRunning, RecordPid, WorkerStep,
            Returned, queueVars
  <2> QED
    BY <2>1 DEF E!vars
<1>9. ~Take(w) /\ ~Retire(w) /\ ~WorkerExit(w)
  BY <1>0 DEF Take, Retire, WorkerExit, WorkerStep, Typed, WorkerInv, QueueAssumption
<1> QED
  BY <1>3, <1>4, <1>5, <1>6, <1>7, <1>8, <1>9 DEF Worker

(* A run is in hand before anything is done about it. *)
LEMMA CallBegins ==
  ASSUME Typed, FreshInv', [Next]_vars, NEW w \in Workers, cur'[w] \in Runs, cur[w] # cur'[w]
  PROVE  E(w)!Init'
<1>0. /\ wpc \in [Workers -> WorkerPCs] /\ cur \in [Workers -> Runs \union {NoRun}]
  BY DEF Typed, TypeOK
<1>1. Take(w)
  BY <1>0, Phases DEF Worker, WorkerExit, CheckFlag, Arm, MarkRunning, Launch, LaunchFails,
          RecordPid, ExecuteReturns, Finish, CloseBuffer, Retire, WorkerPersists, QueueAssumption
<1>2. wpc'[w] = "taken"
  BY <1>0, <1>1 DEF Take, WorkerStep
<1>3. proc'[cur'[w]] = "none"
  BY <1>2 DEF FreshInv, HeldAt, Holds, Before
<1>4. Returned(w)' = "none"
  BY <1>2 DEF Returned
<1> QED
  BY <1>3, <1>4 DEF E!Init

(***************************************************************************)
(* A worker uses Execute as Execution has it: from the moment it takes a   *)
(* run until it lets go of it, what becomes of the process, of the context *)
(* and of the outcome are steps of Execution, which Exec implements.  The  *)
(* run is launched once, and an outcome "cancelled" has a cancelled        *)
(* context for its cause (worker, execute, Execute).                       *)
(***************************************************************************)
THEOREM CallsOfExecute == Spec => [][CallsAreExecutions]_vars
<1>1. /\ Typed /\ PlaceInv /\ FreshInv /\ WaitsInv
      /\ (Typed /\ PlaceInv /\ FreshInv /\ WaitsInv)' /\ [Next]_vars
      => [CallsAreExecutions]_vars
  BY CallStep, CallBegins DEF CallsAreExecutions
<1> QED
  BY <1>1, FreshAlways, PTL DEF Spec

-----------------------------------------------------------------------------
(* A cancellation in time: of a run that still waits.                      *)

(* Only finish takes a run out of the flagged ones. *)
LEMMA FlagStays ==
  ASSUME Typed, [Next]_vars, NEW r \in cancelled
  PROVE  r \in cancelled' \/ \E w \in Workers : Retire(w) /\ cur[w] = r
<1>1. ASSUME NEW s \in Runs, AddRun(s) \/ Submitter(s) PROVE cancelled' = cancelled
  BY <1>1 DEF AddRun, Submitter, AddPersists, Register, Send, FindFull, Unregister, Refuse,
          RefusePersists, SendPanics, Acknowledge, queueVars
<1>2. ASSUME NEW c \in Cancels, Canceller(c) \/ \E s \in Runs : CancelGet(c, s)
      PROVE  r \in cancelled'
  BY <1>2 DEF Canceller, CancelGet, CancelFlag, CancelSignal, CancelRecord, CancelPersists,
          queueVars
<1>3. ASSUME NEW w \in Workers, Worker(w) PROVE r \in cancelled' \/ (Retire(w) /\ cur[w] = r)
  BY <1>3 DEF Worker, WorkerExit, Take, CheckFlag, Arm, MarkRunning, Launch, LaunchFails,
          RecordPid, ExecuteReturns, Finish, CloseBuffer, Retire, WorkerPersists, queueVars
<1>4. Signal \/ Stop \/ UNCHANGED vars => cancelled' = cancelled
  BY DEF Signal, Stop, vars, queueVars
<1> QED
  BY <1>1, <1>2, <1>3, <1>4 DEF Next, Rest

(* A run that reads "cancelled" goes on doing so if no worker touches it.  *)
LEMMA CancelledStays ==
  ASSUME Typed, [Next]_vars, NEW r \in Runs, Submitted(r), mem[r].state = "cancelled",
         \A w \in Workers : cur[w] = r => ~Worker(w)
  PROVE  mem'[r].state = "cancelled"
<1>1. ~AddRun(r) /\ ~Refuse(r)
  BY DEF AddRun, Refuse, SubmitStep, Submitted
<1>2. \A w \in Workers : cur[w] = r => ~MarkRunning(w) /\ ~Finish(w)
  BY DEF Worker
<1> QED
  BY <1>1, <1>2, StateMoves

LEMMA DoomedStep ==
  ASSUME Typed, PlaceInv, FreshInv, [Next]_vars, NEW r \in Runs, Doomed(r)
  PROVE  CancelledInTime(r)'
<1>0. /\ jobs \in Seq(Runs) /\ cur \in [Workers -> Runs \union {NoRun}]
      /\ wpc \in [Workers -> WorkerPCs] /\ proc[r] = "none"
      /\ outcome \in [Workers -> TerminalStates \union {"none"}]
  BY DEF Typed, TypeOK, FreshInv, Doomed, HeldAt, Before
<1>1. \A w \in Workers : cur[w] = r => wpc[w] = "taken"
  BY DEF Doomed, PlaceInv, OneHolder, HeldAt, Holds
<1>2. proc'[r] = "none"
  <2>1. ASSUME NEW w \in Workers, cur[w] = r,
               Launch(w) \/ \E o \in TerminalStates : ExecuteReturns(w, o)
        PROVE  FALSE
    BY <1>1, <2>1 DEF Launch, ExecuteReturns, WorkerStep
  <2> QED
    BY <1>0, <2>1, ProcByWorker
<1>3. r \in cancelled'
  <2>1. ASSUME NEW w \in Workers, Retire(w), cur[w] = r PROVE FALSE
    BY <1>1, <2>1 DEF Retire, WorkerStep
  <2> QED
    BY <2>1, FlagStays DEF Doomed
<1>4. CASE Waiting(r)
  <2>1. ASSUME NEW w \in Workers, Take(w) PROVE Waiting(r)' \/ HeldAt(r, {"taken"})'
    <3>1. Waiting(r)' \/ r = Head(jobs)
      BY <1>0, <1>4, <2>1, WaitingAfterReceive DEF Take
    <3>2. cur'[w] = Head(jobs) /\ wpc'[w] = "taken"
      BY <1>0, <2>1 DEF Take, WorkerStep
    <3> QED
      BY <3>1, <3>2 DEF HeldAt, Holds
  <2>2. ASSUME NEW s \in Runs, Send(s) PROVE Waiting(r)'
    BY <1>0, <1>4, <2>2, WaitingAfterSend DEF Send
  <2>3. ASSUME NEW w \in Workers, Retire(w) PROVE Waiting(r)'
    BY <1>4, <2>3 DEF Retire, Waiting
  <2>4. UNCHANGED <<jobs, cur>> => Waiting(r)'
    BY <1>4 DEF Waiting
  <2> QED
    BY <1>2, <1>3, <2>1, <2>2, <2>3, <2>4, Moves DEF CancelledInTime, Doomed
<1>5. ASSUME NEW w \in Workers, cur[w] = r PROVE CancelledInTime(r)'
  <2>1. CASE Worker(w)
    <3>1. CheckFlag(w)
      BY <1>0, <1>1, <1>5, <2>1 DEF Worker, WorkerExit, Take, Arm, MarkRunning, Launch,
              LaunchFails, RecordPid, ExecuteReturns, Finish, CloseBuffer, Retire, WorkerPersists,
              WorkerStep
    <3>2. wpc'[w] = "finishing" /\ outcome'[w] = "cancelled" /\ cur'[w] = r
      BY <1>0, <1>5, <3>1 DEF CheckFlag, MustSkip, Doomed, WorkerStep
    <3> QED
      BY <1>2, <3>2 DEF CancelledInTime, Skips
  <2>2. CASE wpc'[w] = wpc[w] /\ cur'[w] = cur[w]
    BY <1>1, <1>2, <1>3, <1>5, <2>2 DEF CancelledInTime, Doomed, HeldAt, Holds
  <2> QED
    BY <2>1, <2>2, Phases
<1> QED
  BY <1>4, <1>5 DEF Doomed, HeldAt, Holds

LEMMA SkipStep ==
  ASSUME Typed, PlaceInv, [Next]_vars, NEW r \in Runs, proc[r] = "none",
         NEW w \in Workers, Skips(w, r)
  PROVE  CancelledInTime(r)'
<1>0. /\ jobs \in Seq(Runs) /\ cur \in [Workers -> Runs \union {NoRun}]
      /\ wpc \in [Workers -> WorkerPCs] /\ StoreTypeOK /\ cur[w] = r
      /\ outcome \in [Workers -> TerminalStates \union {"none"}]
      /\ wpc[w] \in {"finishing", "finished", "closing", "retiring"} /\ outcome[w] = "cancelled"
  BY DEF Typed, TypeOK, Skips
<1>1. /\ Submitted(r) /\ ~Waiting(r) /\ \A v \in Workers : cur[v] = r => v = w
  BY <1>0 DEF PlaceInv, SentInv, OneHolder, Placed, Executing
<1>2. CASE ~Worker(w)
  <2>1. /\ proc'[r] = "none"
        /\ wpc'[w] = wpc[w] /\ cur'[w] = r /\ outcome'[w] = "cancelled"
    BY <1>0, <1>2, CallKept
  <2>2. mem[r].state = "cancelled" => mem'[r].state = "cancelled"
    BY <1>1, <1>2, CancelledStays
  <2> QED
    BY <2>1, <2>2 DEF CancelledInTime, Skips
<1>3. CASE Finish(w)
  <2>1. mem'[r] = FinalRecord(mem[r], "cancelled", proc[r] = "exited")
    BY <1>0, <1>3, UpdateState DEF Finish
  <2>2. mem'[r].state = "cancelled"
    BY <2>1 DEF FinalRecord, FinalState
  <2>3. /\ proc'[r] = "none" /\ wpc'[w] = "finished" /\ cur'[w] = r
        /\ outcome'[w] = "cancelled"
    BY <1>0, <1>3 DEF Finish, WorkerStep, queueVars
  <2> QED
    BY <2>2, <2>3 DEF CancelledInTime, Skips
<1>4. CASE WorkerPersists(w)
  <2>1. /\ proc' = proc /\ mem' = mem /\ wpc'[w] = "closing" /\ cur' = cur
        /\ outcome' = outcome /\ wpc[w] = "finished"
    BY <1>0, <1>4 DEF WorkerPersists, WorkerStep, Persist, PersistFails, queueVars
  <2> QED
    BY <1>0, <2>1 DEF CancelledInTime, Skips
<1>5. CASE CloseBuffer(w)
  <2>1. /\ proc' = proc /\ mem' = mem /\ wpc'[w] = "retiring" /\ cur' = cur
        /\ outcome' = outcome /\ wpc[w] = "closing"
    BY <1>0, <1>5 DEF CloseBuffer, WorkerStep, storeVars
  <2> QED
    BY <1>0, <2>1 DEF CancelledInTime, Skips
<1>6. CASE Retire(w)
  <2>1. /\ proc' = proc /\ mem' = mem /\ jobs' = jobs /\ spc' = spc
        /\ cur' = [cur EXCEPT ![w] = NoRun] /\ wpc[w] = "retiring"
    BY <1>6 DEF Retire, WorkerStep, storeVars, submitVars
  <2>2. ~Placed(r)'
    BY <1>0, <1>1, <2>1 DEF Placed, Waiting, Executing, QueueAssumption
  <2> QED
    BY <1>1, <2>1, <2>2
       DEF CancelledInTime, CalledOff, Submitted, Skips, Placed, Executing, Holds
<1> QED
  BY <1>0, <1>2, <1>3, <1>4, <1>5, <1>6 DEF Worker, WorkerExit, Take, CheckFlag, Arm, MarkRunning,
          Launch, LaunchFails, RecordPid, ExecuteReturns, WorkerStep

LEMMA CalledOffStep ==
  ASSUME Typed, [Next]_vars, NEW r \in Runs, proc[r] = "none", CalledOff(r)
  PROVE  CancelledInTime(r)'
<1>1. Submitted(r) /\ ~Executing(r) /\ ~Send(r)
  BY DEF CalledOff, Executing, Holds, Send, SubmitStep, Submitted
<1>2. Submitted(r)' /\ ~Placed(r)'
  BY <1>1, Moves, PlacedBefore DEF CalledOff, Placed, Executing, Holds
<1>3. mem'[r].state = "cancelled"
  BY <1>1, CancelledStays DEF CalledOff, Executing
<1>4. proc'[r] = "none"
  BY <1>1, ProcMoves
<1> QED
  BY <1>2, <1>3, <1>4 DEF CancelledInTime, CalledOff, Placed, Executing, Holds

(***************************************************************************)
(* A cancellation that comes while the run waits is final: the run is not  *)
(* launched, its worker gives it straight to finish, and from then on it   *)
(* reads cancelled, whatever else happens to it (Cancel, worker, finish).  *)
(***************************************************************************)
THEOREM CancelledInTimeIsFinal == Spec => TimelyCancelIsFinal
<1>1. Typed /\ PlaceInv /\ FreshInv /\ WaitsInv /\ [Next]_vars => [TimelyIsFinal]_vars
  <2> SUFFICES ASSUME Typed, PlaceInv, FreshInv, [Next]_vars PROVE TimelyIsFinal
    OBVIOUS
  <2>1. ASSUME NEW r \in Runs, Waiting(r), r \in cancelled PROVE CancelledInTime(r)
    BY <2>1 DEF CancelledInTime, Doomed, FreshInv
  <2>2. ASSUME NEW r \in Runs, CancelledInTime(r) PROVE CancelledInTime(r)'
    <3>1. CASE Doomed(r)
      BY <3>1, DoomedStep
    <3>2. CASE \E w \in Workers : Skips(w, r)
      BY <2>2, <3>2, SkipStep DEF CancelledInTime
    <3>3. CASE CalledOff(r)
      BY <2>2, <3>3, CalledOffStep DEF CancelledInTime
    <3> QED
      BY <2>2, <3>1, <3>2, <3>3 DEF CancelledInTime
  <2> QED
    BY <2>1, <2>2 DEF TimelyIsFinal
<1> QED
  BY <1>1, FreshAlways, PTL DEF Spec, TimelyCancelIsFinal
=============================================================================
