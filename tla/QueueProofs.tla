---------------------------- MODULE QueueProofs -----------------------------
(***************************************************************************)
(* Theorems about Queue, for every number of runs, workers and cancel      *)
(* requests and every depth.                                               *)
(***************************************************************************)
EXTENDS Queue, TLAPS

USE QueueAssumption

-----------------------------------------------------------------------------
(* The records a goroutine may leave in the store. *)

(***************************************************************************)
(* Every record built by an update is a Record (run.go).                   *)
(***************************************************************************)
LEMMA RecordTypes ==
  /\ Fresh \in Records /\ Absent \in Records
  /\ \A rec \in Records : ToMeta(rec) \in Records
  /\ \A rec \in Records, s \in States : [rec EXCEPT !.state = s] \in Records
  /\ \A rec \in Records : [rec EXCEPT !.pid = TRUE] \in Records
  /\ \A rec \in Records : [rec EXCEPT !.state = "cancelled", !.ended = TRUE] \in Records
  /\ \A rec \in Records : [rec EXCEPT !.state = "errored", !.error = "queue full"] \in Records
<1> USE DEF Absent, Records, ArtifactLists, Errors, States, LiveStates, TerminalStates
<1>1. Fresh \in Records /\ Absent \in Records
  BY DEF Fresh
<1>2. ASSUME NEW rec \in Records PROVE ToMeta(rec) \in Records
  BY DEF ToMeta
<1>3. ASSUME NEW rec \in Records, NEW s \in States
      PROVE  [rec EXCEPT !.state = s] \in Records
  OBVIOUS
<1>4. ASSUME NEW rec \in Records PROVE [rec EXCEPT !.pid = TRUE] \in Records
  OBVIOUS
<1>5. ASSUME NEW rec \in Records
      PROVE  [rec EXCEPT !.state = "cancelled", !.ended = TRUE] \in Records
  OBVIOUS
<1>6. ASSUME NEW rec \in Records
      PROVE  [rec EXCEPT !.state = "errored", !.error = "queue full"] \in Records
  OBVIOUS
<1> QED
  BY <1>1, <1>2, <1>3, <1>4, <1>5, <1>6

(* What finish makes of a record is a Record too. *)
LEMMA FinalRecordType ==
  ASSUME NEW rec \in Records, NEW o \in TerminalStates, NEW ran \in BOOLEAN
  PROVE  FinalRecord(rec, o, ran) \in Records
  BY DEF FinalRecord, FinalState, Records, ArtifactLists, Errors, States, LiveStates,
         TerminalStates

(* A write of one goroutine keeps the store well typed. *)
LEMMA UpdateType ==
  ASSUME StoreTypeOK, NEW a \in Actors, NEW r \in Runs, NEW rec \in Records,
         Update(a, r, rec)
  PROVE  StoreTypeOK'
  BY DEF Update, StoreTypeOK

LEMMA PersistType ==
  ASSUME StoreTypeOK, NEW a \in Actors, NEW r \in Runs,
         Persist(a, r) \/ PersistFails(a)
  PROVE  StoreTypeOK'
<1>1. CASE Persist(a, r)
  <2>1. pend[a] \in Records /\ ToMeta(pend[a]) \in Records /\ Absent \in Records
    BY RecordTypes DEF StoreTypeOK
  <2> QED
    BY <1>1, <2>1 DEF Persist, StoreTypeOK
<1>2. CASE PersistFails(a)
  BY <1>2, RecordTypes DEF PersistFails, StoreTypeOK
<1> QED
  BY <1>1, <1>2

-----------------------------------------------------------------------------
(* Type correctness, and with it what each program counter says about the  *)
(* other variables of its goroutine: the typing of an update depends on it.*)

(* A worker that is not idle holds a job; a finishing one has an outcome.  *)
WorkerInv ==
  \A w \in Workers :
    /\ IF wpc[w] \in {"idle", "exited"} THEN cur[w] = NoRun ELSE cur[w] \in Runs
    /\ wpc[w] \in {"finishing", "finished", "closing", "retiring"} => outcome[w] \in TerminalStates

(* A cancel request past its lookup has a target. *)
TargetInv == \A c \in Cancels : cpc[c] # "new" => target[c] \in Runs

(* A run that createRun has added stays in the store. *)
KnownInv == \A r \in Runs : spc[r] # "new" => Known(r)

(* What Acknowledge needs of it: a run just sent is in the store. *)
SentKnown == \A r \in Runs : spc[r] = "sent" => Known(r)

Typed == TypeOK /\ WorkerInv /\ TargetInv

LEMMA TypedInit == Init => Typed /\ KnownInv
<1> SUFFICES ASSUME Init PROVE Typed /\ KnownInv
  OBVIOUS
<1>1. StoreTypeOK
  BY RecordTypes DEF Init, StoreInit, StoreTypeOK
<1>2. jobs \in Seq(Runs) /\ QueueInit
  BY DEF Init, QueueInit
<1>3. TypeOK
  <2>1. /\ closed \in BOOLEAN /\ rootDone \in BOOLEAN
        /\ live \in SUBSET Runs /\ cancelled \in SUBSET Runs
        /\ armed \in SUBSET Runs /\ stopped \in SUBSET Runs
    BY <1>2 DEF QueueInit
  <2>2. /\ bufs \in [Runs -> {"none", "open", "closed"}]
        /\ proc \in [Runs -> {"none", "alive", "exited"}]
        /\ spc \in [Runs -> SubmitPCs]
        /\ ack \in [Runs -> States \union {"none"}]
    BY <1>2 DEF QueueInit, SubmitPCs
  <2>3. /\ wpc \in [Workers -> WorkerPCs]
        /\ cur \in [Workers -> Runs \union {NoRun}]
        /\ outcome \in [Workers -> TerminalStates \union {"none"}]
    BY <1>2 DEF QueueInit, WorkerPCs
  <2>4. /\ cpc \in [Cancels -> CancelPCs]
        /\ target \in [Cancels -> Runs \union {NoRun}]
        /\ reply \in [Cancels -> Replies]
    BY <1>2 DEF QueueInit, CancelPCs, Replies
  <2> QED
    BY <1>1, <1>2, <2>1, <2>2, <2>3, <2>4 DEF TypeOK
<1> QED
  BY <1>3 DEF Init, QueueInit, Typed, WorkerInv, TargetInv, KnownInv

LEMMA TypedStep == Typed /\ SentKnown /\ [Next]_vars => Typed'
<1> SUFFICES ASSUME Typed, SentKnown, [Next]_vars PROVE Typed'
  OBVIOUS
<1> USE DEF Typed, TypeOK
<1>1. ASSUME NEW r \in Runs, AddRun(r) \/ Submitter(r) PROVE Typed'
  <2> r \in Actors
    OBVIOUS
  <2>1. CASE AddRun(r) \/ Refuse(r)
    <3>1. StoreTypeOK'
      BY <2>1, RecordTypes, UpdateType DEF AddRun, Refuse, StoreTypeOK
    <3> QED
      BY <2>1, <3>1 DEF AddRun, Refuse, SubmitStep, SubmitPCs, queueVars, workerVars,
            cancelVars, WorkerInv, TargetInv
  <2>2. CASE AddPersists(r) \/ RefusePersists(r)
    <3>1. StoreTypeOK'
      BY <2>2, PersistType DEF AddPersists, RefusePersists
    <3> QED
      BY <2>2, <3>1 DEF AddPersists, RefusePersists, SubmitStep, SubmitPCs, queueVars,
            workerVars, cancelVars, WorkerInv, TargetInv
  <2>3. CASE Register(r) \/ Unregister(r)
    <3>1. StoreTypeOK'
      BY <2>3 DEF Register, Unregister, SubmitStep, storeVars, StoreTypeOK
    <3>2. WorkerInv'
      BY <2>3 DEF Register, Unregister, SubmitStep, SubmitPCs, workerVars, WorkerInv
    <3>3. TargetInv'
      BY <2>3 DEF Register, Unregister, SubmitStep, SubmitPCs, cancelVars, TargetInv
    <3>4. /\ live' \in SUBSET Runs
          /\ bufs' \in [Runs -> {"none", "open", "closed"}]
      BY <2>3 DEF Register, Unregister
    <3>5. spc' \in [Runs -> SubmitPCs]
      BY <2>3 DEF Register, Unregister, SubmitStep, SubmitPCs
    <3> QED
      BY <2>3, <3>1, <3>2, <3>3, <3>4, <3>5 DEF Register, Unregister, workerVars,
              cancelVars
  <2>4. CASE Send(r)
    <3>1. StoreTypeOK'
      BY <2>4 DEF Send, SubmitStep, storeVars, StoreTypeOK
    <3>2. WorkerInv'
      BY <2>4 DEF Send, SubmitStep, SubmitPCs, workerVars, WorkerInv
    <3>3. TargetInv'
      BY <2>4 DEF Send, SubmitStep, SubmitPCs, cancelVars, TargetInv
    <3> QED
      BY <2>4, <3>1, <3>2, <3>3 DEF Send, SubmitStep, SubmitPCs, workerVars,
              cancelVars
  <2>5. CASE FindFull(r) \/ SendPanics(r)
    <3>1. StoreTypeOK'
      BY <2>5 DEF FindFull, SendPanics, SubmitStep, storeVars, StoreTypeOK
    <3>2. WorkerInv'
      BY <2>5 DEF FindFull, SendPanics, SubmitStep, SubmitPCs, workerVars, WorkerInv
    <3>3. TargetInv'
      BY <2>5 DEF FindFull, SendPanics, SubmitStep, SubmitPCs, cancelVars, TargetInv
    <3> QED
      BY <2>5, <3>1, <3>2, <3>3 DEF FindFull, SendPanics, SubmitStep, SubmitPCs,
              queueVars, workerVars, cancelVars
  <2>6. CASE Acknowledge(r)
    <3>1. mem[r].state \in States
      BY <2>6 DEF Acknowledge, SubmitStep, SentKnown, Known, StoreTypeOK, Records
    <3> QED
      BY <2>6, <3>1 DEF Acknowledge, SubmitStep, SubmitPCs, storeVars, StoreTypeOK,
            queueVars, workerVars, cancelVars, WorkerInv, TargetInv
  <2> QED
    BY <1>1, <2>1, <2>2, <2>3, <2>4, <2>5, <2>6 DEF Submitter
<1>2. ASSUME NEW c \in Cancels, NEW r \in Runs, CancelGet(c, r) PROVE Typed'
  <2>1. StoreTypeOK'
    BY <1>2 DEF CancelGet, CancelStep, Answer, storeVars, StoreTypeOK
  <2>2. WorkerInv'
    BY <1>2 DEF CancelGet, CancelStep, Answer, CancelPCs, Replies, workerVars,
            WorkerInv
  <2>3. TargetInv'
    BY <1>2 DEF CancelGet, CancelStep, Answer, CancelPCs, Replies, TargetInv
  <2> QED
    BY <1>2, <2>1, <2>2, <2>3 DEF CancelGet, CancelStep, Answer, CancelPCs, Replies,
            queueVars, workerVars, submitVars
<1>3. ASSUME NEW c \in Cancels, Canceller(c) PROVE Typed'
  <2> c \in Actors
    OBVIOUS
  <2>1. CASE CancelFlag(c) \/ CancelSignal(c)
    <3>1. StoreTypeOK'
      BY <2>1 DEF CancelFlag, CancelSignal, CancelStep, Answer, storeVars, StoreTypeOK
    <3>2. WorkerInv'
      BY <2>1 DEF CancelFlag, CancelSignal, CancelStep, Answer, CancelPCs, Replies,
              workerVars, WorkerInv
    <3>3. TargetInv'
      BY <2>1 DEF CancelFlag, CancelSignal, CancelStep, Answer, CancelPCs, Replies,
              TargetInv
    <3>4. target[c] \in Runs
      BY <2>1 DEF CancelFlag, CancelSignal, CancelStep, TargetInv
    <3>5. cancelled' \in SUBSET Runs /\ stopped' \in SUBSET Runs
      BY <2>1, <3>4 DEF CancelFlag, CancelSignal
    <3>6. cpc' \in [Cancels -> CancelPCs]
      BY <2>1 DEF CancelFlag, CancelSignal, CancelStep, CancelPCs
    <3>7. reply' \in [Cancels -> Replies]
      BY <2>1 DEF CancelFlag, CancelSignal, Answer, Replies
    <3> QED
      BY <2>1, <3>1, <3>2, <3>3, <3>5, <3>6, <3>7 DEF CancelFlag, CancelSignal, workerVars,
              submitVars
  <2>2. CASE CancelRecord(c)
    <3>1. target[c] \in Runs
      BY <2>2 DEF CancelRecord, CancelStep, TargetInv
    <3>2. StoreTypeOK'
      BY <2>2, <3>1, RecordTypes, UpdateType DEF CancelRecord, StoreTypeOK
    <3> QED
      BY <2>2, <3>2 DEF CancelRecord, CancelStep, CancelPCs, queueVars, workerVars,
            submitVars, WorkerInv, TargetInv
  <2>3. CASE CancelPersists(c)
    <3>1. target[c] \in Runs
      BY <2>3 DEF CancelPersists, CancelStep, TargetInv
    <3>2. StoreTypeOK'
      BY <2>3, <3>1, PersistType DEF CancelPersists
    <3> QED
      BY <2>3, <3>2 DEF CancelPersists, CancelStep, Answer, CancelPCs, Replies, queueVars,
            workerVars, submitVars, WorkerInv, TargetInv
  <2> QED
    BY <1>3, <2>1, <2>2, <2>3 DEF Canceller
<1>4. ASSUME NEW w \in Workers, Worker(w) PROVE Typed'
  <2> w \in Actors
    OBVIOUS
  <2>1. CASE Take(w)
    <3>1. Head(jobs) \in Runs /\ Tail(jobs) \in Seq(Runs)
      BY <2>1 DEF Take
    <3> QED
      BY <2>1, <3>1 DEF Take, WorkerStep, WorkerPCs, storeVars, StoreTypeOK, cancelVars,
            submitVars, WorkerInv, TargetInv
  <2>2. CASE WorkerExit(w)
    <3>1. StoreTypeOK'
      BY <2>2 DEF WorkerExit, WorkerStep, storeVars, StoreTypeOK
    <3>2. WorkerInv'
      BY <2>2 DEF WorkerExit, WorkerStep, WorkerPCs, WorkerInv
    <3>3. TargetInv'
      BY <2>2 DEF WorkerExit, WorkerStep, WorkerPCs, cancelVars, TargetInv
    <3> QED
      BY <2>2, <3>1, <3>2, <3>3 DEF WorkerExit, WorkerStep, WorkerPCs, queueVars,
              cancelVars, submitVars
  <2>9. CASE CheckFlag(w)
    <3>1. StoreTypeOK'
      BY <2>9 DEF CheckFlag, WorkerStep, storeVars, StoreTypeOK
    <3>2. WorkerInv'
      BY <2>9 DEF CheckFlag, WorkerStep, WorkerPCs, TerminalStates, WorkerInv
    <3>3. TargetInv'
      BY <2>9 DEF CheckFlag, WorkerStep, WorkerPCs, TerminalStates, cancelVars,
              TargetInv
    <3> QED
      BY <2>9, <3>1, <3>2, <3>3 DEF CheckFlag, WorkerStep, WorkerPCs, TerminalStates,
              queueVars, cancelVars, submitVars
  <2>10. CASE Arm(w)
    <3>1. StoreTypeOK'
      BY <2>10 DEF Arm, WorkerStep, storeVars, StoreTypeOK
    <3>2. WorkerInv'
      BY <2>10 DEF Arm, WorkerStep, WorkerPCs, WorkerInv
    <3>3. TargetInv'
      BY <2>10 DEF Arm, WorkerStep, WorkerPCs, cancelVars, TargetInv
    <3>4. armed' \in SUBSET Runs
      BY <2>10 DEF Arm, WorkerStep, WorkerInv
    <3>5. wpc' \in [Workers -> WorkerPCs]
      BY <2>10 DEF Arm, WorkerStep, WorkerPCs
    <3> QED
      BY <2>10, <3>1, <3>2, <3>3, <3>4, <3>5 DEF Arm, cancelVars, submitVars
  <2>3. CASE MarkRunning(w) \/ RecordPid(w)
    <3>1. cur[w] \in Runs
      BY <2>3 DEF MarkRunning, RecordPid, WorkerStep, WorkerInv
    <3>2. "running" \in States
      BY DEF States, LiveStates
    <3>3. StoreTypeOK'
      BY <2>3, <3>1, <3>2, RecordTypes, UpdateType DEF MarkRunning, RecordPid, StoreTypeOK
    <3> QED
      BY <2>3, <3>3 DEF MarkRunning, RecordPid, WorkerStep, WorkerPCs, queueVars,
            cancelVars, submitVars, WorkerInv, TargetInv
  <2>4. CASE Launch(w)
    <3>1. WorkerInv' /\ TargetInv'
      BY <2>4 DEF Launch, WorkerStep, WorkerPCs, cancelVars, WorkerInv, TargetInv
    <3>2. TypeOK'
      BY <2>4 DEF Launch, WorkerStep, WorkerPCs, storeVars, StoreTypeOK, cancelVars,
              submitVars
    <3> QED
      BY <3>1, <3>2
  <2>11. CASE LaunchFails(w)
    <3>1. WorkerInv' /\ TargetInv'
      BY <2>11 DEF LaunchFails, WorkerStep, WorkerPCs, TerminalStates, cancelVars, WorkerInv,
              TargetInv
    <3>2. TypeOK'
      BY <2>11 DEF LaunchFails, WorkerStep, WorkerPCs, TerminalStates, storeVars,
              StoreTypeOK, queueVars, cancelVars, submitVars
    <3> QED
      BY <3>1, <3>2
  <2>5. ASSUME NEW o \in TerminalStates, ExecuteReturns(w, o) PROVE Typed'
    <3>1. WorkerInv' /\ TargetInv'
      BY <2>5 DEF ExecuteReturns, WorkerStep, WorkerPCs, cancelVars, WorkerInv, TargetInv
    <3>2. TypeOK'
      BY <2>5 DEF ExecuteReturns, WorkerStep, WorkerPCs, storeVars, StoreTypeOK, cancelVars,
              submitVars
    <3> QED
      BY <3>1, <3>2
  <2>6. CASE Finish(w)
    <3>1. cur[w] \in Runs /\ outcome[w] \in TerminalStates
      BY <2>6 DEF Finish, WorkerStep, WorkerInv
    <3>2. FinalRecord(mem[cur[w]], outcome[w], proc[cur[w]] = "exited") \in Records
      BY <3>1, FinalRecordType DEF StoreTypeOK
    <3>3. StoreTypeOK'
      BY <2>6, <3>1, <3>2, UpdateType DEF Finish
    <3> QED
      BY <2>6, <3>3 DEF Finish, WorkerStep, WorkerPCs, queueVars, cancelVars, submitVars,
            WorkerInv, TargetInv
  <2>7. CASE CloseBuffer(w) \/ Retire(w)
    <3>1. StoreTypeOK'
      BY <2>7 DEF CloseBuffer, Retire, WorkerStep, storeVars, StoreTypeOK
    <3>2. WorkerInv'
      BY <2>7 DEF CloseBuffer, Retire, WorkerStep, WorkerPCs, WorkerInv
    <3>3. TargetInv'
      BY <2>7 DEF CloseBuffer, Retire, WorkerStep, WorkerPCs, cancelVars, TargetInv
    <3> QED
      BY <2>7, <3>1, <3>2, <3>3 DEF CloseBuffer, Retire, WorkerStep, WorkerPCs, cancelVars,
              submitVars
  <2>8. CASE WorkerPersists(w)
    <3>1. cur[w] \in Runs
      BY <2>8 DEF WorkerPersists, WorkerStep, WorkerInv
    <3>2. StoreTypeOK'
      BY <2>8, <3>1, PersistType DEF WorkerPersists
    <3> QED
      BY <2>8, <3>2 DEF WorkerPersists, WorkerStep, WorkerPCs, queueVars, cancelVars,
            submitVars, WorkerInv, TargetInv
  <2> QED
    BY <1>4, <2>1, <2>2, <2>3, <2>4, <2>5, <2>6, <2>7, <2>8, <2>9, <2>10,
       <2>11 DEF Worker
<1>5. CASE Signal \/ Stop
  <2>1. StoreTypeOK'
    BY <1>5 DEF Signal, Stop, storeVars, StoreTypeOK
  <2>2. WorkerInv'
    BY <1>5 DEF Signal, Stop, workerVars, WorkerInv
  <2>3. TargetInv'
    BY <1>5 DEF Signal, Stop, cancelVars, TargetInv
  <2> QED
    BY <1>5, <2>1, <2>2, <2>3 DEF Signal, Stop, workerVars, cancelVars, submitVars
<1>6. CASE UNCHANGED vars
  <2>1. StoreTypeOK'
    BY <1>6 DEF vars, storeVars, StoreTypeOK
  <2>2. WorkerInv'
    BY <1>6 DEF vars, workerVars, WorkerInv
  <2>3. TargetInv'
    BY <1>6 DEF vars, cancelVars, TargetInv
  <2> QED
    BY <1>6, <2>1, <2>2, <2>3 DEF vars, queueVars, workerVars, cancelVars, submitVars
<1> QED
  BY <1>1, <1>2, <1>3, <1>4, <1>5, <1>6 DEF Next, Rest

(* An update that does not make a record absent keeps every run known. *)
LEMMA UpdateKnown ==
  ASSUME StoreTypeOK, NEW a \in Actors, NEW r \in Runs, NEW rec \in Records,
         Update(a, r, rec), rec.state # "absent" \/ rec.state = mem[r].state
  PROVE  /\ \A q \in Runs : Known(q) => Known(q)'
         /\ rec.state # "absent" => Known(r)'
  BY DEF Update, Known, StoreTypeOK

(* No step forgets a run, and the one that makes it known is AddRun. *)
LEMMA KnownStays ==
  ASSUME Typed, [Next]_vars
  PROVE  /\ \A q \in Runs : Known(q) => Known(q)'
         /\ \A q \in Runs : spc'[q] = spc[q] \/ spc[q] # "new" \/ Known(q)'
<1> USE DEF Typed, TypeOK
<1> DEFINE Stays == \A q \in Runs : Known(q) => Known(q)'
           Kept == /\ Stays
                   /\ \A q \in Runs : spc'[q] = spc[q] \/ spc[q] # "new" \/ Known(q)'
<1>1. ASSUME NEW r \in Runs, AddRun(r) \/ Refuse(r) PROVE Kept
  <2> DEFINE refused == [mem[r] EXCEPT !.state = "errored", !.error = "queue full"]
  <2>0. mem[r] \in Records
    BY DEF StoreTypeOK
  <2>1. /\ Fresh \in Records /\ Fresh.state # "absent"
        /\ refused \in Records /\ refused.state # "absent"
    <3>1. Fresh \in Records /\ refused \in Records
      BY <2>0, RecordTypes
    <3>2. Fresh.state # "absent" /\ refused.state # "absent"
      BY <2>0 DEF Fresh, Absent, Records
    <3> QED
      BY <3>1, <3>2
  <2> HIDE DEF refused
  <2>2. Update(r, r, Fresh) \/ Update(r, r, refused)
    BY <1>1 DEF AddRun, Refuse, refused
  <2>3. Known(r)' /\ Stays
    BY <2>1, <2>2, UpdateKnown
  <2> QED
    BY <1>1, <2>3 DEF AddRun, Refuse, SubmitStep
<1>2. ASSUME NEW r \in Runs, Submitter(r), ~Refuse(r) PROVE Kept
  <2>1. mem' = mem
    BY <1>2 DEF Submitter, AddPersists, RefusePersists, Register, Send, FindFull, Unregister,
            SendPanics, Acknowledge, Persist, PersistFails, storeVars
  <2>2. spc[r] # "new" /\ \A q \in Runs : q # r => spc'[q] = spc[q]
    BY <1>2 DEF Submitter, AddPersists, RefusePersists, Register, Send, FindFull, Unregister,
            SendPanics, Acknowledge, SubmitStep
  <2> QED
    BY <2>1, <2>2 DEF Known
<1>3. ASSUME NEW c \in Cancels, CancelRecord(c) PROVE Kept
  <2>1. target[c] \in Runs
    BY <1>3 DEF CancelRecord, CancelStep, TargetInv
  <2> DEFINE rec == [mem[target[c]] EXCEPT !.state = "cancelled", !.ended = TRUE]
  <2>2. rec \in Records /\ rec.state # "absent" /\ Update(c, target[c], rec)
    <3>1. mem[target[c]] \in Records
      BY <2>1 DEF StoreTypeOK
    <3>2. rec \in Records
      BY <3>1, RecordTypes
    <3>3. rec.state # "absent"
      BY <3>1 DEF Records
    <3> QED
      BY <1>3, <3>2, <3>3 DEF CancelRecord
  <2> HIDE DEF rec
  <2>3. Stays
    BY <2>1, <2>2, UpdateKnown
  <2> QED
    BY <1>3, <2>3 DEF CancelRecord, submitVars
<1>4. ASSUME NEW w \in Workers, MarkRunning(w) \/ RecordPid(w) \/ Finish(w) PROVE Kept
  <2>1. cur[w] \in Runs /\ (Finish(w) => outcome[w] \in TerminalStates)
    BY <1>4 DEF MarkRunning, RecordPid, Finish, WorkerStep, WorkerInv
  <2>2. mem[cur[w]] \in Records
    BY <2>1 DEF StoreTypeOK
  <2>0. spc' = spc
    BY <1>4 DEF MarkRunning, RecordPid, Finish, submitVars
  <2>3. CASE MarkRunning(w)
    <3> DEFINE rec == [mem[cur[w]] EXCEPT !.state = "running"]
    <3>1. rec \in Records /\ rec.state # "absent" /\ Update(w, cur[w], rec)
      BY <2>2, <2>3, RecordTypes DEF MarkRunning, Records, States, LiveStates
    <3> HIDE DEF rec
    <3>2. Stays
      BY <2>1, <3>1, UpdateKnown
    <3> QED
      BY <2>0, <3>2
  <2>4. CASE RecordPid(w)
    <3> DEFINE rec == [mem[cur[w]] EXCEPT !.pid = TRUE]
    <3>1. rec \in Records /\ rec.state = mem[cur[w]].state /\ Update(w, cur[w], rec)
      BY <2>2, <2>4, RecordTypes DEF RecordPid, Records
    <3> HIDE DEF rec
    <3>2. Stays
      BY <2>1, <3>1, UpdateKnown
    <3> QED
      BY <2>0, <3>2
  <2>5. CASE Finish(w)
    <3> DEFINE rec == FinalRecord(mem[cur[w]], outcome[w], proc[cur[w]] = "exited")
    <3>1. rec \in Records /\ Update(w, cur[w], rec)
      BY <2>1, <2>2, <2>5, FinalRecordType DEF Finish
    <3>2. rec.state # "absent"
      BY <2>1, <2>5 DEF FinalRecord, FinalState, TerminalStates
    <3> HIDE DEF rec
    <3>3. Stays
      BY <2>1, <3>1, <3>2, UpdateKnown
    <3> QED
      BY <2>0, <3>3
  <2> QED
    BY <1>4, <2>3, <2>4, <2>5
<1>5. UNCHANGED <<mem, spc>> => Kept
  BY DEF Known
<1>6. ASSUME NEW c \in Cancels, NEW r \in Runs,
             CancelGet(c, r) \/ CancelFlag(c) \/ CancelSignal(c) \/ CancelPersists(c)
      PROVE  Kept
  BY <1>5, <1>6 DEF CancelGet, CancelFlag, CancelSignal, CancelPersists, Persist, PersistFails,
          storeVars, submitVars
<1>7. ASSUME NEW w \in Workers, Worker(w), ~MarkRunning(w), ~RecordPid(w), ~Finish(w)
      PROVE  Kept
  BY <1>5, <1>7 DEF Worker, Take, WorkerExit, CheckFlag, Arm, Launch, LaunchFails, ExecuteReturns,
          CloseBuffer, Retire, WorkerPersists, Persist, PersistFails, storeVars, submitVars
<1>8. ASSUME Signal \/ Stop \/ UNCHANGED vars PROVE Kept
  BY <1>8, <1>5 DEF Signal, Stop, vars, storeVars, submitVars
<1>9. ASSUME NEW r \in Runs, AddRun(r) \/ Submitter(r) PROVE Kept
  BY <1>1, <1>2, <1>9
<1>10. ASSUME NEW c \in Cancels, Canceller(c) PROVE Kept
  <2> PICK r \in Runs : TRUE
    BY <1>10 DEF Canceller, CancelFlag, CancelSignal, CancelRecord, CancelPersists, CancelStep,
            TargetInv
  <2> QED
    BY <1>3, <1>6, <1>10 DEF Canceller
<1>11. ASSUME NEW w \in Workers, Worker(w) PROVE Kept
  BY <1>4, <1>7, <1>11
<1> HIDE DEF Kept
<1>12. Kept
  BY <1>6, <1>8, <1>9, <1>10, <1>11 DEF Next, Rest
<1> QED
  BY <1>12 DEF Kept

LEMMA KnownStep == Typed /\ KnownInv /\ [Next]_vars => KnownInv'
  BY KnownStays DEF KnownInv

(***************************************************************************)
(* Queue keeps its types: no step leaves a state the code has no name for. *)
(***************************************************************************)
THEOREM TypeCorrect == Spec => []TypeOK
<1>1. Init => Typed /\ KnownInv
  BY TypedInit
<1>2. Typed /\ KnownInv /\ [Next]_vars => (Typed /\ KnownInv)'
  BY TypedStep, KnownStep DEF KnownInv, SentKnown
<1>3. Typed => TypeOK
  BY DEF Typed
<1> QED
  BY <1>1, <1>2, <1>3, PTL DEF Spec

-----------------------------------------------------------------------------
(* Where a run is: in the channel, at a worker, or at neither.             *)

Executing(r) == \E w \in Workers : cur[w] = r
Placed(r) == Waiting(r) \/ Executing(r)

(* Holding a job and being busy with it are the same thing. *)
LEMMA BusyIsExecuting ==
  ASSUME Typed, NEW r \in Runs
  PROVE  HeldAt(r, Holding) <=> Executing(r)
  BY DEF Typed, TypeOK, WorkerInv, WorkerPCs, HeldAt, Holds, Holding, Unfinished, Executing

(* Receiving on the channel: the head leaves, every other job stays. *)
LEMMA WaitingAfterReceive ==
  ASSUME jobs \in Seq(Runs), jobs # <<>>, jobs' = Tail(jobs), NEW r
  PROVE  /\ Waiting(Head(jobs)) /\ Head(jobs) \in Runs
         /\ Waiting(r)' => Waiting(r)
         /\ Waiting(r) => Waiting(r)' \/ r = Head(jobs)
<1>1. /\ Len(jobs) \in Nat /\ Len(jobs) # 0 /\ Len(jobs') = Len(jobs) - 1
      /\ Head(jobs) = jobs[1] /\ Head(jobs) \in Runs
      /\ \A i \in 1..Len(jobs') : jobs'[i] = jobs[i + 1]
  OBVIOUS
<1>2. Waiting(Head(jobs))
  BY <1>1 DEF Waiting
<1>3. ASSUME Waiting(r)' PROVE Waiting(r)
  <2>1. PICK i \in 1..Len(jobs') : jobs'[i] = r
    BY <1>3 DEF Waiting
  <2>2. i + 1 \in 1..Len(jobs) /\ jobs[i + 1] = r
    BY <1>1, <2>1
  <2> QED
    BY <2>2 DEF Waiting
<1>4. ASSUME Waiting(r), r # Head(jobs) PROVE Waiting(r)'
  <2>1. PICK i \in 1..Len(jobs) : jobs[i] = r
    BY <1>4 DEF Waiting
  <2>2. i - 1 \in 1..Len(jobs') /\ jobs'[i - 1] = r
    BY <1>1, <1>4, <2>1
  <2> QED
    BY <2>2 DEF Waiting
<1> QED
  BY <1>1, <1>2, <1>3, <1>4

(* Sending on the channel: the new job joins those that wait. *)
LEMMA WaitingAfterSend ==
  ASSUME jobs \in Seq(Runs), NEW s \in Runs, jobs' = Append(jobs, s), NEW r
  PROVE  Waiting(r)' <=> Waiting(r) \/ r = s
<1>1. /\ Len(jobs) \in Nat /\ Len(jobs') = Len(jobs) + 1
      /\ \A i \in 1..Len(jobs) : jobs'[i] = jobs[i]
      /\ jobs'[Len(jobs')] = s
  OBVIOUS
<1>2. ASSUME Waiting(r) PROVE Waiting(r)'
  <2>1. PICK i \in 1..Len(jobs) : jobs[i] = r
    BY <1>2 DEF Waiting
  <2> QED
    BY <1>1, <2>1 DEF Waiting
<1>3. ASSUME Waiting(r)', r # s PROVE Waiting(r)
  <2>1. PICK i \in 1..Len(jobs') : jobs'[i] = r
    BY <1>3 DEF Waiting
  <2>2. i \in 1..Len(jobs)
    BY <1>1, <1>3, <2>1
  <2> QED
    BY <1>1, <2>1, <2>2 DEF Waiting
<1>4. s = r => Waiting(r)'
  BY <1>1 DEF Waiting
<1> QED
  BY <1>2, <1>3, <1>4

(* Once sent, a submission stays sent; only three steps move a job. *)
LEMMA Moves ==
  ASSUME Typed, [Next]_vars
  PROVE  /\ \A r \in Runs : Submitted(r) => Submitted(r)'
         /\ \/ \E r \in Runs : Send(r)
            \/ \E w \in Workers : Take(w) \/ Retire(w)
            \/ UNCHANGED <<jobs, cur>>
<1> USE DEF Typed, TypeOK
<1>1. ASSUME NEW r \in Runs, AddRun(r) \/ Submitter(r)
      PROVE  /\ \A q \in Runs : Submitted(q) => Submitted(q)'
             /\ Send(r) \/ UNCHANGED <<jobs, cur>>
  BY <1>1 DEF AddRun, Submitter, AddPersists, Register, Send, FindFull, Unregister, Refuse,
          RefusePersists, SendPanics, Acknowledge, SubmitStep, Submitted, queueVars, workerVars
<1>2. ASSUME NEW c \in Cancels, NEW r \in Runs, CancelGet(c, r)
      PROVE  UNCHANGED <<spc, jobs, cur>>
  BY <1>2 DEF CancelGet, queueVars, workerVars, submitVars
<1>3. ASSUME NEW c \in Cancels, Canceller(c) PROVE UNCHANGED <<spc, jobs, cur>>
  BY <1>3 DEF Canceller, CancelFlag, CancelSignal, CancelRecord, CancelPersists, queueVars,
          workerVars, submitVars
<1>4. ASSUME NEW w \in Workers, Worker(w)
      PROVE  spc' = spc /\ (Take(w) \/ Retire(w) \/ UNCHANGED <<jobs, cur>>)
  BY <1>4 DEF Worker, WorkerExit, Take, CheckFlag, Arm, MarkRunning, Launch, LaunchFails,
          RecordPid, ExecuteReturns, Finish, CloseBuffer, Retire, WorkerPersists, queueVars, submitVars
<1>5. CASE Signal \/ Stop \/ UNCHANGED vars
  BY <1>5 DEF Signal, Stop, vars, queueVars, workerVars, submitVars, Submitted
<1>6. UNCHANGED spc => \A r \in Runs : Submitted(r) => Submitted(r)'
  BY DEF Submitted
<1>7. CASE \E r \in Runs : AddRun(r) \/ Submitter(r)
  BY <1>1, <1>7
<1>8. CASE \/ \E c \in Cancels, r \in Runs : CancelGet(c, r)
           \/ \E c \in Cancels : Canceller(c)
  BY <1>2, <1>3, <1>6, <1>8
<1>9. CASE \E w \in Workers : Worker(w)
  BY <1>4, <1>6, <1>9
<1> QED
  BY <1>5, <1>7, <1>8, <1>9 DEF Next, Rest

(* Only a submitted run is anywhere, so a send never adds a second job. *)
SentInv == \A r \in Runs : Placed(r) => Submitted(r)

PlaceInv == OneHolder /\ SentInv

LEMMA PlaceInit == Init => PlaceInv
  BY DEF Init, QueueInit, PlaceInv, OneHolder, SentInv, Placed, Waiting, Executing

LEMMA PlaceStep == Typed /\ PlaceInv /\ [Next]_vars => PlaceInv'
<1> SUFFICES ASSUME Typed, PlaceInv, [Next]_vars PROVE PlaceInv'
  OBVIOUS
<1>1. /\ jobs \in Seq(Runs) /\ cur \in [Workers -> Runs \union {NoRun}]
      /\ spc \in [Runs -> SubmitPCs]
  BY DEF Typed, TypeOK
<1>2. \A r \in Runs : Submitted(r) => Submitted(r)'
  BY Moves
<1>3. ASSUME NEW s \in Runs, Send(s) PROVE PlaceInv'
  <2>1. jobs' = Append(jobs, s) /\ cur' = cur /\ ~Submitted(s) /\ Submitted(s)'
    BY <1>1, <1>3 DEF Send, SubmitStep, Submitted, workerVars
  <2>2. ~Waiting(s) /\ ~Executing(s)
    BY <2>1 DEF PlaceInv, SentInv, Placed
  <2>3. \A r : Waiting(r)' <=> Waiting(r) \/ r = s
    BY <1>1, <2>1, WaitingAfterSend
  <2>4. \A i, j \in 1..Len(jobs') : jobs'[i] = jobs'[j] => i = j
    <3>1. /\ Len(jobs) \in Nat /\ Len(jobs') = Len(jobs) + 1
          /\ \A i \in 1..Len(jobs) : jobs'[i] = jobs[i] /\ jobs[i] # s
          /\ jobs'[Len(jobs) + 1] = s
      BY <1>1, <2>1, <2>2 DEF Waiting
    <3> QED
      BY <3>1 DEF PlaceInv, OneHolder
  <2>5. SentInv'
    BY <1>2, <2>1, <2>3 DEF PlaceInv, SentInv, Placed, Executing
  <2> QED
    BY <1>1, <2>1, <2>2, <2>3, <2>4, <2>5 DEF PlaceInv, OneHolder, Executing
<1>4. ASSUME NEW w \in Workers, Take(w) PROVE PlaceInv'
  <2>0. /\ jobs # <<>> /\ jobs' = Tail(jobs) /\ cur' = [cur EXCEPT ![w] = Head(jobs)]
        /\ spc' = spc
    BY <1>4 DEF Take, submitVars
  <2> PICK h \in Runs : h = Head(jobs)
    BY <1>1, <2>0, WaitingAfterReceive
  <2>1. Waiting(h) /\ \A r : Waiting(r)' => Waiting(r)
    BY <1>1, <2>0, WaitingAfterReceive
  <2>2. /\ Len(jobs) \in Nat /\ Len(jobs) # 0 /\ Len(jobs') = Len(jobs) - 1
        /\ h = jobs[1]
        /\ \A i \in 1..Len(jobs') : jobs'[i] = jobs[i + 1]
    BY <1>1, <2>0
  <2>3. \A i, j \in 1..Len(jobs) : jobs[i] = jobs[j] => i = j
    BY DEF PlaceInv, OneHolder
  <2>4. \A i, j \in 1..Len(jobs') : jobs'[i] = jobs'[j] => i = j
    BY <2>2, <2>3
  <2>5. ~Waiting(h)'
    <3>1. \A i \in 1..Len(jobs') : jobs'[i] # h
      BY <2>2, <2>3
    <3> QED
      BY <3>1 DEF Waiting
  <2>6. \A v \in Workers : cur[v] # h
    BY <2>1 DEF PlaceInv, OneHolder
  <2>7. \A v \in Workers : cur'[v] = IF v = w THEN h ELSE cur[v]
    BY <1>1, <2>0
  <2>8. SentInv'
    BY <1>2, <2>0, <2>1, <2>7 DEF PlaceInv, SentInv, Placed, Executing
  <2>9. ASSUME NEW v \in Workers, cur'[v] \in Runs, Waiting(cur[v])' PROVE FALSE
    <3>1. CASE v = w
      BY <2>5, <2>7, <2>9, <3>1 DEF Waiting
    <3>2. CASE v # w
      <4>1. cur'[v] = cur[v] /\ Waiting(cur[v])
        BY <2>1, <2>7, <2>9, <3>2 DEF Waiting
      <4> QED
        BY <2>9, <4>1 DEF PlaceInv, OneHolder
    <3> QED
      BY <3>1, <3>2
  <2>10. \A u, v \in Workers : cur'[u] = cur'[v] /\ cur'[u] \in Runs => u = v
    BY <2>6, <2>7 DEF PlaceInv, OneHolder
  <2> QED
    BY <2>4, <2>8, <2>9, <2>10 DEF PlaceInv, OneHolder
<1>5. ASSUME NEW w \in Workers, Retire(w) PROVE PlaceInv'
  <2>1. jobs' = jobs /\ cur' = [cur EXCEPT ![w] = NoRun] /\ spc' = spc
    BY <1>5 DEF Retire, submitVars
  <2>2. \A v \in Workers : cur'[v] = IF v = w THEN NoRun ELSE cur[v]
    BY <1>1, <2>1
  <2>3. \A r : Waiting(r)' <=> Waiting(r)
    BY <2>1 DEF Waiting
  <2>4. SentInv'
    BY <1>2, <2>1, <2>2, <2>3 DEF PlaceInv, SentInv, Placed, Executing
  <2> QED
    BY <2>1, <2>2, <2>3, <2>4 DEF PlaceInv, OneHolder
<1>6. CASE UNCHANGED <<jobs, cur>>
  BY <1>2, <1>6 DEF PlaceInv, OneHolder, SentInv, Placed, Waiting, Executing
<1> QED
  BY <1>3, <1>4, <1>5, <1>6, Moves

LEMMA PlaceAlways == Spec => [](Typed /\ KnownInv /\ PlaceInv)
<1>1. Init => Typed /\ KnownInv /\ PlaceInv
  BY TypedInit, PlaceInit
<1>2. Typed /\ KnownInv /\ PlaceInv /\ [Next]_vars => (Typed /\ KnownInv /\ PlaceInv)'
  BY TypedStep, KnownStep, PlaceStep DEF KnownInv, SentKnown
<1> QED
  BY <1>1, <1>2, PTL DEF Spec

(***************************************************************************)
(* A run is executed at most once: it is in the channel once, or at one    *)
(* worker, never both (Submit and worker, queue.go).                       *)
(***************************************************************************)
THEOREM NeverTwice == Spec => []OneHolder
<1>1. PlaceInv => OneHolder
  BY DEF PlaceInv
<1> QED
  BY <1>1, PlaceAlways, PTL

-----------------------------------------------------------------------------
(* The two maps of the queue follow the runs that can still be executed.   *)

(* Which steps enter which part of createRun, and which touch the maps.    *)
LEMMA Handlers ==
  ASSUME Typed, [Next]_vars
  PROVE  /\ \A r \in Runs : spc'[r] \in {"registered", "full"} =>
               spc[r] \in {"registered", "full"} \/ Register(r)
         /\ \A r \in Runs : spc'[r] \in {"refusing", "refused", "rejected"} =>
               spc[r] \in {"refusing", "refused", "rejected"} \/ Unregister(r)
         /\ \/ \E r \in Runs : Register(r) \/ Unregister(r)
            \/ \E w \in Workers : CloseBuffer(w) \/ Retire(w)
            \/ UNCHANGED <<live, bufs>>
<1> USE DEF Typed, TypeOK
<1> DEFINE Goal(r) ==
             /\ spc'[r] \in {"registered", "full"} =>
                  spc[r] \in {"registered", "full"} \/ Register(r)
             /\ spc'[r] \in {"refusing", "refused", "rejected"} =>
                  spc[r] \in {"refusing", "refused", "rejected"} \/ Unregister(r)
<1>1. ASSUME NEW r \in Runs, AddRun(r) \/ Submitter(r)
      PROVE  /\ \A q \in Runs : Goal(q)
             /\ Register(r) \/ Unregister(r) \/ UNCHANGED <<live, bufs>>
  <2>1. CASE Register(r) \/ Unregister(r)
    BY <2>1 DEF Register, Unregister, SubmitStep
  <2>2. CASE AddRun(r) \/ AddPersists(r) \/ Send(r) \/ FindFull(r) \/ Refuse(r)
             \/ RefusePersists(r) \/ SendPanics(r) \/ Acknowledge(r)
    BY <2>2 DEF AddRun, AddPersists, Send, FindFull, Refuse, RefusePersists, SendPanics,
            Acknowledge, SubmitStep, queueVars
  <2> QED
    BY <1>1, <2>1, <2>2 DEF Submitter
<1>2. ASSUME NEW c \in Cancels, NEW r \in Runs, CancelGet(c, r)
      PROVE  UNCHANGED <<spc, live, bufs>>
  BY <1>2 DEF CancelGet, queueVars, submitVars
<1>3. ASSUME NEW c \in Cancels, Canceller(c) PROVE UNCHANGED <<spc, live, bufs>>
  BY <1>3 DEF Canceller, CancelFlag, CancelSignal, CancelRecord, CancelPersists, queueVars,
          submitVars
<1>4. ASSUME NEW w \in Workers, Worker(w)
      PROVE  spc' = spc /\ (CloseBuffer(w) \/ Retire(w) \/ UNCHANGED <<live, bufs>>)
  BY <1>4 DEF Worker, WorkerExit, Take, CheckFlag, Arm, MarkRunning, Launch, LaunchFails,
          RecordPid, ExecuteReturns, Finish, CloseBuffer, Retire, WorkerPersists, queueVars, submitVars
<1>5. Signal \/ Stop \/ UNCHANGED vars => UNCHANGED <<spc, live, bufs>>
  BY DEF Signal, Stop, vars, queueVars, submitVars
<1>6. UNCHANGED spc => \A r \in Runs : Goal(r)
  OBVIOUS
<1> HIDE DEF Goal
<1>7. /\ \A r \in Runs : Goal(r)
      /\ \/ \E r \in Runs : Register(r) \/ Unregister(r)
         \/ \E w \in Workers : CloseBuffer(w) \/ Retire(w)
         \/ UNCHANGED <<live, bufs>>
  <2>1. CASE \E r \in Runs : AddRun(r) \/ Submitter(r)
    BY <1>1, <2>1
  <2>2. CASE \/ \E c \in Cancels, r \in Runs : CancelGet(c, r)
             \/ \E c \in Cancels : Canceller(c)
    BY <1>2, <1>3, <1>6, <2>2
  <2>3. CASE \E w \in Workers : Worker(w)
    BY <1>4, <1>6, <2>3
  <2>4. CASE Signal \/ Stop \/ UNCHANGED vars
    BY <1>5, <1>6, <2>4
  <2> QED
    BY <2>1, <2>2, <2>3, <2>4 DEF Next, Rest
<1> QED
  BY <1>7 DEF Goal

(* What a step makes waiting or executing either was so, or was just sent. *)
LEMMA PlacedBefore ==
  ASSUME Typed, [Next]_vars, NEW r \in Runs, Placed(r)'
  PROVE  Placed(r) \/ Send(r)
<1>1. jobs \in Seq(Runs) /\ cur \in [Workers -> Runs \union {NoRun}]
  BY DEF Typed, TypeOK
<1>2. ASSUME NEW s \in Runs, Send(s) PROVE Placed(r) \/ Send(r)
  <2>1. jobs' = Append(jobs, s) /\ cur' = cur
    BY <1>2 DEF Send, workerVars
  <2>2. Waiting(r)' <=> Waiting(r) \/ r = s
    BY <1>1, <2>1, WaitingAfterSend
  <2> QED
    BY <1>2, <2>1, <2>2 DEF Placed, Executing
<1>3. ASSUME NEW w \in Workers, Take(w) PROVE Placed(r)
  <2>1. /\ jobs # <<>> /\ jobs' = Tail(jobs) /\ cur' = [cur EXCEPT ![w] = Head(jobs)]
    BY <1>3 DEF Take
  <2>2. Waiting(Head(jobs)) /\ (Waiting(r)' => Waiting(r))
    BY <1>1, <2>1, WaitingAfterReceive
  <2>3. \A v \in Workers : cur'[v] = IF v = w THEN Head(jobs) ELSE cur[v]
    BY <1>1, <2>1
  <2> QED
    BY <2>2, <2>3 DEF Placed, Executing
<1>4. ASSUME NEW w \in Workers, Retire(w) PROVE Placed(r)
  <2>1. jobs' = jobs /\ \A v \in Workers : cur'[v] = IF v = w THEN NoRun ELSE cur[v]
    BY <1>1, <1>4 DEF Retire
  <2> QED
    BY <2>1 DEF Placed, Waiting, Executing
<1>5. UNCHANGED <<jobs, cur>> => Placed(r)
  BY DEF Placed, Waiting, Executing
<1> QED
  BY <1>2, <1>3, <1>4, <1>5, Moves

ReachInv ==
  \A r \in Runs : Placed(r) \/ spc[r] \in {"registered", "full"} =>
    r \in live /\ bufs[r] # "none"

RefusedInv ==
  \A r \in Runs : spc[r] \in {"refusing", "refused", "rejected"} =>
    r \notin live /\ bufs[r] = "none"

LEMMA MapsStep ==
  Typed /\ PlaceInv /\ ReachInv /\ RefusedInv /\ [Next]_vars => ReachInv' /\ RefusedInv'
<1> SUFFICES ASSUME Typed, PlaceInv, ReachInv, RefusedInv, [Next]_vars
             PROVE  ReachInv' /\ RefusedInv'
  OBVIOUS
<1>1. bufs \in [Runs -> {"none", "open", "closed"}] /\ spc \in [Runs -> SubmitPCs]
  BY DEF Typed, TypeOK
<1>2. /\ \A r \in Runs : Placed(r)' => Placed(r) \/ Send(r)
      /\ \A r \in Runs : Send(r) => spc[r] = "registered"
  BY PlacedBefore DEF Send, SubmitStep
<1>3. ASSUME NEW s \in Runs, Register(s) PROVE ReachInv' /\ RefusedInv'
  <2>1. /\ live' = live \union {s} /\ bufs' = [bufs EXCEPT ![s] = "open"]
        /\ spc[s] = "stored" /\ spc' = [spc EXCEPT ![s] = "registered"]
    BY <1>3 DEF Register, SubmitStep
  <2> QED
    BY <1>1, <1>2, <2>1 DEF ReachInv, RefusedInv
<1>4. ASSUME NEW s \in Runs, Unregister(s) PROVE ReachInv' /\ RefusedInv'
  <2>1. /\ live' = live \ {s} /\ bufs' = [bufs EXCEPT ![s] = "none"]
        /\ spc[s] = "full" /\ spc' = [spc EXCEPT ![s] = "refusing"]
    BY <1>4 DEF Unregister, SubmitStep
  <2>2. ~Placed(s) /\ ~Placed(s)'
    BY <1>2, <2>1 DEF PlaceInv, SentInv, Submitted
  <2> QED
    BY <1>1, <1>2, <2>1, <2>2 DEF ReachInv, RefusedInv
<1>5. ASSUME NEW w \in Workers, Retire(w) PROVE ReachInv' /\ RefusedInv'
  <2>1. /\ live' = live \ {cur[w]} /\ bufs' = bufs
        /\ spc' = spc /\ jobs' = jobs /\ cur' = [cur EXCEPT ![w] = NoRun]
        /\ cur[w] \in Runs
    BY <1>5 DEF Retire, submitVars, WorkerStep, Typed, WorkerInv
  <2>2. Submitted(cur[w])
    BY <2>1 DEF PlaceInv, SentInv, Placed, Executing
  <2>3. ~Waiting(cur[w]) /\ \A v \in Workers : v # w => cur[v] # cur[w]
    BY <2>1 DEF PlaceInv, OneHolder
  <2>4. \A r \in Runs : Placed(r)' => Placed(r) /\ r # cur[w]
    <3>1. cur \in [Workers -> Runs \union {NoRun}]
      BY DEF Typed, TypeOK
    <3>2. \A v \in Workers : cur'[v] = IF v = w THEN NoRun ELSE cur[v]
      BY <2>1, <3>1
    <3> QED
      BY <2>1, <2>3, <3>2 DEF Placed, Waiting, Executing
  <2> QED
    BY <1>1, <2>1, <2>2, <2>4 DEF ReachInv, RefusedInv, Submitted
<1>6. ASSUME NEW w \in Workers, CloseBuffer(w) PROVE ReachInv' /\ RefusedInv'
  <2>1. /\ live' = live /\ bufs' = [bufs EXCEPT ![cur[w]] = "closed"]
        /\ spc' = spc /\ jobs' = jobs /\ cur' = cur /\ cur[w] \in Runs
    BY <1>6 DEF CloseBuffer, submitVars, WorkerStep, Typed, WorkerInv
  <2>2. Submitted(cur[w])
    BY <2>1 DEF PlaceInv, SentInv, Placed, Executing
  <2>3. \A r \in Runs : Placed(r)' = Placed(r)
    BY <2>1 DEF Placed, Waiting, Executing
  <2> QED
    BY <1>1, <2>1, <2>2, <2>3 DEF ReachInv, RefusedInv, Submitted
<1>7. CASE UNCHANGED <<live, bufs>>
  <2>1. ASSUME NEW r \in Runs, Register(r) PROVE r \in live /\ bufs[r] # "none"
    <3>1. live = live \union {r} /\ bufs = [bufs EXCEPT ![r] = "open"]
      BY <1>7, <2>1 DEF Register
    <3>2. bufs[r] = [bufs EXCEPT ![r] = "open"][r]
      BY <3>1
    <3> QED
      BY <1>1, <3>1, <3>2
  <2>2. ASSUME NEW r \in Runs, Unregister(r) PROVE r \notin live /\ bufs[r] = "none"
    <3>1. live = live \ {r} /\ bufs = [bufs EXCEPT ![r] = "none"]
      BY <1>7, <2>2 DEF Unregister
    <3>2. bufs[r] = [bufs EXCEPT ![r] = "none"][r]
      BY <3>1
    <3> QED
      BY <1>1, <3>1, <3>2
  <2> QED
    BY <1>2, <1>7, <2>1, <2>2, Handlers DEF ReachInv, RefusedInv
<1> QED
  BY <1>3, <1>4, <1>5, <1>6, <1>7, Handlers

-----------------------------------------------------------------------------
(* How the state of a record moves.                                        *)

(* An update of one record, seen at any record. *)
LEMMA UpdateState ==
  ASSUME StoreTypeOK, NEW a, NEW s \in Runs, NEW rec, Update(a, s, rec), NEW r \in Runs
  PROVE  mem'[r] = IF r = s THEN rec ELSE mem[r]
  BY DEF StoreTypeOK, Update

(* Every step that can change the state of a record. *)
LEMMA StateMoves ==
  ASSUME Typed, [Next]_vars, NEW r \in Runs
  PROVE  \/ mem'[r].state = mem[r].state
         \/ AddRun(r)
         \/ Refuse(r)
         \/ mem'[r].state = "cancelled"
         \/ \E w \in Workers : MarkRunning(w) /\ cur[w] = r
         \/ \E w \in Workers : Finish(w) /\ cur[w] = r
<1> DEFINE Goal ==
             \/ mem'[r].state = mem[r].state
             \/ AddRun(r)
             \/ Refuse(r)
             \/ mem'[r].state = "cancelled"
             \/ \E w \in Workers : MarkRunning(w) /\ cur[w] = r
             \/ \E w \in Workers : Finish(w) /\ cur[w] = r
<1>1. StoreTypeOK /\ WorkerInv /\ TargetInv
  BY DEF Typed, TypeOK
<1>2. ASSUME NEW s \in Runs, AddRun(s) \/ Submitter(s) PROVE Goal
  <2>1. CASE AddRun(s) \/ Refuse(s)
    <3>1. r # s => mem'[r] = mem[r]
      BY <1>1, <2>1 DEF AddRun, Refuse, Update, StoreTypeOK
    <3> QED
      BY <2>1, <3>1
  <2>2. CASE AddPersists(s) \/ RefusePersists(s) \/ Register(s) \/ Send(s) \/ FindFull(s)
             \/ Unregister(s) \/ SendPanics(s) \/ Acknowledge(s)
    BY <2>2 DEF AddPersists, RefusePersists, Register, Send, FindFull, Unregister, SendPanics,
            Acknowledge, Persist, PersistFails, storeVars
  <2> QED
    BY <1>2, <2>1, <2>2 DEF Submitter
<1>3. ASSUME NEW c \in Cancels, NEW s \in Runs, CancelGet(c, s) PROVE Goal
  BY <1>3 DEF CancelGet, storeVars
<1>4. ASSUME NEW c \in Cancels, Canceller(c) PROVE Goal
  <2>1. CASE CancelRecord(c)
    <3>1. target[c] \in Runs
      BY <1>1, <2>1 DEF CancelRecord, CancelStep, TargetInv
    <3>2. mem[target[c]] \in Records
      BY <1>1, <3>1 DEF StoreTypeOK
    <3> DEFINE rec == [mem[target[c]] EXCEPT !.state = "cancelled", !.ended = TRUE]
    <3>3. rec.state = "cancelled"
      BY <3>2 DEF Records
    <3>4. Update(c, target[c], rec)
      BY <2>1 DEF CancelRecord
    <3> HIDE DEF rec
    <3> QED
      BY <1>1, <3>1, <3>3, <3>4, UpdateState
  <2>2. CASE CancelFlag(c) \/ CancelSignal(c) \/ CancelPersists(c)
    BY <2>2 DEF CancelFlag, CancelSignal, CancelPersists, Persist, PersistFails, storeVars
  <2> QED
    BY <1>4, <2>1, <2>2 DEF Canceller
<1>5. ASSUME NEW w \in Workers, Worker(w) PROVE Goal
  <2>1. CASE MarkRunning(w)
    <3>1. cur[w] \in Runs
      BY <1>1, <2>1 DEF MarkRunning, WorkerStep, WorkerInv
    <3>2. r # cur[w] => mem'[r] = mem[r]
      BY <1>1, <2>1, <3>1 DEF MarkRunning, Update, StoreTypeOK
    <3> QED
      BY <2>1, <3>2
  <2>2. CASE Finish(w)
    <3>1. cur[w] \in Runs
      BY <1>1, <2>2 DEF Finish, WorkerStep, WorkerInv
    <3>2. r # cur[w] => mem'[r] = mem[r]
      BY <1>1, <2>2, <3>1 DEF Finish, Update, StoreTypeOK
    <3> QED
      BY <2>2, <3>2
  <2>3. CASE RecordPid(w)
    <3>1. cur[w] \in Runs
      BY <1>1, <2>3 DEF RecordPid, WorkerStep, WorkerInv
    <3>2. mem[cur[w]] \in Records
      BY <1>1, <3>1 DEF StoreTypeOK
    <3> DEFINE rec == [mem[cur[w]] EXCEPT !.pid = TRUE]
    <3>3. rec.state = mem[cur[w]].state
      BY <3>2 DEF Records
    <3>4. Update(w, cur[w], rec)
      BY <2>3 DEF RecordPid
    <3> HIDE DEF rec
    <3> QED
      BY <1>1, <3>1, <3>3, <3>4, UpdateState
  <2>4. CASE ~MarkRunning(w) /\ ~Finish(w) /\ ~RecordPid(w)
    BY <1>5, <2>4 DEF Worker, Take, WorkerExit, CheckFlag, Arm, Launch, LaunchFails,
            ExecuteReturns, CloseBuffer, Retire, WorkerPersists, Persist, PersistFails, storeVars
  <2> QED
    BY <2>1, <2>2, <2>3, <2>4
<1>6. ASSUME Signal \/ Stop \/ UNCHANGED vars PROVE Goal
  BY <1>6 DEF Signal, Stop, vars, storeVars
<1> HIDE DEF Goal
<1>7. Goal
  <2>1. CASE \E s \in Runs : AddRun(s) \/ Submitter(s)
    BY <1>2, <2>1
  <2>2. CASE \/ \E c \in Cancels, s \in Runs : CancelGet(c, s)
             \/ \E c \in Cancels : Canceller(c)
    BY <1>3, <1>4, <2>2
  <2>3. CASE \E w \in Workers : Worker(w)
    BY <1>5, <2>3
  <2> QED
    BY <1>6, <2>1, <2>2, <2>3 DEF Next, Rest
<1> QED
  BY <1>7 DEF Goal

(* finish: the worker leaves a terminal state behind. *)
LEMMA FinishState ==
  ASSUME Typed, NEW w \in Workers, Finish(w)
  PROVE  cur[w] \in Runs /\ Terminal(mem'[cur[w]].state)
<1>1. StoreTypeOK /\ cur[w] \in Runs /\ outcome[w] \in TerminalStates
  BY DEF Typed, TypeOK, Finish, WorkerStep, WorkerInv
<1>2. mem'[cur[w]] = FinalRecord(mem[cur[w]], outcome[w], proc[cur[w]] = "exited")
  BY <1>1, UpdateState DEF Finish
<1> QED
  BY <1>1, <1>2 DEF FinalRecord, FinalState, Terminal, TerminalStates

(* A step moves one worker at most. *)
LEMMA Phases ==
  ASSUME Typed, [Next]_vars, NEW v \in Workers
  PROVE  (wpc'[v] = wpc[v] /\ cur'[v] = cur[v]) \/ Worker(v)
<1> DEFINE Same == wpc'[v] = wpc[v] /\ cur'[v] = cur[v]
<1>1. ASSUME NEW r \in Runs, AddRun(r) \/ Submitter(r) PROVE Same
  BY <1>1 DEF AddRun, Submitter, AddPersists, Register, Send, FindFull, Unregister, Refuse,
          RefusePersists, SendPanics, Acknowledge, workerVars
<1>2. ASSUME NEW c \in Cancels, NEW r \in Runs, CancelGet(c, r) PROVE Same
  BY <1>2 DEF CancelGet, workerVars
<1>3. ASSUME NEW c \in Cancels, Canceller(c) PROVE Same
  BY <1>3 DEF Canceller, CancelFlag, CancelSignal, CancelRecord, CancelPersists, workerVars
<1>4. ASSUME NEW w \in Workers, Worker(w), w # v PROVE Same
  BY <1>4 DEF Typed, TypeOK, Worker, WorkerStep, Take, WorkerExit, CheckFlag, Arm, MarkRunning,
          Launch, LaunchFails, RecordPid, ExecuteReturns, Finish, CloseBuffer, Retire, WorkerPersists
<1>5. ASSUME Signal \/ Stop \/ UNCHANGED vars PROVE Same
  BY <1>5 DEF Signal, Stop, vars, workerVars
<1> HIDE DEF Same
<1>6. Same \/ Worker(v)
  BY <1>1, <1>2, <1>3, <1>4, <1>5 DEF Next, Rest
<1> QED
  BY <1>6 DEF Same

(* A closed buffer is that of a run a worker has finalised. *)
ClosedInv ==
  \A r \in Runs : bufs[r] = "closed" =>
    Submitted(r) /\ (Placed(r) => HeldAt(r, {"retiring"}))

LEMMA ClosedStep ==
  ASSUME Typed, PlaceInv, ClosedInv, [Next]_vars
  PROVE  ClosedInv'
<1> SUFFICES ASSUME NEW r \in Runs, bufs'[r] = "closed"
             PROVE  Submitted(r)' /\ (Placed(r)' => HeldAt(r, {"retiring"})')
  BY DEF ClosedInv
<1>0. /\ bufs \in [Runs -> {"none", "open", "closed"}]
      /\ cur \in [Workers -> Runs \union {NoRun}] /\ wpc \in [Workers -> WorkerPCs]
  BY DEF Typed, TypeOK
<1>1. ASSUME NEW w \in Workers, CloseBuffer(w), cur[w] = r
      PROVE  Submitted(r)' /\ HeldAt(r, {"retiring"})'
  <2>1. spc' = spc /\ cur'[w] = r /\ wpc'[w] = "retiring"
    BY <1>0, <1>1 DEF CloseBuffer, WorkerStep, submitVars
  <2> QED
    BY <1>1, <2>1 DEF PlaceInv, SentInv, Placed, Executing, Submitted, HeldAt, Holds
<1>2. CASE bufs[r] = "closed"
  <2>1. Submitted(r) /\ ~Send(r)
    BY <1>2 DEF ClosedInv, Submitted, Send, SubmitStep
  <2>2. Submitted(r)' /\ (Placed(r)' => Placed(r))
    BY <2>1, Moves, PlacedBefore
  <2>3. ASSUME NEW w \in Workers, Holds(w, r), wpc[w] = "retiring", Placed(r)'
        PROVE  HeldAt(r, {"retiring"})'
    <3>1. CASE Worker(w)
      <4>1. /\ jobs' = jobs /\ cur' = [cur EXCEPT ![w] = NoRun]
        BY <2>3, <3>1 DEF Worker, WorkerStep, Take, WorkerExit, CheckFlag, Arm, MarkRunning,
                Launch, LaunchFails, RecordPid, ExecuteReturns, Finish, CloseBuffer, Retire,
                WorkerPersists
      <4>2. ~Waiting(r) /\ \A v \in Workers : v # w => cur[v] # r
        BY <2>3 DEF PlaceInv, OneHolder, Holds
      <4>3. \A v \in Workers : cur'[v] = IF v = w THEN NoRun ELSE cur[v]
        BY <1>0, <4>1
      <4> QED
        BY <2>3, <4>1, <4>2, <4>3 DEF Placed, Waiting, Executing
    <3>2. CASE wpc'[w] = wpc[w] /\ cur'[w] = cur[w]
      BY <2>3, <3>2 DEF HeldAt, Holds
    <3> QED
      BY <3>1, <3>2, Phases
  <2> QED
    BY <1>2, <2>2, <2>3 DEF ClosedInv, HeldAt
<1>3. ASSUME bufs[r] # "closed" PROVE \E w \in Workers : CloseBuffer(w) /\ cur[w] = r
  <2>1. ASSUME NEW s \in Runs, Register(s) \/ Unregister(s) PROVE FALSE
    BY <1>0, <1>3, <2>1 DEF Register, Unregister
  <2>2. ASSUME NEW w \in Workers, Retire(w) PROVE FALSE
    BY <1>3, <2>2 DEF Retire
  <2>3. ASSUME NEW w \in Workers, CloseBuffer(w) PROVE cur[w] = r
    BY <1>0, <1>3, <2>3 DEF CloseBuffer
  <2> QED
    BY <1>3, <2>1, <2>2, <2>3, Handlers
<1> QED
  BY <1>1, <1>2, <1>3

(* What the buffers tell of a run, from the invariants of the queue.       *)
LEMMA ReachableByInv ==
  ASSUME Typed, PlaceInv, ReachInv, ClosedInv,
         \A r \in Runs : Placed(r) => Known(r),
         \A r \in Runs : bufs[r] = "closed" /\ Settled(r) => Terminal(mem[r].state)
  PROVE  ReachableWhileLive
<1> SUFFICES ASSUME NEW r \in Runs
             PROVE  /\ Waiting(r) \/ HeldAt(r, Holding) =>
                         r \in live /\ bufs[r] # "none" /\ Known(r)
                    /\ Waiting(r) \/ HeldAt(r, Holding \ {"retiring"}) => bufs[r] = "open"
                    /\ bufs[r] = "closed" => Terminal(mem[r].state)
  BY DEF ReachableWhileLive
<1>0. bufs \in [Runs -> {"none", "open", "closed"}]
  BY DEF Typed, TypeOK
<1>1. ASSUME Waiting(r) \/ HeldAt(r, Holding)
      PROVE  r \in live /\ bufs[r] # "none" /\ Known(r) /\ Placed(r)
  <2>1. Placed(r)
    BY <1>1, BusyIsExecuting DEF Placed
  <2> QED
    BY <2>1 DEF ReachInv
<1>2. ASSUME bufs[r] = "closed"
      PROVE  ~Waiting(r) /\ ~HeldAt(r, Holding \ {"retiring"}) /\ Terminal(mem[r].state)
  <2>1. Submitted(r) /\ (Placed(r) => HeldAt(r, {"retiring"}))
    BY <1>2 DEF ClosedInv
  <2>2. ~Waiting(r) /\ ~HeldAt(r, Holding \ {"retiring"})
    <3>1. CASE ~Placed(r)
      BY <1>1, <3>1 DEF HeldAt
    <3>2. ASSUME NEW w \in Workers, Holds(w, r), wpc[w] = "retiring"
          PROVE  ~Waiting(r) /\ ~HeldAt(r, Holding \ {"retiring"})
      BY <3>2 DEF PlaceInv, OneHolder, HeldAt, Holds
    <3> QED
      BY <2>1, <3>1, <3>2 DEF HeldAt
  <2>3. Settled(r)
    BY <2>1, <2>2 DEF Settled, HeldAt, Holding, Unfinished
  <2> QED
    BY <1>2, <2>2, <2>3
<1> QED
  BY <1>0, <1>1, <1>2 DEF HeldAt

-----------------------------------------------------------------------------
(* Running runs are supervised, and settled runs are terminal.             *)

LEMMA RunningStep ==
  ASSUME Typed, RunningIsSupervised, [Next]_vars
  PROVE  RunningIsSupervised'
<1> SUFFICES ASSUME NEW r \in Runs, mem'[r].state = "running" PROVE HeldAt(r, Marked)'
  BY DEF RunningIsSupervised
<1>1. mem[r].state = "running" \/ \E w \in Workers : MarkRunning(w) /\ cur[w] = r
  <2>1. AddRun(r) => mem'[r].state = "queued"
    BY DEF AddRun, Update, Fresh, Absent, Typed, TypeOK, StoreTypeOK
  <2>2. Refuse(r) => mem'[r].state = "errored"
    <3>1. mem[r] \in Records
      BY DEF Typed, TypeOK, StoreTypeOK
    <3>2. Refuse(r) => mem'[r] = [mem[r] EXCEPT !.state = "errored", !.error = "queue full"]
      BY DEF Refuse, Update, Typed, TypeOK, StoreTypeOK
    <3> QED
      BY <3>1, <3>2 DEF Records
  <2>3. ASSUME NEW w \in Workers, Finish(w), cur[w] = r PROVE FALSE
    BY <2>3, FinishState DEF Terminal, TerminalStates
  <2> QED
    BY <2>1, <2>2, <2>3, StateMoves
<1>2. ASSUME NEW w \in Workers, MarkRunning(w), cur[w] = r PROVE HeldAt(r, Marked)'
  BY <1>2 DEF MarkRunning, WorkerStep, Typed, TypeOK, HeldAt, Holds, Marked
<1>3. ASSUME NEW v \in Workers, Holds(v, r), wpc[v] \in Marked, ~Finish(v)
      PROVE  cur'[v] = r /\ wpc'[v] \in Marked
  <2>1. CASE Worker(v)
    BY <1>3, <2>1 DEF Holds, Marked, Typed, TypeOK, Worker, WorkerStep, Take, WorkerExit,
            CheckFlag, Arm, MarkRunning, Launch, LaunchFails, RecordPid, ExecuteReturns,
            CloseBuffer, Retire, WorkerPersists
  <2> QED
    BY <1>3, <2>1, Phases DEF Holds
<1>4. CASE mem[r].state = "running"
  <2>1. PICK v \in Workers : Holds(v, r) /\ wpc[v] \in Marked
    BY <1>4 DEF RunningIsSupervised, HeldAt
  <2>2. ~Finish(v)
    BY <2>1, FinishState DEF Holds, Terminal, TerminalStates
  <2> QED
    BY <1>3, <2>1, <2>2 DEF HeldAt, Holds
<1> QED
  BY <1>1, <1>2, <1>4

(***************************************************************************)
(* A run that reads "running" is in the hands of a worker that has yet to  *)
(* finalise it (execute and finish): none stays in "running".              *)
(***************************************************************************)
THEOREM Supervised == Spec => []RunningIsSupervised
<1>1. Init => RunningIsSupervised
  BY DEF Init, StoreInit, Absent, RunningIsSupervised
<1>2. Typed /\ RunningIsSupervised /\ [Next]_vars => RunningIsSupervised'
  BY RunningStep
<1> QED
  BY <1>1, <1>2, PlaceAlways, PTL DEF Spec

(* Only the send makes a run submitted. *)
LEMMA SentBySend ==
  ASSUME Typed, [Next]_vars, NEW r \in Runs, Submitted(r)'
  PROVE  Submitted(r) \/ Send(r)
<1> USE DEF Typed, TypeOK
<1>1. ASSUME NEW s \in Runs, AddRun(s) \/ Submitter(s) PROVE Submitted(r) \/ Send(r)
  BY <1>1 DEF AddRun, Submitter, AddPersists, Register, Send, FindFull, Unregister, Refuse,
          RefusePersists, SendPanics, Acknowledge, SubmitStep, Submitted
<1>2. ASSUME NEW c \in Cancels, Canceller(c) \/ \E s \in Runs : CancelGet(c, s)
      PROVE  spc' = spc
  BY <1>2 DEF Canceller, CancelGet, CancelFlag, CancelSignal, CancelRecord, CancelPersists,
          submitVars
<1>3. ASSUME NEW w \in Workers, Worker(w) PROVE spc' = spc
  BY <1>3 DEF Worker, WorkerExit, Take, CheckFlag, Arm, MarkRunning, Launch, LaunchFails,
          RecordPid, ExecuteReturns, Finish, CloseBuffer, Retire, WorkerPersists, submitVars
<1>4. Signal \/ Stop \/ UNCHANGED vars => spc' = spc
  BY DEF Signal, Stop, vars, submitVars
<1>5. spc' = spc => Submitted(r)
  BY DEF Submitted
<1> QED
  BY <1>1, <1>2, <1>3, <1>4, <1>5 DEF Next, Rest

LEMMA SettledStep ==
  ASSUME Typed, PlaceInv, SettledIsTerminal, [Next]_vars
  PROVE  SettledIsTerminal'
<1> SUFFICES ASSUME NEW r \in Runs, Settled(r)' PROVE Terminal(mem'[r].state)
  BY DEF SettledIsTerminal, Terminal
<1>1. jobs \in Seq(Runs) /\ cur \in [Workers -> Runs \union {NoRun}] /\ spc \in [Runs -> SubmitPCs]
  BY DEF Typed, TypeOK
<1>2. ASSUME NEW w \in Workers, Finish(w), cur[w] = r PROVE Terminal(mem'[r].state)
  BY <1>2, FinishState
<1>3. ASSUME NEW w \in Workers, MarkRunning(w), cur[w] = r PROVE FALSE
  <2>1. wpc'[w] = "marked" /\ cur'[w] = r
    BY <1>3 DEF MarkRunning, WorkerStep, Typed, TypeOK
  <2> QED
    BY <2>1 DEF Settled, HeldAt, Holds, Unfinished
<1>4. CASE Settled(r)
  <2>1. Terminal(mem[r].state) /\ Submitted(r)
    BY <1>4 DEF SettledIsTerminal, Settled
  <2>2. ~AddRun(r) /\ ~Refuse(r)
    BY <2>1 DEF Submitted, AddRun, Refuse, SubmitStep
  <2>3. Terminal("cancelled")
    BY DEF Terminal, TerminalStates
  <2> QED
    BY <1>2, <1>3, <2>1, <2>2, <2>3, StateMoves
<1>5. CASE ~Submitted(r)
  <2>1. ~Waiting(r)' /\ Submitted(r)'
    BY DEF Settled
  <2>2. ~Send(r)
    BY <1>1, <2>1, WaitingAfterSend DEF Send
  <2> QED
    BY <1>5, <2>1, <2>2, SentBySend
<1>6. CASE Waiting(r)
  <2>1. ~Waiting(r)' /\ ~HeldAt(r, Unfinished)'
    BY DEF Settled
  <2>2. PICK w \in Workers : Take(w)
    <3>1. jobs' # jobs
      BY <1>6, <2>1 DEF Waiting
    <3>2. ASSUME NEW s \in Runs, Send(s) PROVE FALSE
      BY <1>1, <1>6, <2>1, <3>2, WaitingAfterSend DEF Send
    <3>3. ASSUME NEW w \in Workers, Retire(w) PROVE FALSE
      BY <3>1, <3>3 DEF Retire
    <3> QED
      BY <3>1, <3>2, <3>3, Moves
  <2>3. /\ jobs # <<>> /\ jobs' = Tail(jobs) /\ cur' = [cur EXCEPT ![w] = Head(jobs)]
        /\ wpc'[w] = "taken"
    BY <2>2 DEF Take, WorkerStep, Typed, TypeOK
  <2>4. r = Head(jobs)
    BY <1>1, <1>6, <2>1, <2>3, WaitingAfterReceive
  <2>5. cur'[w] = r
    BY <1>1, <2>3, <2>4
  <2> QED
    BY <2>1, <2>3, <2>5 DEF HeldAt, Holds, Unfinished
<1>7. ASSUME NEW v \in Workers, Holds(v, r), wpc[v] \in Unfinished
      PROVE  Terminal(mem'[r].state)
  <2>1. ~(cur'[v] = r /\ wpc'[v] \in Unfinished)
    BY DEF Settled, HeldAt, Holds
  <2>2. CASE Worker(v) /\ ~Finish(v)
    <3>1. cur'[v] = r /\ wpc'[v] \in Unfinished
      BY <1>7, <2>2 DEF Holds, Unfinished, Typed, TypeOK, Worker, WorkerStep, Take, WorkerExit,
              CheckFlag, Arm, MarkRunning, Launch, LaunchFails, RecordPid, ExecuteReturns,
              CloseBuffer, Retire, WorkerPersists
    <3> QED
      BY <2>1, <3>1
  <2> QED
    BY <1>2, <1>7, <2>1, <2>2, Phases DEF Holds
<1> QED
  BY <1>4, <1>5, <1>6, <1>7 DEF Settled, HeldAt

(***************************************************************************)
(* A finalised run is in a terminal state and every later write leaves it  *)
(* in one (finish against a late Cancel).                                  *)
(***************************************************************************)
THEOREM SettledForGood == Spec => []SettledIsTerminal
<1>1. Init => SettledIsTerminal
  BY DEF Init, QueueInit, SettledIsTerminal, Settled, Submitted
<1>2. Typed /\ PlaceInv /\ SettledIsTerminal /\ [Next]_vars => SettledIsTerminal'
  BY SettledStep
<1> QED
  BY <1>1, <1>2, PlaceAlways, PTL DEF Spec

(* A refusal overwrites "queued", and nothing brings it back.              *)
RejectedInv ==
  \A r \in Runs : spc[r] \in {"refused", "rejected"} => mem[r].state # "queued"

LEMMA RejectedStep ==
  ASSUME Typed, RejectedInv, [Next]_vars
  PROVE  RejectedInv'
<1> SUFFICES ASSUME NEW r \in Runs, spc'[r] \in {"refused", "rejected"}
             PROVE  mem'[r].state # "queued"
  BY DEF RejectedInv
<1>1. mem[r] \in Records /\ StoreTypeOK /\ spc \in [Runs -> SubmitPCs]
  BY DEF Typed, TypeOK, StoreTypeOK
<1>2. spc[r] \in {"refused", "rejected"} \/ Refuse(r)
  <2>1. ASSUME NEW s \in Runs, AddRun(s) \/ Submitter(s)
        PROVE  spc[r] \in {"refused", "rejected"} \/ Refuse(r)
    BY <1>1, <2>1 DEF AddRun, Submitter, AddPersists, Register, Send, FindFull, Unregister,
            Refuse, RefusePersists, SendPanics, Acknowledge, SubmitStep
  <2>2. ASSUME NEW c \in Cancels, Canceller(c) \/ \E s \in Runs : CancelGet(c, s)
        PROVE  spc' = spc
    BY <2>2 DEF Canceller, CancelGet, CancelFlag, CancelSignal, CancelRecord,
            CancelPersists, submitVars
  <2>3. ASSUME NEW w \in Workers, Worker(w) PROVE spc' = spc
    BY <2>3 DEF Worker, WorkerExit, Take, CheckFlag, Arm, MarkRunning, Launch, LaunchFails,
            RecordPid, ExecuteReturns, Finish, CloseBuffer, Retire, WorkerPersists, submitVars
  <2>4. Signal \/ Stop \/ UNCHANGED vars => spc' = spc
    BY DEF Signal, Stop, vars, submitVars
  <2> QED BY <2>1, <2>2, <2>3, <2>4 DEF Next, Rest
<1>3. CASE Refuse(r)
  <2>1. mem'[r] = [mem[r] EXCEPT !.state = "errored", !.error = "queue full"]
    BY <1>1, <1>3, UpdateState DEF Refuse
  <2> QED BY <1>1, <2>1 DEF Records
<1>4. ASSUME spc[r] \in {"refused", "rejected"} PROVE mem'[r].state # "queued"
  <2>1. mem[r].state # "queued" /\ ~AddRun(r) /\ ~Refuse(r)
    BY <1>4 DEF RejectedInv, AddRun, Refuse, SubmitStep
  <2>2. ASSUME NEW w \in Workers, MarkRunning(w), cur[w] = r PROVE mem'[r].state = "running"
    <3>1. mem'[r] = [mem[r] EXCEPT !.state = "running"]
      BY <1>1, <2>2, UpdateState DEF MarkRunning
    <3> QED BY <1>1, <3>1 DEF Records
  <2>3. ASSUME NEW w \in Workers, Finish(w), cur[w] = r PROVE mem'[r].state # "queued"
    BY <2>3, FinishState DEF Terminal, TerminalStates
  <2> QED BY <2>1, <2>2, <2>3, StateMoves
<1> QED BY <1>2, <1>3, <1>4

(***************************************************************************)
(* No record is forgotten in "queued": its handler has yet to send it, it  *)
(* waits, or a worker has it, save the two cases answered 500 (createRun,  *)
(* Submit, worker).                                                        *)
(***************************************************************************)
THEOREM QueuedForAReason == Spec => []QueuedIsPending
<1>1. Init => SettledIsTerminal /\ RejectedInv
  BY DEF Init, QueueInit, SettledIsTerminal, Settled, Submitted, RejectedInv
<1>2. Typed /\ PlaceInv /\ SettledIsTerminal /\ RejectedInv /\ [Next]_vars
        => (SettledIsTerminal /\ RejectedInv)'
  BY SettledStep, RejectedStep
<1>3. SettledIsTerminal /\ RejectedInv => QueuedIsPending
  <2> SUFFICES ASSUME SettledIsTerminal, RejectedInv, NEW r \in Runs,
                      mem[r].state = "queued", ~Waiting(r), ~HeldAt(r, Unfinished)
               PROVE  spc[r] \notin {"sent", "acked", "rejected"}
    BY DEF QueuedIsPending
  <2>1. ~Terminal(mem[r].state)
    BY DEF Terminal, TerminalStates
  <2>2. ~Submitted(r)
    BY <2>1 DEF SettledIsTerminal, Settled
  <2> QED BY <2>2 DEF Submitted, RejectedInv
<1> QED
  BY <1>1, <1>2, <1>3, PlaceAlways, PTL DEF Spec

(***************************************************************************)
(* A waiting or executing run can be found by cancel and by getLog, and    *)
(* its buffer is closed after it reads as finished and before it is let go *)
(* of (Submit, finish).                                                    *)
(***************************************************************************)
THEOREM Reachable == Spec => []ReachableWhileLive
<1>1. Init => ReachInv /\ RefusedInv /\ ClosedInv
  <2>1. Init => \A r \in Runs : ~Placed(r) /\ spc[r] = "new" /\ bufs[r] = "none"
    BY DEF Init, QueueInit, Placed, Waiting, Executing
  <2> QED
    BY <2>1 DEF ReachInv, RefusedInv, ClosedInv
<1>2. Typed /\ PlaceInv /\ ReachInv /\ RefusedInv /\ ClosedInv /\ [Next]_vars
        => (ReachInv /\ RefusedInv /\ ClosedInv)'
  BY MapsStep, ClosedStep
<1>3. Typed /\ KnownInv /\ PlaceInv /\ ReachInv /\ ClosedInv /\ SettledIsTerminal
        => ReachableWhileLive
  <2>1. PlaceInv /\ KnownInv => \A r \in Runs : Placed(r) => Known(r)
    BY DEF PlaceInv, SentInv, Submitted, KnownInv
  <2> QED
    BY <2>1, ReachableByInv DEF SettledIsTerminal
<1> QED
  BY <1>1, <1>2, <1>3, PlaceAlways, SettledForGood, PTL DEF Spec

-----------------------------------------------------------------------------
(* Refused runs, and the processes there can be.                           *)

(* Only the worker that holds a run starts or ends its process.            *)
LEMMA ProcMoves ==
  ASSUME Typed, [Next]_vars, NEW r \in Runs
  PROVE  proc'[r] = proc[r] \/ Executing(r)
<1>1. ASSUME NEW s \in Runs, AddRun(s) \/ Submitter(s) PROVE proc' = proc
  BY <1>1 DEF AddRun, Submitter, AddPersists, Register, Send, FindFull, Unregister, Refuse,
          RefusePersists, SendPanics, Acknowledge, queueVars
<1>2. ASSUME NEW c \in Cancels, Canceller(c) \/ \E s \in Runs : CancelGet(c, s)
      PROVE  proc' = proc
  BY <1>2 DEF Canceller, CancelGet, CancelFlag, CancelSignal, CancelRecord, CancelPersists,
          queueVars
<1>3. ASSUME NEW w \in Workers, Worker(w)
      PROVE  proc'[r] = proc[r] \/ cur[w] = r
  BY <1>3 DEF Typed, TypeOK, Worker, WorkerExit, Take, CheckFlag, Arm, MarkRunning, Launch,
          LaunchFails, RecordPid, ExecuteReturns, Finish, CloseBuffer, Retire, WorkerPersists, queueVars
<1>4. Signal \/ Stop \/ UNCHANGED vars => proc' = proc
  BY DEF Signal, Stop, vars, queueVars
<1> QED
  BY <1>1, <1>2, <1>3, <1>4 DEF Next, Rest, Executing

(* Only a run that was sent has, or had, a process.                        *)
ProcInv == \A r \in Runs : proc[r] # "none" => Submitted(r)

LEMMA ProcStep ==
  ASSUME Typed, PlaceInv, ProcInv, [Next]_vars
  PROVE  ProcInv'
<1> SUFFICES ASSUME NEW r \in Runs, proc'[r] # "none" PROVE Submitted(r)'
  BY DEF ProcInv
<1>1. Submitted(r)
  BY ProcMoves DEF ProcInv, PlaceInv, SentInv, Placed
<1> QED BY <1>1, Moves

(***************************************************************************)
(* A run answered 429 is in neither map, in no queue and at no worker, and *)
(* never had a process (Submit's default branch, createRun).               *)
(***************************************************************************)
THEOREM RefusedForGood == Spec => []RefusedNeverRuns
<1>1. Init => ReachInv /\ RefusedInv /\ ProcInv
  <2>1. Init => \A r \in Runs : ~Placed(r) /\ spc[r] = "new" /\ proc[r] = "none"
    BY DEF Init, QueueInit, Placed, Waiting, Executing
  <2> QED
    BY <2>1 DEF ReachInv, RefusedInv, ProcInv
<1>2. Typed /\ PlaceInv /\ ReachInv /\ RefusedInv /\ ProcInv /\ [Next]_vars
        => (ReachInv /\ RefusedInv /\ ProcInv)'
  BY MapsStep, ProcStep
<1>3. PlaceInv /\ RefusedInv /\ ProcInv => RefusedNeverRuns
  <2> SUFFICES ASSUME PlaceInv, RefusedInv, ProcInv, NEW r \in Runs,
                      spc[r] \in {"refusing", "refused", "rejected"}
               PROVE  /\ r \notin live /\ bufs[r] = "none"
                      /\ ~Waiting(r) /\ ~HeldAt(r, WorkerPCs) /\ proc[r] = "none"
    BY DEF RefusedNeverRuns
  <2>1. ~Submitted(r)
    BY DEF Submitted
  <2>2. ~Placed(r) /\ proc[r] = "none"
    BY <2>1 DEF PlaceInv, SentInv, ProcInv
  <2> QED
    BY <2>2 DEF RefusedInv, Placed, Executing, HeldAt, Holds
<1> QED
  BY <1>1, <1>2, <1>3, PlaceAlways, PTL DEF Spec

-----------------------------------------------------------------------------
(* The queue implements Dispatch.                                          *)

(* A retired run was sent and is in neither place any more. *)
LEMMA RetiredIsGone ==
  ASSUME Typed, NEW r \in Runs
  PROVE  Retired(r) <=> Submitted(r) /\ ~Placed(r)
  BY BusyIsExecuting DEF Retired, Placed

(* ... and so it is after a step. *)
LEMMA RetiredIsGoneNext ==
  ASSUME Typed'
  PROVE  \A r \in Runs : Retired(r)' <=> Submitted(r)' /\ ~Placed(r)'
<1> TAKE r \in Runs
<1>1. (Retired(r) <=> Submitted(r) /\ ~Placed(r))'
  BY RetiredIsGone, PTL
<1> QED BY <1>1

(* The runs that Dispatch calls over. *)
Over == {r \in Runs : Retired(r)}

(* A step that moves no job and sends none retires none. *)
LEMMA OverKept ==
  ASSUME Typed, Typed', \A r \in Runs : Submitted(r)' <=> Submitted(r),
         \A r \in Runs : Placed(r)' <=> Placed(r)
  PROVE  Over' = Over
  BY RetiredIsGone, RetiredIsGoneNext DEF Over

(***************************************************************************)
(* Every step of Queue is a step of Dispatch or none: Send is Accept, Take *)
(* is Begin, Retire is End, Stop is Shut.                                  *)
(***************************************************************************)
LEMMA StepDispatches ==
  ASSUME Typed, Typed', PlaceInv, [Next]_vars
  PROVE  D!Next \/ UNCHANGED D!vars
<1>1. /\ jobs \in Seq(Runs) /\ cur \in [Workers -> Runs \union {NoRun}]
      /\ spc \in [Runs -> SubmitPCs]
  BY DEF Typed, TypeOK
<1>2. ASSUME NEW s \in Runs, Send(s) PROVE D!Accept(s)
  <2>1. /\ jobs' = Append(jobs, s) /\ cur' = cur /\ closed' = closed /\ ~closed
        /\ Len(jobs) < Depth /\ spc[s] = "registered" /\ spc' = [spc EXCEPT ![s] = "sent"]
    BY <1>2 DEF Send, SubmitStep, HasRoom, workerVars
  <2>2. ~Submitted(s) /\ ~Placed(s) /\ ~Retired(s)
    BY <2>1 DEF Submitted, PlaceInv, SentInv, Retired
  <2>3. D!Unseen(s)
    BY <2>2 DEF D!Unseen, Placed, Waiting, Executing
  <2>4. \A q \in Runs : /\ Submitted(q)' <=> Submitted(q) \/ q = s
                        /\ Waiting(q)' <=> Waiting(q) \/ q = s
                        /\ Executing(q)' <=> Executing(q)
    <3> TAKE q \in Runs
    <3>1. Waiting(q)' <=> Waiting(q) \/ q = s
      BY <1>1, <2>1, WaitingAfterSend
    <3> QED BY <1>1, <2>1, <3>1 DEF Submitted, Executing
  <2>5. Over' = Over
    <3>1. \A q \in Runs : Retired(q)' <=> Submitted(q)' /\ ~Placed(q)'
      BY RetiredIsGoneNext
    <3> QED BY <2>2, <2>4, <3>1, RetiredIsGone DEF Over, Placed
  <2> QED BY <2>1, <2>3, <2>5 DEF D!Accept, Over
<1>3. ASSUME NEW w \in Workers, Take(w) PROVE D!Begin(w)
  <2>1. /\ jobs # <<>> /\ jobs' = Tail(jobs) /\ cur' = [cur EXCEPT ![w] = Head(jobs)]
        /\ closed' = closed /\ spc' = spc /\ wpc[w] = "idle"
    BY <1>3 DEF Take, WorkerStep, submitVars
  <2>2. cur[w] = NoRun
    BY <2>1 DEF Typed, WorkerInv
  <2>3. \A q \in Runs : Placed(q)' <=> Placed(q)
    <3> TAKE q \in Runs
    <3>1. /\ Waiting(Head(jobs)) /\ Head(jobs) \in Runs /\ (Waiting(q)' => Waiting(q))
          /\ (Waiting(q) => Waiting(q)' \/ q = Head(jobs))
      BY <1>1, <2>1, WaitingAfterReceive
    <3>2. \A v \in Workers : cur'[v] = IF v = w THEN Head(jobs) ELSE cur[v]
      BY <1>1, <2>1
    <3>3. Executing(q)' <=> Executing(q) \/ q = Head(jobs)
      BY <2>2, <3>2 DEF Executing
    <3> QED BY <3>1, <3>3 DEF Placed
  <2>4. Over' = Over
    BY <2>1, <2>3, OverKept DEF Submitted
  <2> QED BY <2>1, <2>2, <2>4 DEF D!Begin, Over
<1>4. ASSUME NEW w \in Workers, Retire(w) PROVE D!End(w)
  <2>1. /\ jobs' = jobs /\ closed' = closed /\ spc' = spc
        /\ cur' = [cur EXCEPT ![w] = NoRun] /\ wpc[w] = "retiring"
    BY <1>4 DEF Retire, WorkerStep, submitVars
  <2>2. cur[w] \in Runs /\ cur[w] # NoRun
    BY <2>1 DEF Typed, WorkerInv
  <2>3. Submitted(cur[w]) /\ ~Waiting(cur[w]) /\ \A v \in Workers : v # w => cur[v] # cur[w]
    BY <2>2 DEF PlaceInv, SentInv, Placed, Executing, OneHolder
  <2>4. \A v \in Workers : cur'[v] = IF v = w THEN NoRun ELSE cur[v]
    BY <1>1, <2>1
  <2>5. \A q \in Runs : /\ Submitted(q)' <=> Submitted(q)
                        /\ Placed(q)' <=> Placed(q) /\ q # cur[w]
    BY <2>1, <2>3, <2>4 DEF Submitted, Placed, Waiting, Executing
  <2>6. Over' = Over \union {cur[w]}
    <3>1. \A q \in Runs : Retired(q)' <=> Submitted(q)' /\ ~Placed(q)'
      BY RetiredIsGoneNext
    <3> QED BY <2>2, <2>3, <2>5, <3>1, RetiredIsGone DEF Over
  <2> QED BY <2>1, <2>2, <2>6 DEF D!End, Over
<1>5. ASSUME UNCHANGED <<jobs, cur>>, \A r \in Runs : Submitted(r)' <=> Submitted(r)
      PROVE  Over' = Over
  BY <1>5, OverKept DEF Placed, Waiting, Executing
<1>6. ASSUME UNCHANGED <<jobs, cur, closed>>, \A r \in Runs : ~Send(r)
      PROVE  UNCHANGED D!vars
  <2>1. \A r \in Runs : Submitted(r)' <=> Submitted(r)
    BY <1>6, Moves, SentBySend
  <2> QED BY <1>5, <1>6, <2>1 DEF D!vars, Over
<1>7. ASSUME Stop PROVE D!Shut
  <2>1. UNCHANGED <<jobs, cur, spc>> /\ ~closed /\ closed' = TRUE
    BY <1>7 DEF Stop, workerVars, submitVars
  <2> QED BY <1>5, <2>1 DEF D!Shut, Over, Submitted
<1>8. Stop \/ closed' = closed
  <2>1. ASSUME NEW s \in Runs, AddRun(s) \/ Submitter(s) PROVE closed' = closed
    BY <2>1 DEF AddRun, Submitter, AddPersists, Register, Send, FindFull, Unregister, Refuse,
            RefusePersists, SendPanics, Acknowledge, queueVars
  <2>2. ASSUME NEW c \in Cancels, Canceller(c) \/ \E s \in Runs : CancelGet(c, s)
        PROVE  closed' = closed
    BY <2>2 DEF Canceller, CancelGet, CancelFlag, CancelSignal, CancelRecord,
            CancelPersists, queueVars
  <2>3. ASSUME NEW w \in Workers, Worker(w) PROVE closed' = closed
    BY <2>3 DEF Worker, WorkerExit, Take, CheckFlag, Arm, MarkRunning, Launch, LaunchFails,
            RecordPid, ExecuteReturns, Finish, CloseBuffer, Retire, WorkerPersists, queueVars
  <2>4. Signal \/ UNCHANGED vars => closed' = closed
    BY DEF Signal, vars, queueVars
  <2> QED BY <2>1, <2>2, <2>3, <2>4 DEF Next, Rest
<1>9. CASE \E r \in Runs : Send(r)
  BY <1>2, <1>9 DEF D!Next
<1>10. CASE \E w \in Workers : Take(w) \/ Retire(w)
  BY <1>3, <1>4, <1>10 DEF D!Next
<1>11. CASE Stop
  BY <1>7, <1>11 DEF D!Next
<1> QED
  BY <1>6, <1>8, <1>9, <1>10, <1>11, Moves

(***************************************************************************)
(* The queue is the bounded FIFO with a fixed pool that its comment says   *)
(* (queue.go:30-32), each run begun once and in the order of acceptance.   *)
(***************************************************************************)
THEOREM RefinesDispatch == Spec => ImplementsDispatch
<1>1. Init => D!Init
  <2> SUFFICES ASSUME Init PROVE D!Init
    OBVIOUS
  <2>1. \A r \in Runs : ~Retired(r)
    BY DEF Init, QueueInit, Retired, Submitted
  <2> QED BY <2>1 DEF Init, QueueInit, D!Init
<1>2. Typed /\ Typed' /\ PlaceInv /\ [Next]_vars => [D!Next]_(D!vars)
  BY StepDispatches
<1> QED
  BY <1>1, <1>2, PlaceAlways, PTL DEF Spec, ImplementsDispatch, D!Spec
=============================================================================
