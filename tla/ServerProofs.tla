---------------------------- MODULE ServerProofs ----------------------------
(***************************************************************************)
(* Theorems about Server, for every number of runs, workers, cancel        *)
(* requests and crashes.                                                   *)
(*                                                                         *)
(* The inductive invariant separates the runs of an earlier life, which    *)
(* only a recovery touches, from those of this one, for which the lemmas   *)
(* about a step of Queue hold as they stand.  It has two halves:           *)
(* ServerInv, on what a restart keeps, and KeepInv, on what Queue keeps    *)
(* through restarts.                                                       *)
(***************************************************************************)
EXTENDS Server, QueueStoreProofs

USE QueueAssumption, ServerAssumption

-----------------------------------------------------------------------------
(* More about a step of Queue. *)

(* An answered submission stays answered; AddRun alone begins one.         *)
LEMMA SubmitMoves ==
  ASSUME Typed, [Next]_vars, NEW r \in Runs
  PROVE  /\ spc[r] \in SubmitEnds => spc'[r] = spc[r]
         /\ spc'[r] = "new" => spc[r] = "new"
<1> DEFINE Goal == /\ spc[r] \in SubmitEnds => spc'[r] = spc[r]
                   /\ spc'[r] = "new" => spc[r] = "new"
<1>1. ASSUME NEW s \in Runs, AddRun(s) \/ Submitter(s) PROVE Goal
  BY <1>1 DEF Typed, TypeOK, SubmitEnds, AddRun, Submitter, AddPersists, Register, Send,
          FindFull, Unregister, Refuse, RefusePersists, SendPanics, Acknowledge, SubmitStep
<1>2. ASSUME NEW c \in Cancels, Canceller(c) \/ \E s \in Runs : CancelGet(c, s)
      PROVE  spc' = spc
  BY <1>2 DEF Canceller, CancelGet, CancelFlag, CancelSignal, CancelRecord, CancelPersists,
          submitVars
<1>3. ASSUME NEW w \in Workers, Worker(w) PROVE spc' = spc
  BY <1>3 DEF Worker, WorkerExit, Take, CheckFlag, Arm, MarkRunning, Launch, LaunchFails,
          RecordPid, ExecuteReturns, Finish, CloseBuffer, Retire, WorkerPersists, submitVars
<1>4. Signal \/ Stop \/ UNCHANGED vars => spc' = spc
  BY DEF Signal, Stop, vars, submitVars
<1>5. spc' = spc => Goal
  OBVIOUS
<1> HIDE DEF Goal
<1>6. Goal
  BY <1>1, <1>2, <1>3, <1>4, <1>5 DEF Next, Rest
<1> QED
  BY <1>6 DEF Goal

(* A cancellation under way names the run it found live. *)
Cancelling(c) == cpc[c] \in {"got", "flagged", "recording", "recorded"}

LEMMA CancelMoves ==
  ASSUME Typed, [Next]_vars, NEW c \in Cancels, Cancelling(c)'
  PROVE  \/ Cancelling(c) /\ target'[c] = target[c]
         \/ target'[c] \in Runs /\ mem[target'[c]].state \in LiveStates
<1> DEFINE Goal == \/ Cancelling(c) /\ target'[c] = target[c]
                   \/ target'[c] \in Runs /\ mem[target'[c]].state \in LiveStates
<1>0. cpc \in [Cancels -> CancelPCs] /\ target \in [Cancels -> Runs \union {NoRun}]
  BY DEF Typed, TypeOK
<1>1. ASSUME NEW s \in Runs, AddRun(s) \/ Submitter(s) PROVE UNCHANGED cancelVars
  BY <1>1 DEF AddRun, Submitter, AddPersists, Register, Send, FindFull, Unregister, Refuse,
          RefusePersists, SendPanics, Acknowledge
<1>2. ASSUME NEW d \in Cancels, NEW s \in Runs, CancelGet(d, s) PROVE Goal
  <2>1. CASE d = c
    BY <1>0, <1>2, <2>1 DEF CancelGet, CancelStep, Cancelling
  <2>2. CASE d # c
    BY <1>0, <1>2, <2>2 DEF CancelGet, CancelStep, Cancelling
  <2> QED
    BY <2>1, <2>2
<1>3. ASSUME NEW d \in Cancels, Canceller(d) PROVE Goal
  BY <1>0, <1>3 DEF Canceller, CancelStep, CancelFlag, CancelSignal, CancelRecord,
          CancelPersists, Cancelling
<1>4. ASSUME NEW w \in Workers, Worker(w) PROVE UNCHANGED cancelVars
  BY <1>4 DEF Worker, WorkerExit, Take, CheckFlag, Arm, MarkRunning, Launch, LaunchFails,
          RecordPid, ExecuteReturns, Finish, CloseBuffer, Retire, WorkerPersists
<1>5. Signal \/ Stop \/ UNCHANGED vars => UNCHANGED cancelVars
  BY DEF Signal, Stop, vars
<1>6. UNCHANGED cancelVars => Goal
  BY DEF cancelVars, Cancelling
<1> HIDE DEF Goal
<1>7. Goal
  BY <1>1, <1>2, <1>3, <1>4, <1>5, <1>6 DEF Next, Rest
<1> QED
  BY <1>7 DEF Goal

-----------------------------------------------------------------------------
(* The inductive invariant. *)

(* A handler that has not answered yet works on a run the store knows.     *)
FlightInv == \A r \in Runs : spc[r] \notin {"new"} \union SubmitEnds => Known(r)

(* A run not yet submitted is nowhere in the store. *)
NewInv == \A r \in Runs : spc[r] = "new" => mem[r] = Absent /\ disk[r] = Absent

(* Nobody works on a run of an earlier life: no handler, no worker ...     *)
PastInv == \A r \in Runs : past[r] # "none" => spc[r] \in SubmitEnds /\ ~Placed(r)

(* ... and no cancellation, which had to find it live.                     *)
CancelInv ==
  \A c \in Cancels : Cancelling(c) =>
    past[target[c]] = "none" /\ spc[target[c]] # "new"

(* Recover has been through the directory of this run. *)
Adopted(r) == daemon = "up" \/ scan[r] = "done"

AdoptedInv ==
  \A r \in Runs : past[r] # "none" /\ Adopted(r) => mem[r].state \notin LiveStates

(* Recover meets no run that was not there when the daemon went down, and  *)
(* a swept one has a dead tree, or KillTree failed.                        *)
ScanInv ==
  /\ daemon = "recovering" => \A r \in Runs : past[r] = "none" => spc[r] = "new"
  /\ \A r \in Runs : scan[r] = "swept" =>
       daemon = "recovering" /\ (proc[r] # "alive" \/ r \in spared)

(* No run of this life has the mark of a recovery. *)
CleanInv ==
  /\ \A r \in Runs : past[r] = "none" =>
       mem[r].error # "was errored" /\ disk[r].error # "was errored"
  /\ \A a \in Actors : pend[a].error # "was errored"

(* A run of this life that its worker has written is terminal on disk ...  *)
WrittenInv ==
  ~DiskMayFail => \A r \in Runs : past[r] = "none" /\ Written(r) => Terminal(disk[r].state)

Ended(rec) == Terminal(rec.state) /\ rec.error # "was errored"

(* ... and is taken over as it is. *)
KeptInv ==
  ~DiskMayFail => \A r \in Runs : past[r] = "retired" =>
    Ended(disk[r]) /\ (Adopted(r) => Ended(mem[r]))

RecoveryTypeOK ==
  /\ daemon \in {"up", "recovering"}
  /\ scan \in [Runs -> {"none", "todo", "swept", "done"}]
  /\ spared \in SUBSET Runs
  /\ past \in [Runs -> {"none", "cut", "retired"}]
  /\ crashes \in 0..MaxCrashes

ServerInv ==
  /\ Typed /\ RecoveryTypeOK /\ FlightInv /\ PlaceInv /\ CopyInv
  /\ NewInv /\ PastInv /\ CancelInv /\ AdoptedInv /\ ScanInv /\ CleanInv
  /\ GivenUpTreesAreDead /\ WrittenInv /\ KeptInv

LEMMA ServerInvInit == ServerInit => ServerInv
<1> SUFFICES ASSUME ServerInit PROVE ServerInv
  OBVIOUS
<1>1. Init /\ daemon = "up" /\ crashes = 0 /\ spared = {}
      /\ scan = [r \in Runs |-> "none"] /\ past = [r \in Runs |-> "none"]
  BY DEF ServerInit
<1>2. Typed /\ KnownInv /\ PlaceInv
  BY <1>1, TypedInit, PlaceInit
<1>3. RecoveryTypeOK
  BY <1>1 DEF RecoveryTypeOK
<1>4. /\ \A r \in Runs : spc[r] = "new" /\ mem[r] = Absent /\ disk[r] = Absent
      /\ \A a \in Actors : pend[a] = Absent
      /\ \A c \in Cancels : cpc[c] = "new"
      /\ \A w \in Workers : wpc[w] = "idle"
      /\ \A r \in Runs : past[r] = "none" /\ scan[r] = "none"
  BY <1>1 DEF Init, StoreInit, QueueInit
<1>5. Absent.error # "was errored"
  BY DEF Absent
<1>6. FlightInv /\ NewInv /\ CopyInv
  BY <1>4 DEF FlightInv, NewInv, CopyInv
<1>7. PastInv /\ CancelInv /\ AdoptedInv /\ ScanInv
  BY <1>1, <1>4 DEF PastInv, CancelInv, Cancelling, AdoptedInv, ScanInv
<1>8. CleanInv /\ GivenUpTreesAreDead
  BY <1>4, <1>5 DEF CleanInv, GivenUpTreesAreDead
<1>9. WrittenInv /\ KeptInv
  BY <1>4 DEF WrittenInv, KeptInv, Written, Submitted
<1> QED
  BY <1>2, <1>3, <1>6, <1>7, <1>8, <1>9 DEF ServerInv

-----------------------------------------------------------------------------
(* While the daemon is up. *)

(* No step of Queue touches a run of an earlier life. *)
LEMMA PastFrozen ==
  ASSUME Typed, PastInv, CancelInv, [Next]_vars, NEW r \in Runs, past[r] # "none"
  PROVE  /\ mem'[r] = mem[r] /\ disk'[r] = disk[r] /\ proc'[r] = proc[r]
         /\ spc'[r] = spc[r] /\ ~Placed(r)'
<1>1. spc[r] \in SubmitEnds /\ ~Placed(r) /\ ~Executing(r)
  BY DEF PastInv, Placed
<1>2. \A c \in Cancels : Cancelling(c) => target[c] # r
  BY DEF CancelInv
<1>3. mem'[r] = mem[r]
  <2>1. ~AddRun(r) /\ ~Refuse(r)
    BY <1>1 DEF AddRun, Refuse, SubmitStep, SubmitEnds
  <2>2. \A c \in Cancels : ~(CancelRecord(c) /\ target[c] = r)
    BY <1>2 DEF CancelRecord, CancelStep, Cancelling
  <2> QED
    BY <1>1, <2>1, <2>2, MemMoves DEF Executing
<1>4. disk'[r] = disk[r]
  <2>1. \A a \in Actors : ~Writes(a, r)
    BY <1>1, <1>2 DEF Writes, SubmitEnds, Executing, Cancelling
  <2> QED
    BY <2>1, DiskMoves
<1>5. ~Send(r)
  BY <1>1 DEF Send, SubmitStep, SubmitEnds
<1> QED
  BY <1>1, <1>3, <1>4, <1>5, ProcMoves, SubmitMoves, PlacedBefore

(* The record of a run of this life is changed by nothing that marks it.   *)
LEMMA CleanStep ==
  ASSUME Typed, PlaceInv, NewInv, PastInv, CancelInv, CleanInv, [Next]_vars, UNCHANGED past
  PROVE  CleanInv'
<1>0. StoreTypeOK /\ WorkerInv /\ TargetInv
  BY DEF Typed, TypeOK
<1>1. ASSUME NEW r \in Runs, past[r] = "none" PROVE mem'[r].error # "was errored"
  <2>0. mem[r] \in Records /\ mem[r].error # "was errored"
    BY <1>0, <1>1 DEF StoreTypeOK, CleanInv
  <2>1. CASE AddRun(r)
    <3>1. mem'[r] = Fresh
      BY <1>0, <2>1, UpdateState DEF AddRun
    <3> QED
      BY <3>1 DEF Fresh, Absent
  <2>2. CASE Refuse(r)
    <3>1. mem'[r] = [mem[r] EXCEPT !.state = "errored", !.error = "queue full"]
      BY <1>0, <2>2, UpdateState DEF Refuse
    <3> QED
      BY <2>0, <3>1 DEF Records
  <2>3. ASSUME NEW c \in Cancels, CancelRecord(c), target[c] = r
        PROVE  mem'[r].error # "was errored"
    <3>1. mem'[r] = [mem[r] EXCEPT !.state = "cancelled", !.ended = TRUE]
      BY <1>0, <2>3, UpdateState DEF CancelRecord
    <3> QED
      BY <2>0, <3>1 DEF Records
  <2>4. ASSUME NEW w \in Workers, MarkRunning(w), cur[w] = r
        PROVE  mem'[r].error # "was errored"
    <3>1. mem'[r] = [mem[r] EXCEPT !.state = "running"]
      BY <1>0, <2>4, UpdateState DEF MarkRunning
    <3> QED
      BY <2>0, <3>1 DEF Records
  <2>5. ASSUME NEW w \in Workers, RecordPid(w), cur[w] = r
        PROVE  mem'[r].error # "was errored"
    <3>1. mem'[r] = [mem[r] EXCEPT !.pid = TRUE]
      BY <1>0, <2>5, UpdateState DEF RecordPid
    <3> QED
      BY <2>0, <3>1 DEF Records
  <2>6. ASSUME NEW w \in Workers, Finish(w), cur[w] = r
        PROVE  mem'[r].error # "was errored"
    <3> DEFINE rec == FinalRecord(mem[r], outcome[w], proc[r] = "exited")
    <3>1. mem'[r] = rec
      BY <1>0, <2>6, UpdateState DEF Finish
    <3>2. rec.error \in {"exec", mem[r].error}
      BY DEF FinalRecord
    <3> HIDE DEF rec
    <3> QED
      BY <2>0, <3>1, <3>2
  <2> QED
    BY <2>0, <2>1, <2>2, <2>3, <2>4, <2>5, <2>6, MemMoves
<1>2. ASSUME NEW r \in Runs, past[r] = "none" PROVE disk'[r].error # "was errored"
  <2>1. ASSUME NEW a \in Actors, Persist(a, r) PROVE disk'[r].error # "was errored"
    <3>1. pend[a] \in Records /\ disk'[r] = ToMeta(pend[a]) /\ pend[a].error # "was errored"
      BY <1>0, <2>1 DEF StoreTypeOK, Persist, CleanInv
    <3> QED
      BY <3>1 DEF ToMeta, Records
  <2>2. disk[r].error # "was errored"
    BY <1>2 DEF CleanInv
  <2> QED
    BY <2>1, <2>2, DiskMoves
<1>3. ASSUME NEW a \in Actors PROVE pend'[a].error # "was errored"
  <2>1. Absent.error # "was errored" /\ pend[a].error # "was errored"
    BY DEF Absent, CleanInv
  <2>2. ASSUME NEW r \in Runs, Updates(a, r), Update(a, r, pend'[a])
        PROVE  pend'[a].error # "was errored"
    <3>1. past[r] = "none"
      BY <2>2 DEF Updates, PastInv, CancelInv, Cancelling, SubmitEnds, Placed, Executing
    <3>2. mem'[r] = pend'[a]
      BY <1>0, <2>2, UpdateState
    <3> QED
      BY <1>1, <3>1, <3>2
  <2> QED
    BY <2>1, <2>2, CopyMoves
<1>4. \A r \in Runs : past'[r] = past[r]
  OBVIOUS
<1> QED
  BY <1>1, <1>2, <1>3, <1>4 DEF CleanInv

LEMMA NewStep ==
  ASSUME Typed, PlaceInv, NewInv, CancelInv, [Next]_vars
  PROVE  NewInv'
<1> SUFFICES ASSUME NEW r \in Runs, spc'[r] = "new" PROVE mem'[r] = Absent /\ disk'[r] = Absent
  BY DEF NewInv, Absent
<1>1. spc[r] = "new" /\ mem[r] = Absent /\ disk[r] = Absent
  BY SubmitMoves DEF NewInv
<1>2. ~Executing(r) /\ \A c \in Cancels : Cancelling(c) => target[c] # r
  BY <1>1 DEF PlaceInv, SentInv, Placed, Submitted, CancelInv
<1>3. mem'[r] = mem[r]
  <2>1. ~AddRun(r) /\ ~Refuse(r)
    BY <1>1 DEF AddRun, Refuse, SubmitStep, Typed, TypeOK
  <2>2. \A c \in Cancels : ~(CancelRecord(c) /\ target[c] = r)
    BY <1>2 DEF CancelRecord, CancelStep, Cancelling
  <2> QED
    BY <1>2, <2>1, <2>2, MemMoves DEF Executing
<1>4. disk'[r] = disk[r]
  <2>1. \A a \in Actors : ~Writes(a, r)
    BY <1>1, <1>2 DEF Writes, Executing, Cancelling
  <2> QED
    BY <2>1, DiskMoves
<1> QED
  BY <1>1, <1>3, <1>4

LEMMA ServeStep ==
  ASSUME ServerInv, daemon = "up", [Next]_vars, UNCHANGED recoveryVars
  PROVE  ServerInv'
<1>0. /\ Typed /\ RecoveryTypeOK /\ FlightInv /\ PlaceInv /\ CopyInv
      /\ NewInv /\ PastInv /\ CancelInv /\ AdoptedInv /\ ScanInv /\ CleanInv
      /\ GivenUpTreesAreDead /\ WrittenInv /\ KeptInv
  BY DEF ServerInv
<1>1. UNCHANGED <<daemon, scan, spared, past, crashes>>
  BY DEF recoveryVars
<1>2. \A r \in Runs : past[r] # "none" =>
        /\ mem'[r] = mem[r] /\ disk'[r] = disk[r] /\ proc'[r] = proc[r]
        /\ spc'[r] = spc[r] /\ ~Placed(r)'
  BY <1>0, PastFrozen
<1>3. Typed' /\ PlaceInv' /\ CopyInv' /\ NewInv' /\ CleanInv'
  <2>1. SentKnown
    BY <1>0 DEF FlightInv, SentKnown, SubmitEnds
  <2> QED
    BY <1>0, <1>1, <2>1, TypedStep, PlaceStep, CopyStep, NewStep, CleanStep
<1>4. RecoveryTypeOK'
  BY <1>0, <1>1 DEF RecoveryTypeOK
<1>5. FlightInv'
  <2> SUFFICES ASSUME NEW r \in Runs, spc'[r] \notin {"new"} \union SubmitEnds
               PROVE  Known(r)'
    BY DEF FlightInv
  <2>1. spc[r] \notin SubmitEnds
    BY <1>0, SubmitMoves
  <2> QED
    BY <1>0, <2>1, KnownStays DEF FlightInv
<1>6. PastInv'
  BY <1>0, <1>1, <1>2 DEF PastInv
<1>7. CancelInv'
  <2> SUFFICES ASSUME NEW c \in Cancels, Cancelling(c)'
               PROVE  past[target'[c]] = "none" /\ spc'[target'[c]] # "new"
    BY <1>1 DEF CancelInv
  <2>1. target'[c] \in Runs
    BY <1>3 DEF Typed, TargetInv, Cancelling
  <2>2. CASE Cancelling(c) /\ target'[c] = target[c]
    BY <1>0, <2>1, <2>2, SubmitMoves DEF CancelInv
  <2>3. CASE mem[target'[c]].state \in LiveStates
    <3>1. past[target'[c]] = "none"
      BY <1>0, <2>1, <2>3 DEF AdoptedInv, Adopted
    <3>2. spc[target'[c]] # "new"
      BY <1>0, <2>1, <2>3 DEF NewInv, Absent, LiveStates
    <3> QED
      BY <1>0, <2>1, <3>1, <3>2, SubmitMoves
  <2> QED
    BY <1>0, <2>2, <2>3, CancelMoves
<1>8. AdoptedInv'
  BY <1>0, <1>1, <1>2 DEF AdoptedInv, Adopted
<1>9. ScanInv'
  BY <1>0, <1>1 DEF ScanInv
<1>10. GivenUpTreesAreDead'
  <2> SUFFICES ASSUME NEW r \in Runs \ spared, disk'[r].error = "was errored", disk'[r].pid
               PROVE  proc'[r] # "alive"
    BY <1>1 DEF GivenUpTreesAreDead
  <2>1. past'[r] # "none"
    BY <1>3 DEF CleanInv
  <2>2. disk'[r] = disk[r] /\ proc'[r] = proc[r]
    BY <1>1, <1>2, <2>1
  <2> QED
    BY <1>0, <2>2 DEF GivenUpTreesAreDead
<1>11. WrittenInv'
  <2> SUFFICES ASSUME ~DiskMayFail, NEW r \in Runs, past[r] = "none", Written(r)'
               PROVE  Terminal(disk'[r].state)
    BY <1>1 DEF WrittenInv, Terminal
  <2>1. Written(r) => Terminal(disk[r].state)
    BY <1>0 DEF WrittenInv
  <2> QED
    BY <1>0, <2>1, WrittenStep
<1>12. KeptInv'
  BY <1>0, <1>1, <1>2 DEF KeptInv, Adopted, Ended, Terminal
<1> QED
  BY <1>3, <1>4, <1>5, <1>6, <1>7, <1>8, <1>9, <1>10, <1>11, <1>12 DEF ServerInv

-----------------------------------------------------------------------------
(* The crash. *)

LEMMA CrashStep ==
  ASSUME ServerInv, Crash
  PROVE  ServerInv'
<1>0. /\ Typed /\ RecoveryTypeOK /\ PlaceInv /\ NewInv /\ PastInv /\ CleanInv
      /\ GivenUpTreesAreDead /\ WrittenInv /\ KeptInv
  BY DEF ServerInv
<1>1. /\ daemon' = "recovering" /\ crashes < MaxCrashes /\ crashes' = crashes + 1
      /\ scan' = [r \in Runs |-> "todo"] /\ spared' = spared
      /\ \A r \in Runs : past'[r] = IF past[r] # "none" \/ spc[r] = "new" THEN past[r]
                                    ELSE IF Retired(r) THEN "retired" ELSE "cut"
  BY DEF Crash
<1>2. /\ jobs' = <<>> /\ proc' = proc /\ disk' = disk
      /\ \A r \in Runs : mem'[r] = Absent
      /\ \A a \in Actors : pend'[a] = Absent
      /\ \A w \in Workers : wpc'[w] = "idle" /\ cur'[w] = NoRun
      /\ \A c \in Cancels : cpc'[c] \in {"new", "done"}
      /\ \A r \in Runs : spc'[r] \in {"new"} \union SubmitEnds
                         /\ (spc'[r] = "new" <=> spc[r] = "new")
  BY DEF Crash, LoseMemory, Cut, SubmitEnds
<1>3. Typed'
  <2>1. StoreTypeOK'
    BY <1>0, RecordTypes DEF Typed, TypeOK, StoreTypeOK, Crash, LoseMemory
  <2>2. /\ jobs' \in Seq(Runs) /\ closed' \in BOOLEAN /\ rootDone' \in BOOLEAN
        /\ live' \in SUBSET Runs /\ cancelled' \in SUBSET Runs
        /\ armed' \in SUBSET Runs /\ stopped' \in SUBSET Runs
    <3>1. /\ jobs' = <<>> /\ closed' = FALSE /\ rootDone' = FALSE
          /\ live' = {} /\ cancelled' = {} /\ armed' = {} /\ stopped' = {}
      BY DEF Crash, LoseMemory
    <3>2. <<>> \in Seq(Runs)
      OBVIOUS
    <3> QED
      BY <3>1, <3>2
  <2>3. /\ bufs' \in [Runs -> {"none", "open", "closed"}]
        /\ proc' \in [Runs -> {"none", "alive", "exited"}]
        /\ wpc' \in [Workers -> WorkerPCs]
        /\ cur' \in [Workers -> Runs \union {NoRun}]
        /\ outcome' \in [Workers -> TerminalStates \union {"none"}]
    BY <1>0 DEF Crash, LoseMemory, WorkerPCs, Typed, TypeOK
  <2>4. /\ cpc' \in [Cancels -> CancelPCs]
        /\ target' \in [Cancels -> Runs \union {NoRun}]
        /\ reply' \in [Cancels -> Replies]
        /\ ack' \in [Runs -> States \union {"none"}]
    BY <1>0 DEF Crash, LoseMemory, CancelPCs, Typed, TypeOK
  <2>5. spc' \in [Runs -> SubmitPCs]
    <3>1. \A r \in Runs : Cut[r] \in SubmitPCs
      BY DEF Cut, SubmitEnds, SubmitPCs
    <3> QED
      BY <3>1 DEF Crash, LoseMemory, Cut
  <2>6. WorkerInv'
    BY <1>2 DEF WorkerInv
  <2>7. TargetInv'
    BY <1>0 DEF Crash, LoseMemory, Typed, TypeOK, TargetInv
  <2> QED
    BY <2>1, <2>2, <2>3, <2>4, <2>5, <2>6, <2>7 DEF Typed, TypeOK
<1>4. RecoveryTypeOK'
  <2>1. past' \in [Runs -> {"none", "cut", "retired"}]
    BY <1>0 DEF Crash, RecoveryTypeOK
  <2>2. crashes' \in 0..MaxCrashes
    BY <1>0, <1>1 DEF RecoveryTypeOK
  <2> QED
    BY <1>0, <1>1, <2>1, <2>2 DEF RecoveryTypeOK
<1>5. \A r \in Runs : ~Placed(r)' /\ past'[r] \in {"none", "cut", "retired"}
  BY <1>2, <1>4 DEF Placed, Waiting, Executing, RecoveryTypeOK
<1>6. FlightInv' /\ PlaceInv' /\ CopyInv'
  <2>1. FlightInv'
    BY <1>2 DEF FlightInv
  <2>2. OneHolder'
    BY <1>2 DEF OneHolder
  <2>3. SentInv'
    BY <1>5 DEF SentInv
  <2>4. CopyInv'
    BY <1>2 DEF CopyInv
  <2> QED
    BY <2>1, <2>2, <2>3, <2>4 DEF PlaceInv
<1>7. NewInv' /\ CancelInv' /\ AdoptedInv'
  BY <1>0, <1>1, <1>2 DEF NewInv, CancelInv, Cancelling, AdoptedInv, Adopted
<1>8. PastInv'
  BY <1>0, <1>1, <1>2, <1>5 DEF PastInv, SubmitEnds
<1>9. ScanInv'
  BY <1>1, <1>2 DEF ScanInv
<1>10. CleanInv' /\ GivenUpTreesAreDead'
  <2>1. Absent.error # "was errored"
    BY DEF Absent
  <2>2. \A r \in Runs : past'[r] = "none" => past[r] = "none"
    BY <1>1
  <2> QED
    BY <1>0, <1>1, <1>2, <2>1, <2>2 DEF CleanInv, GivenUpTreesAreDead
<1>11. WrittenInv'
  <2>1. \A r \in Runs : past'[r] = "none" => ~Submitted(r)'
    <3> TAKE r \in Runs
    <3> HAVE past'[r] = "none"
    <3>1. spc[r] = "new"
      BY <1>0, <1>1 DEF PastInv, SubmitEnds
    <3> QED
      BY <1>2, <3>1 DEF Submitted
  <2> QED
    BY <2>1 DEF WrittenInv, Written
<1>12. KeptInv'
  <2> SUFFICES ASSUME ~DiskMayFail, NEW r \in Runs, past'[r] = "retired"
               PROVE  Ended(disk'[r]) /\ ~Adopted(r)'
    BY DEF KeptInv, Ended, Terminal
  <2>1. CASE past[r] = "retired"
    BY <1>0, <1>1, <1>2, <2>1 DEF KeptInv, Adopted
  <2>2. CASE past[r] = "none" /\ Retired(r)
    <3>1. Written(r)
      BY <2>2 DEF Retired, Written, HeldAt, Holding
    <3> QED
      BY <1>0, <1>1, <1>2, <2>2, <3>1 DEF WrittenInv, CleanInv, Ended, Adopted
  <2> QED
    BY <1>0, <1>1, <2>1, <2>2 DEF RecoveryTypeOK
<1> QED
  BY <1>3, <1>4, <1>6, <1>7, <1>8, <1>9, <1>10, <1>11, <1>12 DEF ServerInv

-----------------------------------------------------------------------------
(* The recovery, and a process that ends by itself. *)

(* What only a crash and a submission change: the queue is empty or as the *)
(* daemon left it.                                                         *)
LEMMA Untouched ==
  ASSUME Typed, PlaceInv, CopyInv, PastInv, CancelInv,
         UNCHANGED <<pend, jobs, closed, rootDone, live, bufs, cancelled, armed, stopped,
                     workerVars, cancelVars, submitVars, past>>,
         StoreTypeOK', proc' \in [Runs -> {"none", "alive", "exited"}]
  PROVE  Typed' /\ PlaceInv' /\ CopyInv' /\ PastInv' /\ CancelInv'
<1>0. UNCHANGED <<jobs, wpc, cur, outcome, cpc, target, reply, spc, ack, pend, past>>
  BY DEF workerVars, cancelVars, submitVars
<1>1. TypeOK'
  BY <1>0 DEF Typed, TypeOK
<1>2. WorkerInv' /\ TargetInv'
  BY <1>0 DEF Typed, WorkerInv, TargetInv
<1>3. \A r \in Runs : /\ Waiting(r)' <=> Waiting(r)
                      /\ Placed(r)' <=> Placed(r)
                      /\ Submitted(r)' <=> Submitted(r)
  BY <1>0 DEF Placed, Waiting, Executing, Submitted
<1>4. PlaceInv'
  BY <1>0, <1>3 DEF PlaceInv, OneHolder, SentInv, Waiting
<1>5. CopyInv'
  BY <1>0 DEF CopyInv
<1>6. PastInv'
  BY <1>0, <1>3 DEF PastInv
<1>7. CancelInv'
  BY <1>0 DEF CancelInv, Cancelling
<1> QED
  BY <1>1, <1>2, <1>4, <1>5, <1>6, <1>7 DEF Typed

(* Boot, a sweep and the end of a process leave every record alone. *)
LEMMA QuietStep ==
  ASSUME ServerInv,
         UNCHANGED <<storeVars, jobs, closed, rootDone, live, bufs, cancelled, armed, stopped,
                     workerVars, cancelVars, submitVars, past, crashes>>,
         proc' \in [Runs -> {"none", "alive", "exited"}], RecoveryTypeOK', ScanInv',
         spared \subseteq spared', \A r \in Runs : proc'[r] = "alive" => proc[r] = "alive",
         \A r \in Runs : Adopted(r)' => Adopted(r)
  PROVE  ServerInv'
<1>0. /\ Typed /\ FlightInv /\ PlaceInv /\ CopyInv
      /\ NewInv /\ PastInv /\ CancelInv /\ AdoptedInv /\ CleanInv
      /\ GivenUpTreesAreDead /\ WrittenInv /\ KeptInv
  BY DEF ServerInv
<1>1. UNCHANGED <<mem, disk, pend, jobs, spc, wpc, cur, past>>
  BY DEF storeVars, workerVars, submitVars
<1>2. StoreTypeOK'
  BY <1>0, <1>1 DEF Typed, TypeOK, StoreTypeOK
<1>3. Typed' /\ PlaceInv' /\ CopyInv' /\ PastInv' /\ CancelInv'
  BY <1>0, <1>1, <1>2, Untouched
<1>4. FlightInv' /\ NewInv' /\ CleanInv' /\ AdoptedInv'
  BY <1>0, <1>1 DEF FlightInv, NewInv, CleanInv, AdoptedInv, Known
<1>5. GivenUpTreesAreDead'
  BY <1>0, <1>1 DEF GivenUpTreesAreDead
<1>6. WrittenInv' /\ KeptInv'
  <2>1. \A r \in Runs : Written(r)' <=> Written(r)
    BY <1>1 DEF Written, Submitted, Waiting, HeldAt, Holds
  <2> QED
    BY <1>0, <1>1, <2>1 DEF WrittenInv, KeptInv, Terminal, Ended
<1> QED
  BY <1>3, <1>4, <1>5, <1>6 DEF ServerInv

LEMMA BootStep ==
  ASSUME ServerInv, Boot
  PROVE  ServerInv'
<1>0. Typed /\ RecoveryTypeOK /\ ScanInv /\ \A r \in Runs : scan[r] = "done"
  BY DEF ServerInv, Boot
<1>1. /\ UNCHANGED <<storeVars, jobs, closed, rootDone, live, bufs, cancelled, armed,
                     stopped, proc, workerVars, cancelVars, submitVars, past, crashes,
                     scan, spared>>
      /\ daemon' = "up"
  BY DEF Boot, vars, queueVars
<1>2. RecoveryTypeOK' /\ ScanInv'
  BY <1>0, <1>1 DEF RecoveryTypeOK, ScanInv
<1>3. \A r \in Runs : Adopted(r)' => Adopted(r)
  BY <1>0 DEF Adopted
<1>4. proc' \in [Runs -> {"none", "alive", "exited"}]
  BY <1>0, <1>1 DEF Typed, TypeOK
<1> QED
  BY <1>1, <1>2, <1>3, <1>4, QuietStep

LEMMA SweepStep ==
  ASSUME ServerInv, NEW r \in Runs, Sweep(r)
  PROVE  ServerInv'
<1>0. Typed /\ RecoveryTypeOK /\ ScanInv
  BY DEF ServerInv
<1>1. /\ UNCHANGED <<storeVars, jobs, closed, rootDone, live, bufs, cancelled, armed,
                     stopped, workerVars, cancelVars, submitVars, past, crashes, daemon>>
      /\ daemon = "recovering" /\ scan[r] = "todo" /\ scan' = [scan EXCEPT ![r] = "swept"]
      /\ \/ proc' = [proc EXCEPT ![r] = "exited"] /\ spared' = spared
         \/ spared' = spared \union {r} /\ proc' = proc
  BY DEF Sweep, Between
<1>2. spc' = spc
  BY <1>1 DEF submitVars
<1>3. /\ proc' \in [Runs -> {"none", "alive", "exited"}] /\ spared \subseteq spared'
      /\ \A q \in Runs : proc'[q] = "alive" => proc[q] = "alive"
      /\ proc'[r] # "alive" \/ r \in spared'
  BY <1>0, <1>1 DEF Typed, TypeOK
<1>4. \A q \in Runs : scan'[q] = IF q = r THEN "swept" ELSE scan[q]
  BY <1>0, <1>1 DEF RecoveryTypeOK
<1>5. RecoveryTypeOK'
  BY <1>0, <1>1 DEF RecoveryTypeOK
<1>6. ScanInv'
  BY <1>0, <1>1, <1>2, <1>3, <1>4 DEF ScanInv
<1>7. \A q \in Runs : Adopted(q)' => Adopted(q)
  BY <1>1, <1>4 DEF Adopted
<1> QED
  BY <1>1, <1>3, <1>5, <1>6, <1>7, QuietStep

LEMMA ExitStep ==
  ASSUME ServerInv, NEW r \in Runs, OrphanExits(r)
  PROVE  ServerInv'
<1>0. Typed /\ RecoveryTypeOK /\ ScanInv
  BY DEF ServerInv
<1>1. /\ UNCHANGED <<storeVars, jobs, closed, rootDone, live, bufs, cancelled, armed,
                     stopped, workerVars, cancelVars, submitVars, daemon, scan, spared, past,
                     crashes>>
      /\ proc' = [proc EXCEPT ![r] = "exited"]
  BY DEF OrphanExits, recoveryVars
<1>2. spc' = spc
  BY <1>1 DEF submitVars
<1>3. /\ proc' \in [Runs -> {"none", "alive", "exited"}]
      /\ \A q \in Runs : proc'[q] = "alive" => proc[q] = "alive"
  BY <1>0, <1>1 DEF Typed, TypeOK
<1>4. RecoveryTypeOK' /\ ScanInv'
  BY <1>0, <1>1, <1>2, <1>3 DEF RecoveryTypeOK, ScanInv
<1>5. \A q \in Runs : Adopted(q)' => Adopted(q)
  BY <1>1 DEF Adopted
<1> QED
  BY <1>1, <1>3, <1>4, <1>5, QuietStep

(* What a recovery makes of a record: one that is over.                    *)
LEMMA RecoveredType ==
  ASSUME NEW rec \in Records
  PROVE  /\ RecoveredRecord(rec) \in Records
         /\ RecoveredRecord(rec).state \notin LiveStates
         /\ Terminal(RecoveredRecord(rec).state)
         /\ RecoveredRecord(rec).pid = rec.pid
         /\ Terminal(rec.state) => RecoveredRecord(rec) = rec
<1>1. CASE Terminal(rec.state)
  BY <1>1 DEF RecoveredRecord, Terminal, TerminalStates, LiveStates
<1>2. CASE ~Terminal(rec.state)
  <2> DEFINE moved == [rec EXCEPT !.state = "errored", !.ended = TRUE]
             final == [moved EXCEPT !.error = "was errored"]
  <2>1. moved \in Records /\ moved.state = "errored" /\ moved.pid = rec.pid
    BY DEF Records, States, TerminalStates
  <2>2. final \in Records /\ final.state = "errored" /\ final.pid = rec.pid
    BY <2>1 DEF Records, Errors
  <2>3. RecoveredRecord(rec) = final
    BY <1>2, <2>1 DEF RecoveredRecord
  <2> QED
    BY <1>2, <2>2, <2>3 DEF LiveStates, Terminal, TerminalStates
<1> QED
  BY <1>1, <1>2

(* What an iteration of Recover does to the record, in memory and on disk. *)
LEMMA AdoptMoves ==
  ASSUME ServerInv, NEW r \in Runs, Adopt(r)
  PROVE  /\ UNCHANGED <<pend, jobs, closed, rootDone, live, bufs, cancelled, armed, stopped,
                        proc, workerVars, cancelVars, submitVars, past, crashes, daemon,
                        spared>>
         /\ UNCHANGED <<spc, wpc, cur>>
         /\ daemon = "recovering" /\ scan' = [scan EXCEPT ![r] = "done"]
         /\ scan[r] = "swept" \/ ~(Orphaned(r) /\ disk[r].pid)
         /\ mem' \in [Runs -> Records] /\ disk' \in [Runs -> Records]
         /\ \A q \in Runs : q # r => mem'[q] = mem[q] /\ disk'[q] = disk[q]
         /\ mem'[r].state \notin LiveStates /\ (mem'[r].pid => disk[r].pid)
         /\ disk[r].state # "absent" => Terminal(mem'[r].state)
         /\ Terminal(disk[r].state) => mem'[r] = disk[r]
         /\ disk[r] = Absent => mem'[r] = Absent
         /\ ~Orphaned(r) => disk'[r] = disk[r]
         /\ disk'[r].pid = disk[r].pid
         /\ disk[r].state # "absent" => disk'[r].state # "absent"
<1>0. Typed /\ RecoveryTypeOK /\ ScanInv
  BY DEF ServerInv
<1>1. /\ UNCHANGED <<pend, jobs, closed, rootDone, live, bufs, cancelled, armed, stopped,
                     proc, workerVars, cancelVars, submitVars, past, crashes, daemon, spared>>
      /\ scan' = [scan EXCEPT ![r] = "done"]
      /\ scan[r] = "swept" \/ ~(Orphaned(r) /\ disk[r].pid)
      /\ daemon = "recovering"
  BY <1>0 DEF Adopt, Between, queueVars, ScanInv
<1>2. UNCHANGED <<spc, wpc, cur>>
  BY <1>1 DEF submitVars, workerVars
<1>4. /\ mem \in [Runs -> Records] /\ disk \in [Runs -> Records] /\ disk[r] \in Records
      /\ Absent \in Records
  BY <1>0, RecordTypes DEF Typed, TypeOK, StoreTypeOK
<1> DEFINE rec == RecoveredRecord(disk[r])
<1>3. /\ mem' = [mem EXCEPT ![r] = IF disk[r] = Absent THEN Absent ELSE rec]
      /\ disk' = disk \/ (Orphaned(r) /\ disk' = [disk EXCEPT ![r] = ToMeta(mem'[r])])
  <2>1. mem' = [mem EXCEPT ![r] = IF disk[r] = Absent THEN Absent ELSE rec]
    BY DEF Adopt
  <2>2. \/ disk' = [disk EXCEPT ![r] = IF Orphaned(r) THEN ToMeta(mem'[r]) ELSE disk[r]]
        \/ disk' = disk
    BY DEF Adopt
  <2>3. [disk EXCEPT ![r] = disk[r]] = disk
    BY <1>4
  <2> HIDE DEF rec
  <2> QED
    BY <2>1, <2>2, <2>3
<1>5. /\ rec \in Records /\ rec.state \notin LiveStates /\ rec.pid = disk[r].pid
      /\ Terminal(disk[r].state) => rec = disk[r]
      /\ Terminal(rec.state)
  BY <1>4, RecoveredType
<1>6. /\ Absent.state = "absent" /\ ~Absent.pid /\ (Orphaned(r) => disk[r] # Absent)
      /\ Terminal(disk[r].state) => disk[r] # Absent
  BY DEF Absent, Orphaned, LiveStates, Terminal, TerminalStates
<1>7. disk[r].state # "absent" => disk[r] # Absent
  BY <1>6
<1> HIDE DEF rec
<1>8. /\ mem'[r] \in Records /\ mem'[r].state \notin LiveStates
      /\ mem'[r].pid => disk[r].pid
      /\ Orphaned(r) => mem'[r] = rec
      /\ Terminal(disk[r].state) => mem'[r] = disk[r]
      /\ disk[r] = Absent => mem'[r] = Absent
      /\ disk[r].state # "absent" => Terminal(mem'[r].state)
      /\ \A q \in Runs : q # r => mem'[q] = mem[q]
  <2>1. mem'[r] = IF disk[r] = Absent THEN Absent ELSE rec
    BY <1>3, <1>4
  <2>2. "absent" \notin LiveStates
    BY DEF LiveStates
  <2>3. \A q \in Runs : q # r => mem'[q] = mem[q]
    BY <1>3, <1>4
  <2> QED
    BY <1>4, <1>5, <1>6, <1>7, <2>1, <2>2, <2>3 DEF Terminal
<1>9. /\ ToMeta(mem'[r]) \in Records /\ ToMeta(mem'[r]).pid = mem'[r].pid
      /\ ToMeta(mem'[r]).state = mem'[r].state
  <2>1. ToMeta(mem'[r]).pid = mem'[r].pid /\ ToMeta(mem'[r]).state = mem'[r].state
    BY <1>8 DEF ToMeta, Records
  <2> QED
    BY <1>8, <2>1, RecordTypes
<1>10. mem' \in [Runs -> Records] /\ disk' \in [Runs -> Records]
  <2>1. mem' \in [Runs -> Records]
    BY <1>3, <1>4, <1>5
  <2>2. disk' \in [Runs -> Records]
    BY <1>3, <1>4, <1>9
  <2> QED
    BY <2>1, <2>2
<1>11. /\ \A q \in Runs : q # r => disk'[q] = disk[q]
       /\ ~Orphaned(r) => disk'[r] = disk[r]
       /\ disk'[r].pid = disk[r].pid
  BY <1>3, <1>4, <1>5, <1>8, <1>9
<1>12. disk[r].state # "absent" => disk'[r].state # "absent"
  <2>1. disk'[r] = disk[r] \/ disk'[r] = ToMeta(mem'[r])
    BY <1>3, <1>4
  <2> QED
    BY <1>8, <1>9, <2>1 DEF Terminal, TerminalStates
<1> QED
  BY <1>1, <1>2, <1>8, <1>10, <1>11, <1>12

LEMMA AdoptStep ==
  ASSUME ServerInv, NEW r \in Runs, Adopt(r)
  PROVE  ServerInv'
<1>0. /\ Typed /\ RecoveryTypeOK /\ FlightInv /\ PlaceInv /\ CopyInv
      /\ NewInv /\ PastInv /\ CancelInv /\ AdoptedInv /\ ScanInv /\ CleanInv
      /\ GivenUpTreesAreDead /\ WrittenInv /\ KeptInv
  BY DEF ServerInv
<1>1. /\ UNCHANGED <<pend, jobs, closed, rootDone, live, bufs, cancelled, armed, stopped,
                     proc, workerVars, cancelVars, submitVars, past, crashes, daemon, spared>>
      /\ scan' = [scan EXCEPT ![r] = "done"]
      /\ scan[r] = "swept" \/ ~(Orphaned(r) /\ disk[r].pid)
      /\ daemon = "recovering"
  BY AdoptMoves
<1>2. UNCHANGED <<spc, wpc, cur>>
  BY AdoptMoves
<1>6. Absent.state = "absent" /\ (Orphaned(r) => disk[r] # Absent)
  BY DEF Absent, Orphaned, LiveStates
<1>7. /\ mem'[r].state \notin LiveStates
      /\ Terminal(disk[r].state) => mem'[r] = disk[r]
      /\ disk[r] = Absent => mem'[r] = Absent
      /\ \A q \in Runs : q # r => mem'[q] = mem[q]
  BY AdoptMoves
<1>9. /\ \A q \in Runs : q # r => disk'[q] = disk[q]
      /\ ~Orphaned(r) => disk'[r] = disk[r]
      /\ disk'[r].pid = disk[r].pid
      /\ disk'[r] = disk[r] \/ Orphaned(r)
  BY AdoptMoves
<1>10. StoreTypeOK'
  <2>1. mem' \in [Runs -> Records] /\ disk' \in [Runs -> Records]
    BY AdoptMoves
  <2> QED
    BY <1>0, <1>1, <2>1 DEF Typed, TypeOK, StoreTypeOK
<1>11. Typed' /\ PlaceInv' /\ CopyInv' /\ PastInv' /\ CancelInv'
  <2>1. proc' \in [Runs -> {"none", "alive", "exited"}]
    BY <1>0, <1>1 DEF Typed, TypeOK
  <2> QED
    BY <1>0, <1>1, <1>10, <2>1, Untouched
<1>12. /\ past' = past /\ \A q \in Runs : past[q] = "none" => spc[q] = "new"
       /\ \A q \in Runs : past[q] = "none" => mem'[q] = Absent /\ disk'[q] = Absent
  <2>1. \A q \in Runs : past[q] = "none" => spc[q] = "new"
    BY <1>0, <1>1 DEF ScanInv
  <2>2. \A q \in Runs : past[q] = "none" => mem[q] = Absent /\ disk[q] = Absent
    BY <1>0, <2>1 DEF NewInv
  <2> QED
    BY <1>1, <1>6, <1>7, <1>9, <2>1, <2>2
<1>13. \A q \in Runs : scan'[q] = IF q = r THEN "done" ELSE scan[q]
  BY <1>0, <1>1 DEF RecoveryTypeOK
<1>14. RecoveryTypeOK' /\ ScanInv'
  BY <1>0, <1>1, <1>2, <1>13 DEF RecoveryTypeOK, ScanInv
<1>15. FlightInv' /\ NewInv'
  <2>1. \A q \in Runs : spc[q] \in {"new"} \union SubmitEnds
    BY <1>0, <1>12 DEF PastInv
  <2>2. \A q \in Runs : spc[q] = "new" => past[q] = "none"
    BY <1>0 DEF PastInv, SubmitEnds
  <2> QED
    BY <1>2, <1>12, <2>1, <2>2 DEF FlightInv, NewInv
<1>16. AdoptedInv'
  BY <1>0, <1>1, <1>7, <1>12, <1>13 DEF AdoptedInv, Adopted
<1>17. CleanInv'
  <2>1. Absent.error # "was errored"
    BY DEF Absent
  <2> QED
    BY <1>0, <1>1, <1>12, <2>1 DEF CleanInv
<1>18. GivenUpTreesAreDead'
  <2>1. Orphaned(r) /\ disk[r].pid => proc[r] # "alive" \/ r \in spared
    BY <1>0, <1>1 DEF ScanInv
  <2> QED
    BY <1>0, <1>1, <1>9, <2>1 DEF GivenUpTreesAreDead
<1>19. WrittenInv'
  <2>1. \A q \in Runs : past[q] = "none" => ~Submitted(q)'
    BY <1>2, <1>12 DEF Submitted
  <2> QED
    BY <1>12, <2>1 DEF WrittenInv, Written
<1>20. KeptInv'
  <2> SUFFICES ASSUME ~DiskMayFail, NEW q \in Runs, past[q] = "retired"
               PROVE  Ended(disk'[q]) /\ (Adopted(q)' => Ended(mem'[q]))
    BY <1>12 DEF KeptInv, Ended, Terminal
  <2>1. Ended(disk[q]) /\ (Adopted(q) => Ended(mem[q]))
    BY <1>0 DEF KeptInv
  <2>2. CASE q # r
    BY <1>1, <1>7, <1>9, <1>13, <2>1, <2>2 DEF Adopted
  <2>3. CASE q = r
    <3>1. Terminal(disk[r].state) /\ ~Orphaned(r)
      BY <2>1, <2>3 DEF Ended, Terminal, TerminalStates, Orphaned, LiveStates
    <3> QED
      BY <1>7, <1>9, <2>1, <2>3, <3>1
  <2> QED
    BY <2>2, <2>3
<1> QED
  BY <1>11, <1>14, <1>15, <1>16, <1>17, <1>18, <1>19, <1>20 DEF ServerInv

LEMMA StillStep ==
  ASSUME ServerInv, UNCHANGED serverVars
  PROVE  ServerInv'
<1>0. Typed /\ RecoveryTypeOK /\ ScanInv
  BY DEF ServerInv
<1>1. UNCHANGED <<storeVars, jobs, closed, rootDone, live, bufs, cancelled, armed, stopped,
                  proc, workerVars, cancelVars, submitVars, daemon, scan, spared, past,
                  crashes>>
  BY DEF serverVars, vars, queueVars, recoveryVars
<1>2. spc' = spc
  BY <1>1 DEF submitVars
<1>3. RecoveryTypeOK' /\ ScanInv'
  BY <1>0, <1>1, <1>2 DEF RecoveryTypeOK, ScanInv
<1>4. proc' \in [Runs -> {"none", "alive", "exited"}]
  BY <1>0, <1>1 DEF Typed, TypeOK
<1>5. \A q \in Runs : Adopted(q)' => Adopted(q)
  BY <1>1 DEF Adopted
<1> QED
  BY <1>1, <1>3, <1>4, <1>5, QuietStep

LEMMA ServerInvAlways == ServerSpec => []ServerInv
<1>1. ServerInv /\ [ServerNext]_serverVars => ServerInv'
  <2> SUFFICES ASSUME ServerInv, [ServerNext]_serverVars PROVE ServerInv'
    OBVIOUS
  <2>1. CASE Serve
    BY <2>1, ServeStep DEF Serve
  <2>2. CASE Crash
    BY <2>2, CrashStep
  <2>3. CASE Recovery
    BY <2>3, BootStep, SweepStep, AdoptStep DEF Recovery
  <2>4. CASE \E r \in Runs : OrphanExits(r)
    BY <2>4, ExitStep
  <2>5. CASE UNCHANGED serverVars
    BY <2>5, StillStep
  <2> QED
    BY <2>1, <2>2, <2>3, <2>4, <2>5 DEF ServerNext
<1> QED
  BY <1>1, ServerInvInit, PTL DEF ServerSpec

-----------------------------------------------------------------------------
(* What a restart keeps. *)

(***************************************************************************)
(* The daemon keeps its types across crashes and recoveries.               *)
(***************************************************************************)
THEOREM ServerTypeCorrect == ServerSpec => []ServerTypeOK
<1>1. ServerInv => ServerTypeOK
  BY DEF ServerInv, Typed, RecoveryTypeOK, ServerTypeOK
<1> QED
  BY <1>1, ServerInvAlways, PTL

(***************************************************************************)
(* Once the daemon is up no run of an earlier life is queued or running,   *)
(* however often it went down, in a recovery too (Recover).                *)
(***************************************************************************)
THEOREM OrphansEnd == ServerSpec => []OrphansAreSettled
<1>1. ServerInv => OrphansAreSettled
  BY DEF ServerInv, AdoptedInv, Adopted, OrphansAreSettled
<1> QED
  BY <1>1, ServerInvAlways, PTL

(***************************************************************************)
(* When no write fails, a run finalised before a crash is read back as it  *)
(* ended, and no recovery marks it (finish, Store.Update, Recover).        *)
(***************************************************************************)
THEOREM FinishedStays == ServerSpec => []FinishedIsNotOrphaned
<1>1. ServerInv => FinishedIsNotOrphaned
  BY DEF ServerInv, KeptInv, Adopted, Ended, FinishedIsNotOrphaned
<1> QED
  BY <1>1, ServerInvAlways, PTL

(***************************************************************************)
(* A record is given up on disk after its tree was killed: a crash between *)
(* the two leaves it to the next recovery (Recover's order of KillTree and *)
(* persist).                                                               *)
(***************************************************************************)
THEOREM KilledBeforeGivenUp == ServerSpec => []GivenUpTreesAreDead
<1>1. ServerInv => GivenUpTreesAreDead
  BY DEF ServerInv
<1> QED
  BY <1>1, ServerInvAlways, PTL

-----------------------------------------------------------------------------
(* What the lives of a run have in common: steps of Queue.                 *)

LEMMA ProcStays ==
  ASSUME Typed, [Next]_vars, NEW r \in Runs, proc[r] # "none"
  PROVE  proc'[r] # "none"
<1>1. ASSUME NEW s \in Runs, AddRun(s) \/ Submitter(s) PROVE proc' = proc
  BY <1>1 DEF AddRun, Submitter, AddPersists, Register, Send, FindFull, Unregister, Refuse,
          RefusePersists, SendPanics, Acknowledge, queueVars
<1>2. ASSUME NEW c \in Cancels, Canceller(c) \/ \E s \in Runs : CancelGet(c, s)
      PROVE  proc' = proc
  BY <1>2 DEF Canceller, CancelGet, CancelFlag, CancelSignal, CancelRecord, CancelPersists,
          queueVars
<1>3. ASSUME NEW w \in Workers, Worker(w) PROVE proc'[r] # "none"
  BY <1>3 DEF Typed, TypeOK, Worker, WorkerExit, Take, CheckFlag, Arm, MarkRunning, Launch,
          LaunchFails, RecordPid, ExecuteReturns, Finish, CloseBuffer, Retire, WorkerPersists, queueVars
<1>4. Signal \/ Stop \/ UNCHANGED vars => proc' = proc
  BY DEF Signal, Stop, vars, queueVars
<1> QED
  BY <1>1, <1>2, <1>3, <1>4 DEF Next, Rest

(* A goroutine that has a copy to write took it in this step, or had it.   *)
LEMMA WriterMoves ==
  ASSUME Typed, [Next]_vars, NEW a \in Actors, NEW r \in Runs, Writes(a, r)'
  PROVE  \/ Writes(a, r) /\ pend'[a] = pend[a]
         \/ Updates(a, r) /\ Update(a, r, pend'[a])
<1> DEFINE Goal == \/ Writes(a, r) /\ pend'[a] = pend[a]
                   \/ Updates(a, r) /\ Update(a, r, pend'[a])
<1>0. /\ pend \in [Actors -> Records] /\ spc \in [Runs -> SubmitPCs]
      /\ wpc \in [Workers -> WorkerPCs] /\ cur \in [Workers -> Runs \union {NoRun}]
      /\ cpc \in [Cancels -> CancelPCs] /\ target \in [Cancels -> Runs \union {NoRun}]
  BY DEF Typed, TypeOK, StoreTypeOK
<1>1. ASSUME NEW s \in Runs, AddRun(s) \/ Submitter(s) PROVE Goal
  <2>1. UNCHANGED <<workerVars, cancelVars>> /\ \A q \in Runs \ {s} : spc'[q] = spc[q]
    BY <1>0, <1>1 DEF AddRun, Submitter, AddPersists, Register, Send, FindFull, Unregister,
            Refuse, RefusePersists, SendPanics, Acknowledge, SubmitStep
  <2>2. a # s => pend'[a] = pend[a]
    BY <1>0, <1>1 DEF AddRun, Submitter, AddPersists, Register, Send, FindFull, Unregister,
            Refuse, RefusePersists, SendPanics, Acknowledge, Update, Persist, PersistFails,
            storeVars
  <2>3. CASE a # s
    BY <2>1, <2>2, <2>3 DEF Writes, workerVars, cancelVars
  <2>4. CASE a = s
    <3>1. a = r /\ spc'[r] \in {"added", "refused"}
      BY <2>4 DEF Writes
    <3>2. AddRun(r) \/ Refuse(r)
      BY <1>0, <1>1, <2>4, <3>1 DEF Submitter, AddPersists, Register, Send, FindFull,
              Unregister, RefusePersists, SendPanics, Acknowledge, SubmitStep
    <3>3. \E rec : Update(r, r, rec)
      BY <3>2 DEF AddRun, Refuse
    <3>4. Update(r, r, pend'[r])
      BY <1>0, <3>3 DEF Update
    <3> QED
      BY <3>1, <3>2, <3>4 DEF Updates, AddRun, Refuse, SubmitStep
  <2> QED
    BY <2>3, <2>4
<1>2. ASSUME NEW c \in Cancels, NEW s \in Runs, CancelGet(c, s) PROVE Goal
  <2>1. /\ UNCHANGED <<storeVars, workerVars, submitVars>> /\ cpc'[c] # "recorded"
        /\ \A d \in Cancels \ {c} : cpc'[d] = cpc[d] /\ target'[d] = target[d]
    BY <1>0, <1>2 DEF CancelGet, CancelStep
  <2> QED
    BY <2>1 DEF Writes, storeVars, workerVars, submitVars
<1>3. ASSUME NEW c \in Cancels, Canceller(c) PROVE Goal
  <2>1. /\ UNCHANGED <<workerVars, submitVars, target>>
        /\ \A d \in Cancels \ {c} : cpc'[d] = cpc[d]
    BY <1>0, <1>3 DEF Canceller, CancelFlag, CancelSignal, CancelRecord, CancelPersists,
            CancelStep
  <2>2. a # c => pend'[a] = pend[a]
    BY <1>0, <1>3 DEF Canceller, CancelFlag, CancelSignal, CancelRecord, CancelPersists,
            Update, Persist, PersistFails, storeVars
  <2>3. CASE a # c
    BY <2>1, <2>2, <2>3 DEF Writes, workerVars, submitVars
  <2>4. CASE a = c
    <3>1. target'[c] = r /\ cpc'[c] = "recorded"
      BY <2>4 DEF Writes
    <3>2. CancelRecord(c) /\ target[c] = r
      BY <1>0, <1>3, <2>1, <3>1 DEF Canceller, CancelFlag, CancelSignal, CancelPersists,
              CancelStep
    <3>3. \E rec : Update(c, r, rec)
      BY <3>2 DEF CancelRecord
    <3>4. Update(c, r, pend'[c])
      BY <1>0, <3>3 DEF Update
    <3> QED
      BY <2>4, <3>2, <3>4 DEF Updates, CancelRecord, CancelStep
  <2> QED
    BY <2>3, <2>4
<1>4. ASSUME NEW w \in Workers, Worker(w) PROVE Goal
  <2>1. /\ UNCHANGED <<cancelVars, submitVars>>
        /\ \A v \in Workers \ {w} : wpc'[v] = wpc[v] /\ cur'[v] = cur[v]
    BY <1>0, <1>4 DEF Worker, WorkerExit, Take, CheckFlag, Arm, MarkRunning, Launch,
            LaunchFails, RecordPid, ExecuteReturns, Finish, CloseBuffer, Retire, WorkerPersists, WorkerStep
  <2>2. a # w => pend'[a] = pend[a]
    BY <1>0, <1>4 DEF Worker, WorkerExit, Take, CheckFlag, Arm, MarkRunning, Launch,
            LaunchFails, RecordPid, ExecuteReturns, Finish, CloseBuffer, Retire, WorkerPersists,
            Update, Persist, PersistFails, storeVars
  <2>3. CASE a # w
    BY <2>1, <2>2, <2>3 DEF Writes, cancelVars, submitVars
  <2>4. CASE a = w
    <3>1. cur'[w] = r /\ wpc'[w] \in {"marked", "recorded", "finished"}
      BY <2>4 DEF Writes
    <3>2. MarkRunning(w) \/ RecordPid(w) \/ Finish(w)
      BY <1>0, <1>4, <3>1 DEF Worker, WorkerExit, Take, CheckFlag, Arm, Launch,
              LaunchFails, ExecuteReturns, CloseBuffer, Retire, WorkerPersists, WorkerStep
    <3>3. cur[w] = r /\ \E rec : Update(w, r, rec)
      BY <3>1, <3>2 DEF MarkRunning, RecordPid, Finish
    <3>4. Update(w, r, pend'[w])
      BY <1>0, <3>3 DEF Update
    <3> QED
      BY <2>4, <3>3, <3>4 DEF Updates
  <2> QED
    BY <2>3, <2>4
<1>5. ASSUME Signal \/ Stop \/ UNCHANGED vars PROVE Goal
  BY <1>5 DEF Signal, Stop, vars, storeVars, workerVars, cancelVars, submitVars, Writes
<1> HIDE DEF Goal
<1>6. Goal
  BY <1>1, <1>2, <1>3, <1>4, <1>5 DEF Next, Rest
<1> QED
  BY <1>6 DEF Goal

(* A submission passes Store.Add by writing its record. *)
Stored(r) == spc[r] \notin {"new", "added", "failed"}

LEMMA StoredMoves ==
  ASSUME Typed, [Next]_vars, NEW r \in Runs, Stored(r)'
  PROVE  Stored(r) \/ (spc[r] = "added" /\ Persist(r, r))
<1> DEFINE Goal == Stored(r) \/ (spc[r] = "added" /\ Persist(r, r))
<1>0. spc \in [Runs -> SubmitPCs]
  BY DEF Typed, TypeOK
<1>1. ASSUME NEW s \in Runs, AddRun(s) \/ Submitter(s) PROVE Goal
  BY <1>0, <1>1 DEF AddRun, Submitter, AddPersists, Register, Send, FindFull, Unregister,
          Refuse, RefusePersists, SendPanics, Acknowledge, SubmitStep, Stored
<1>2. ASSUME NEW c \in Cancels, Canceller(c) \/ \E s \in Runs : CancelGet(c, s)
      PROVE  spc' = spc
  BY <1>2 DEF Canceller, CancelGet, CancelFlag, CancelSignal, CancelRecord, CancelPersists,
          submitVars
<1>3. ASSUME NEW w \in Workers, Worker(w) PROVE spc' = spc
  BY <1>3 DEF Worker, WorkerExit, Take, CheckFlag, Arm, MarkRunning, Launch, LaunchFails,
          RecordPid, ExecuteReturns, Finish, CloseBuffer, Retire, WorkerPersists, submitVars
<1>4. Signal \/ Stop \/ UNCHANGED vars => spc' = spc
  BY DEF Signal, Stop, vars, submitVars
<1>5. spc' = spc => Goal
  BY DEF Stored
<1> HIDE DEF Goal
<1>6. Goal
  BY <1>1, <1>2, <1>3, <1>4, <1>5 DEF Next, Rest
<1> QED
  BY <1>6 DEF Goal

-----------------------------------------------------------------------------
(* The second half of the inductive invariant: what Queue keeps, said of   *)
(* the runs of all lives where it is true of them, and otherwise of those  *)
(* of this one.                                                            *)

LifeKnown == \A r \in Runs : past[r] = "none" /\ spc[r] # "new" => Known(r)

(* Every submission that was answered, but with 500, is on disk ...        *)
StoredInv == \A r \in Runs : Stored(r) => disk[r].state # "absent"

(* ... and adopted by the next recovery.                                   *)
TakenInv ==
  \A r \in Runs : daemon = "recovering" /\ scan[r] = "done" /\ Submitted(r) =>
    Terminal(mem[r].state)

SettledInv == daemon = "up" => SettledIsTerminal

(* A PID is that of a process that was launched, in every copy of a record. *)
PidInv == \A r \in Runs : mem[r].pid \/ disk[r].pid => proc[r] # "none"

PendInv ==
  \A a \in Actors, r \in Runs : Writes(a, r) =>
    pend[a].state # "absent" /\ (pend[a].pid => proc[r] # "none")

(* Who was sent has had a process, a crash before the answer or not.       *)
SeenInv == \A r \in Runs : proc[r] # "none" => Submitted(r) \/ spc[r] = "failed"

LifeAlive == \A r \in Runs : past[r] = "none" /\ proc[r] = "alive" => HeldAt(r, Supervising)

KeepInv ==
  /\ LifeKnown /\ StoredInv /\ TakenInv /\ SettledInv
  /\ PidInv /\ PendInv /\ WaitsInv /\ SeenInv /\ LifeAlive
  /\ ReachInv /\ RefusedInv /\ RejectedInv /\ RunningIsSupervised /\ FreshInv

LEMMA KeepInit == ServerInit => KeepInv
<1> SUFFICES ASSUME ServerInit PROVE KeepInv
  OBVIOUS
<1>1. /\ \A r \in Runs : /\ spc[r] = "new" /\ proc[r] = "none"
                         /\ mem[r] = Absent /\ disk[r] = Absent
      /\ \A w \in Workers : wpc[w] = "idle" /\ cur[w] = NoRun
      /\ \A c \in Cancels : cpc[c] = "new"
      /\ jobs = <<>> /\ daemon = "up"
  BY DEF ServerInit, Init, StoreInit, QueueInit
<1>2. Absent.state = "absent" /\ ~Absent.pid
  BY DEF Absent
<1>3. LifeKnown /\ StoredInv /\ TakenInv /\ SettledInv
  BY <1>1 DEF LifeKnown, StoredInv, Stored, TakenInv, SettledInv, SettledIsTerminal, Settled,
          Submitted
<1>4. PidInv /\ PendInv /\ WaitsInv /\ SeenInv /\ LifeAlive
  BY <1>1, <1>2 DEF PidInv, PendInv, Writes, WaitsInv, Supervising, SeenInv, LifeAlive
<1>5. ReachInv /\ RefusedInv /\ RejectedInv /\ FreshInv
  BY <1>1 DEF ReachInv, Placed, Waiting, Executing, RefusedInv, RejectedInv, FreshInv
<1>6. RunningIsSupervised
  BY <1>1, <1>2 DEF RunningIsSupervised
<1> QED
  BY <1>3, <1>4, <1>5, <1>6 DEF KeepInv

(* What a step of Queue makes of the PID in a record of this life.         *)
LEMMA PidMoves ==
  ASSUME Typed, WaitsInv, [Next]_vars, NEW r \in Runs,
         mem[r].pid => proc[r] # "none", mem'[r].pid
  PROVE  proc'[r] # "none"
<1>0. StoreTypeOK /\ WorkerInv /\ TargetInv /\ mem[r] \in Records
  BY DEF Typed, TypeOK, StoreTypeOK
<1>1. mem[r].pid \/ \E w \in Workers : RecordPid(w) /\ cur[w] = r
  <2>1. CASE AddRun(r)
    <3>1. mem'[r] = Fresh
      BY <1>0, <2>1, UpdateState DEF AddRun
    <3> QED
      BY <3>1 DEF Fresh, Absent
  <2>2. CASE Refuse(r)
    <3>1. mem'[r] = [mem[r] EXCEPT !.state = "errored", !.error = "queue full"]
      BY <1>0, <2>2, UpdateState DEF Refuse
    <3> QED
      BY <1>0, <3>1 DEF Records
  <2>3. ASSUME NEW c \in Cancels, CancelRecord(c), target[c] = r PROVE mem[r].pid
    <3>1. mem'[r] = [mem[r] EXCEPT !.state = "cancelled", !.ended = TRUE]
      BY <1>0, <2>3, UpdateState DEF CancelRecord
    <3> QED
      BY <1>0, <3>1 DEF Records
  <2>4. ASSUME NEW w \in Workers, MarkRunning(w), cur[w] = r PROVE mem[r].pid
    <3>1. mem'[r] = [mem[r] EXCEPT !.state = "running"]
      BY <1>0, <2>4, UpdateState DEF MarkRunning
    <3> QED
      BY <1>0, <3>1 DEF Records
  <2>5. ASSUME NEW w \in Workers, Finish(w), cur[w] = r PROVE FALSE
    <3>1. mem'[r] = FinalRecord(mem[r], outcome[w], proc[r] = "exited")
      BY <1>0, <2>5, UpdateState DEF Finish
    <3> QED
      BY <3>1 DEF FinalRecord
  <2> QED
    BY <2>1, <2>2, <2>3, <2>4, <2>5, MemMoves
<1>2. ASSUME NEW w \in Workers, RecordPid(w), cur[w] = r PROVE proc[r] # "none"
  BY <1>2 DEF RecordPid, WorkerStep, WaitsInv, Supervising
<1> QED
  BY <1>1, <1>2, ProcStays

LEMMA ServeKeeps ==
  ASSUME ServerInv, KeepInv, daemon = "up", [Next]_vars, UNCHANGED recoveryVars
  PROVE  KeepInv'
<1>0. /\ Typed /\ RecoveryTypeOK /\ FlightInv /\ PlaceInv /\ PastInv /\ CancelInv
      /\ Typed' /\ PlaceInv' /\ PastInv' /\ NewInv' /\ AdoptedInv'
  BY ServeStep DEF ServerInv
<1>1. /\ LifeKnown /\ StoredInv /\ TakenInv /\ SettledIsTerminal
      /\ PidInv /\ PendInv /\ WaitsInv /\ SeenInv /\ LifeAlive
      /\ ReachInv /\ RefusedInv /\ RejectedInv /\ RunningIsSupervised /\ FreshInv
  BY DEF KeepInv, SettledInv
<1>2. UNCHANGED <<daemon, scan, past>>
  BY DEF recoveryVars
<1>3. ReachInv' /\ RefusedInv' /\ RejectedInv' /\ RunningIsSupervised' /\ WaitsInv'
  BY <1>0, <1>1, MapsStep, RejectedStep, RunningStep, WaitsStep
<1>4. SettledInv'
  BY <1>0, <1>1, SettledStep DEF SettledInv
<1>5. TakenInv'
  BY <1>2 DEF TakenInv
<1>6. LifeAlive'
  BY <1>0, <1>1, <1>2, AliveStays DEF LifeAlive
<1>7. LifeKnown'
  <2> SUFFICES ASSUME NEW r \in Runs, past[r] = "none", spc'[r] # "new" PROVE Known(r)'
    BY <1>2 DEF LifeKnown, Known
  <2>1. spc[r] # "new" => Known(r)
    BY <1>1 DEF LifeKnown
  <2> QED
    BY <1>0, <2>1, KnownStays
<1>8. PidInv'
  <2> SUFFICES ASSUME NEW r \in Runs, mem'[r].pid \/ disk'[r].pid PROVE proc'[r] # "none"
    BY DEF PidInv
  <2>1. CASE mem'[r].pid
    BY <1>0, <1>1, <2>1, PidMoves DEF PidInv
  <2>2. ASSUME NEW a \in Actors, Writes(a, r), Persist(a, r), disk'[r].pid
        PROVE  proc[r] # "none"
    <3>1. pend[a] \in Records /\ disk'[r] = ToMeta(pend[a])
      BY <1>0, <2>2 DEF Typed, TypeOK, StoreTypeOK, Persist
    <3>2. pend[a].pid
      BY <2>2, <3>1 DEF ToMeta, Records
    <3> QED
      BY <1>1, <2>2, <3>2 DEF PendInv
  <2>3. CASE disk'[r].pid
    BY <1>0, <1>1, <2>2, <2>3, DiskMoves, ProcStays DEF PidInv
  <2> QED
    BY <2>1, <2>3
<1>9. StoredInv'
  <2> SUFFICES ASSUME NEW r \in Runs, Stored(r)' PROVE disk'[r].state # "absent"
    BY DEF StoredInv
  <2>1. ASSUME NEW a \in Actors, Writes(a, r), Persist(a, r)
        PROVE  disk'[r].state # "absent"
    <3>1. pend[a] \in Records /\ disk'[r] = ToMeta(pend[a])
      BY <1>0, <2>1 DEF Typed, TypeOK, StoreTypeOK, Persist
    <3>2. disk'[r].state = pend[a].state
      BY <3>1 DEF ToMeta, Records
    <3> QED
      BY <1>1, <2>1, <3>2 DEF PendInv
  <2>2. CASE spc[r] = "added" /\ Persist(r, r)
    <3>1. r \in Actors /\ Writes(r, r)
      BY <2>2 DEF Writes
    <3> QED
      BY <2>1, <2>2, <3>1
  <2>3. CASE Stored(r)
    BY <1>0, <1>1, <2>1, <2>3, DiskMoves DEF StoredInv
  <2> QED
    BY <1>0, <2>2, <2>3, StoredMoves
<1>10. PendInv'
  <2> SUFFICES ASSUME NEW a \in Actors, NEW r \in Runs, Writes(a, r)'
               PROVE  pend'[a].state # "absent" /\ (pend'[a].pid => proc'[r] # "none")
    BY DEF PendInv
  <2>1. CASE Writes(a, r) /\ pend'[a] = pend[a]
    BY <1>0, <1>1, <2>1, ProcStays DEF PendInv
  <2>2. CASE Updates(a, r) /\ Update(a, r, pend'[a])
    <3>1. mem'[r] = pend'[a]
      BY <1>0, <2>2, UpdateState DEF Typed, TypeOK
    <3>2. past[r] = "none"
      BY <1>0, <2>2 DEF Updates, PastInv, CancelInv, Cancelling, SubmitEnds, Placed, Executing
    <3>3. spc'[r] # "new"
      <4>1. CASE a \in Runs
        BY <2>2, <4>1 DEF Writes
      <4>2. CASE a \in Workers
        <5>1. Executing(r)'
          BY <4>2 DEF Writes, Executing
        <5> QED
          BY <1>0, <5>1 DEF PlaceInv, SentInv, Placed, Submitted
      <4>3. CASE a \in Cancels
        <5>1. spc[r] # "new"
          BY <1>0, <2>2, <4>3 DEF Updates, CancelInv, Cancelling
        <5> QED
          BY <1>0, <5>1, SubmitMoves
      <4> QED
        BY <4>1, <4>2, <4>3
    <3>4. Known(r)'
      BY <1>2, <1>7, <3>2, <3>3 DEF LifeKnown
    <3> QED
      BY <1>8, <3>1, <3>4 DEF PidInv, Known
  <2> QED
    BY <1>0, <2>1, <2>2, WriterMoves
<1>11. SeenInv'
  <2> SUFFICES ASSUME NEW r \in Runs, proc'[r] # "none" PROVE (Submitted(r) \/ spc[r] = "failed")'
    BY DEF SeenInv
  <2>1. Submitted(r) \/ spc[r] = "failed"
    BY <1>0, <1>1, ProcMoves DEF SeenInv, PlaceInv, SentInv, Placed
  <2> QED
    BY <1>0, <2>1, Moves, SubmitMoves DEF SubmitEnds
<1>12. FreshInv'
  <2>1. \A r \in Runs : spc[r] = "registered" => proc[r] = "none"
    BY <1>1 DEF SeenInv, Submitted
  <2> QED
    BY <1>0, <1>1, <2>1, FreshStep
<1> QED
  BY <1>3, <1>4, <1>5, <1>6, <1>7, <1>8, <1>9, <1>10, <1>11, <1>12 DEF KeepInv

-----------------------------------------------------------------------------
(* The same invariant at a crash, in a recovery and at the end of a process. *)

(* Boot, a sweep and the end of a process leave every record alone. *)
LEMMA QuietKeeps ==
  ASSUME Typed, KeepInv,
         UNCHANGED <<storeVars, live, bufs, jobs, workerVars, cancelVars, submitVars, past>>,
         \A r \in Runs : /\ proc'[r] = "alive" => proc[r] = "alive"
                         /\ proc'[r] = "none" <=> proc[r] = "none",
         \A w \in Workers : wpc[w] \in Supervising => proc'[cur[w]] = proc[cur[w]],
         TakenInv', SettledInv'
  PROVE  KeepInv'
<1>0. /\ LifeKnown /\ StoredInv /\ PidInv /\ PendInv /\ WaitsInv /\ SeenInv /\ LifeAlive
      /\ ReachInv /\ RefusedInv /\ RejectedInv /\ RunningIsSupervised /\ FreshInv
  BY DEF KeepInv
<1>1. UNCHANGED <<mem, disk, pend, live, bufs, jobs, wpc, cur, cpc, target, spc, past>>
  BY DEF storeVars, workerVars, cancelVars, submitVars
<1>2. \A r \in Runs : /\ Placed(r)' <=> Placed(r)
                      /\ HeldAt(r, Supervising)' <=> HeldAt(r, Supervising)
                      /\ HeldAt(r, Marked)' <=> HeldAt(r, Marked)
                      /\ Waiting(r)' \/ HeldAt(r, Before)' <=> Waiting(r) \/ HeldAt(r, Before)
  BY <1>1 DEF Placed, Waiting, Executing, HeldAt, Holds
<1>3. LifeKnown' /\ StoredInv'
  BY <1>0, <1>1 DEF LifeKnown, Known, StoredInv, Stored
<1>4. PidInv' /\ SeenInv' /\ LifeAlive'
  BY <1>0, <1>1, <1>2 DEF PidInv, SeenInv, LifeAlive, Submitted
<1>5. PendInv'
  <2>1. \A a \in Actors, r \in Runs : Writes(a, r)' <=> Writes(a, r)
    BY <1>1 DEF Writes
  <2> QED
    BY <1>0, <1>1, <2>1 DEF PendInv
<1>6. WaitsInv'
  BY <1>0, <1>1 DEF WaitsInv
<1>7. ReachInv' /\ RefusedInv' /\ RejectedInv' /\ RunningIsSupervised' /\ FreshInv'
  BY <1>0, <1>1, <1>2 DEF ReachInv, RefusedInv, RejectedInv, RunningIsSupervised, FreshInv
<1> QED
  BY <1>3, <1>4, <1>5, <1>6, <1>7 DEF KeepInv

LEMMA BootKeeps ==
  ASSUME ServerInv, KeepInv, Boot
  PROVE  KeepInv'
<1>1. /\ Typed /\ daemon = "recovering" /\ daemon' = "up" /\ \A r \in Runs : scan[r] = "done"
      /\ UNCHANGED <<storeVars, live, bufs, jobs, proc, workerVars, cancelVars, submitVars,
                     past>>
  BY DEF ServerInv, Boot, vars, queueVars
<1>2. TakenInv'
  BY <1>1 DEF TakenInv
<1>3. SettledInv'
  <2>1. UNCHANGED <<mem, spc>>
    BY <1>1 DEF storeVars, submitVars
  <2>2. \A r \in Runs : Settled(r)' => Submitted(r)
    BY <2>1 DEF Settled, Submitted
  <2>3. \A r \in Runs : Submitted(r) => Terminal(mem[r].state)
    BY <1>1 DEF KeepInv, TakenInv
  <2> QED
    BY <2>1, <2>2, <2>3 DEF SettledInv, SettledIsTerminal, Terminal
<1> QED
  BY <1>1, <1>2, <1>3, QuietKeeps

LEMMA SweepKeeps ==
  ASSUME ServerInv, KeepInv, NEW r \in Runs, Sweep(r)
  PROVE  KeepInv'
<1>1. /\ Typed /\ RecoveryTypeOK /\ daemon = "recovering" /\ daemon' = daemon
      /\ ScanInv /\ PastInv /\ PlaceInv
      /\ disk[r].pid /\ scan' = [scan EXCEPT ![r] = "swept"]
      /\ proc' = [proc EXCEPT ![r] = "exited"] \/ proc' = proc
      /\ UNCHANGED <<storeVars, live, bufs, jobs, workerVars, cancelVars, submitVars, past>>
  BY DEF ServerInv, Sweep, Between
<1>2. proc[r] # "none"
  BY <1>1 DEF KeepInv, PidInv
<1>3. \A q \in Runs : /\ proc'[q] = "alive" => proc[q] = "alive"
                      /\ proc'[q] = "none" <=> proc[q] = "none"
  BY <1>1, <1>2 DEF Typed, TypeOK
<1>4. TakenInv'
  <2>1. UNCHANGED <<mem, spc>>
    BY <1>1 DEF storeVars, submitVars
  <2>2. \A q \in Runs : scan'[q] = "done" => scan[q] = "done"
    BY <1>1 DEF RecoveryTypeOK
  <2> QED
    BY <1>1, <2>1, <2>2 DEF KeepInv, TakenInv, Submitted, Terminal
<1>5. SettledInv'
  BY <1>1 DEF SettledInv
<1>6. \A w \in Workers : wpc[w] \notin Supervising
  <2>1. \A q \in Runs : ~Placed(q)
    BY <1>1 DEF ScanInv, PastInv, PlaceInv, SentInv, Submitted
  <2> QED
    BY <1>1, <2>1 DEF Placed, Executing, Typed, WorkerInv, Supervising
<1> QED
  BY <1>1, <1>3, <1>4, <1>5, <1>6, QuietKeeps

(* The end of an orphan, and no step at all. *)
LEMMA RestKeeps ==
  ASSUME ServerInv, KeepInv, (\E r \in Runs : OrphanExits(r)) \/ UNCHANGED serverVars
  PROVE  KeepInv'
<1>1. /\ Typed
      /\ UNCHANGED <<storeVars, live, bufs, jobs, workerVars, cancelVars, submitVars, past,
                     daemon, scan>>
      /\ \/ proc' = proc
         \/ \E r \in Runs : /\ proc[r] = "alive" /\ \A w \in Workers : cur[w] # r
                            /\ proc' = [proc EXCEPT ![r] = "exited"]
  BY DEF ServerInv, OrphanExits, recoveryVars, serverVars, vars, queueVars
<1>2. \A q \in Runs : /\ proc'[q] = "alive" => proc[q] = "alive"
                      /\ proc'[q] = "none" <=> proc[q] = "none"
  BY <1>1 DEF Typed, TypeOK
<1>3. UNCHANGED <<mem, jobs, wpc, cur, spc>>
  BY <1>1 DEF storeVars, workerVars, submitVars
<1>4. TakenInv'
  BY <1>1, <1>3 DEF KeepInv, TakenInv, Submitted, Terminal
<1>5. SettledInv'
  <2>1. \A q \in Runs : Settled(q)' <=> Settled(q)
    BY <1>3 DEF Settled, Submitted, Waiting, HeldAt, Holds
  <2> QED
    BY <1>1, <1>3, <2>1 DEF KeepInv, SettledInv, SettledIsTerminal, Terminal
<1>6. \A w \in Workers : wpc[w] \in Supervising => proc'[cur[w]] = proc[cur[w]]
  <2>1. \A w \in Workers : wpc[w] \in Supervising => cur[w] \in Runs
    BY <1>1 DEF Typed, WorkerInv, Supervising
  <2> QED
    BY <1>1, <2>1 DEF Typed, TypeOK
<1> QED
  BY <1>1, <1>2, <1>4, <1>5, <1>6, QuietKeeps

LEMMA CrashKeeps ==
  ASSUME ServerInv, KeepInv, Crash
  PROVE  KeepInv'
<1>0. /\ Typed /\ PastInv
      /\ StoredInv /\ PidInv /\ SeenInv /\ LifeKnown
  BY DEF ServerInv, KeepInv
<1>1. /\ daemon' = "recovering" /\ \A r \in Runs : scan'[r] = "todo"
      /\ \A r \in Runs : past'[r] = "none" => past[r] = "none" /\ spc[r] = "new"
      /\ proc' = proc /\ disk' = disk /\ jobs' = <<>>
      /\ \A r \in Runs : mem'[r] = Absent
      /\ \A w \in Workers : wpc'[w] = "idle" /\ cur'[w] = NoRun
      /\ \A c \in Cancels : cpc'[c] \in {"new", "done"}
      /\ \A r \in Runs : spc'[r] = IF spc[r] \in {"new"} \union SubmitEnds THEN spc[r]
                                   ELSE "failed"
      /\ live' = {} /\ \A r \in Runs : bufs'[r] = "none"
  BY DEF Crash, LoseMemory, Cut
<1>2. Absent.state = "absent" /\ ~Absent.pid
  BY DEF Absent
<1>3. \A r \in Runs : ~Placed(r)'
  BY <1>1 DEF Placed, Waiting, Executing
<1>4. \A r \in Runs : spc'[r] \in {"new", "acked", "rejected", "failed", "panicked"}
  BY <1>1 DEF SubmitEnds
<1>5. LifeKnown' /\ LifeAlive'
  <2>1. \A r \in Runs : past'[r] = "none" => spc'[r] = "new"
    BY <1>1
  <2>2. \A r \in Runs : spc[r] = "new" => proc[r] = "none"
    BY <1>0 DEF SeenInv, Submitted
  <2> QED
    BY <1>1, <2>1, <2>2 DEF LifeKnown, LifeAlive
<1>6. StoredInv'
  BY <1>0, <1>1 DEF StoredInv, Stored
<1>7. TakenInv' /\ SettledInv'
  BY <1>1 DEF TakenInv, SettledInv
<1>8. PidInv'
  BY <1>0, <1>1, <1>2 DEF PidInv
<1>9. PendInv'
  <2>1. \A a \in Actors, r \in Runs : ~Writes(a, r)'
    BY <1>1, <1>4 DEF Writes
  <2> QED
    BY <2>1 DEF PendInv
<1>10. WaitsInv'
  BY <1>1 DEF WaitsInv, Supervising
<1>11. SeenInv'
  BY <1>0, <1>1 DEF SeenInv, Submitted, SubmitEnds
<1>12. ReachInv' /\ RefusedInv'
  BY <1>1, <1>3, <1>4 DEF ReachInv, RefusedInv
<1>13. RejectedInv' /\ RunningIsSupervised' /\ FreshInv'
  BY <1>1, <1>2, <1>3 DEF RejectedInv, RunningIsSupervised, FreshInv, Placed, Executing,
          HeldAt, Holds
<1> QED
  BY <1>5, <1>6, <1>7, <1>8, <1>9, <1>10, <1>11, <1>12, <1>13 DEF KeepInv

LEMMA AdoptKeeps ==
  ASSUME ServerInv, KeepInv, NEW r \in Runs, Adopt(r)
  PROVE  KeepInv'
<1>0. /\ Typed /\ RecoveryTypeOK /\ NewInv /\ PastInv /\ ScanInv
      /\ LifeKnown /\ StoredInv /\ TakenInv /\ PidInv /\ PendInv /\ WaitsInv
      /\ SeenInv /\ LifeAlive /\ ReachInv /\ RefusedInv /\ RejectedInv /\ RunningIsSupervised
      /\ FreshInv
  BY DEF ServerInv, KeepInv
<1>1. /\ UNCHANGED <<pend, jobs, proc, live, bufs, workerVars, cancelVars, submitVars, past,
                     daemon>>
      /\ UNCHANGED <<spc, wpc, cur>>
      /\ daemon = "recovering" /\ scan' = [scan EXCEPT ![r] = "done"]
  BY AdoptMoves
<1>2. /\ \A q \in Runs : q # r => mem'[q] = mem[q] /\ disk'[q] = disk[q]
      /\ mem'[r].state \notin LiveStates /\ (mem'[r].pid => disk[r].pid)
      /\ disk[r].state # "absent" => Terminal(mem'[r].state)
      /\ disk'[r].pid = disk[r].pid
      /\ disk[r].state # "absent" => disk'[r].state # "absent"
  BY AdoptMoves
<1>3. \A q \in Runs : past[q] = "none" => spc[q] = "new"
  BY <1>0, <1>1 DEF ScanInv
<1>4. \A q \in Runs : spc[q] \in {"new"} \union SubmitEnds
  BY <1>0, <1>3 DEF PastInv
<1>5. \A q \in Runs : /\ Placed(q)' <=> Placed(q)
                      /\ HeldAt(q, Supervising)' <=> HeldAt(q, Supervising)
                      /\ HeldAt(q, Marked)' <=> HeldAt(q, Marked)
                      /\ Waiting(q)' \/ HeldAt(q, Before)' <=> Waiting(q) \/ HeldAt(q, Before)
  BY <1>1 DEF Placed, Waiting, Executing, HeldAt, Holds
<1>6. LifeKnown'
  BY <1>1, <1>3 DEF LifeKnown
<1>7. StoredInv'
  BY <1>0, <1>1, <1>2 DEF StoredInv, Stored
<1>8. TakenInv'
  <2> SUFFICES ASSUME NEW q \in Runs, scan'[q] = "done", Submitted(q)'
               PROVE  Terminal(mem'[q].state)
    BY DEF TakenInv, Terminal
  <2>1. Submitted(q) /\ Stored(q)
    BY <1>1 DEF Submitted, Stored
  <2>2. CASE q = r
    BY <1>0, <1>2, <2>1, <2>2 DEF StoredInv
  <2>3. CASE q # r
    BY <1>0, <1>1, <1>2, <2>1, <2>3 DEF TakenInv, RecoveryTypeOK
  <2> QED
    BY <2>2, <2>3
<1>9. SettledInv'
  BY <1>1 DEF SettledInv
<1>10. PidInv'
  BY <1>0, <1>1, <1>2 DEF PidInv
<1>11. PendInv'
  <2>1. \A a \in Actors, q \in Runs : Writes(a, q)' <=> Writes(a, q)
    BY <1>1 DEF Writes, cancelVars
  <2> QED
    BY <1>0, <1>1, <2>1 DEF PendInv
<1>12. WaitsInv' /\ SeenInv' /\ LifeAlive'
  BY <1>0, <1>1, <1>5 DEF WaitsInv, SeenInv, LifeAlive, Submitted
<1>13. ReachInv' /\ RefusedInv' /\ FreshInv'
  BY <1>0, <1>1, <1>5 DEF ReachInv, RefusedInv, FreshInv
<1>14. RejectedInv' /\ RunningIsSupervised'
  BY <1>0, <1>1, <1>2, <1>5 DEF RejectedInv, RunningIsSupervised, LiveStates
<1> QED
  BY <1>6, <1>7, <1>8, <1>9, <1>10, <1>11, <1>12, <1>13, <1>14 DEF KeepInv

LEMMA KeepAlways == ServerSpec => [](ServerInv /\ KeepInv)
<1>1. ServerInv /\ KeepInv /\ [ServerNext]_serverVars => KeepInv'
  <2> SUFFICES ASSUME ServerInv, KeepInv, [ServerNext]_serverVars PROVE KeepInv'
    OBVIOUS
  <2>1. CASE Serve
    BY <2>1, ServeKeeps DEF Serve
  <2>2. CASE Crash
    BY <2>2, CrashKeeps
  <2>3. CASE Recovery
    BY <2>3, BootKeeps, SweepKeeps, AdoptKeeps DEF Recovery
  <2>4. CASE (\E r \in Runs : OrphanExits(r)) \/ UNCHANGED serverVars
    BY <2>4, RestKeeps
  <2> QED
    BY <2>1, <2>2, <2>3, <2>4 DEF ServerNext
<1> QED
  BY <1>1, KeepInit, ServerInvAlways, PTL DEF ServerSpec

-----------------------------------------------------------------------------
(* What Queue owes its callers, kept through crashes and recoveries.       *)

(***************************************************************************)
(* No run is in two hands, whatever was in flight when the daemon went     *)
(* down (Submit, worker, Recover).                                         *)
(***************************************************************************)
THEOREM NeverTwiceInALife == ServerSpec => []OneHolder
<1>1. ServerInv => OneHolder
  BY DEF ServerInv, PlaceInv
<1> QED
  BY <1>1, ServerInvAlways, PTL

LaunchesOnce == \A r \in Runs : proc'[r] = "alive" => proc[r] \in {"none", "alive"}

(***************************************************************************)
(* In all the lives of the daemon the process of a run is started at most  *)
(* once: no crash has a run executed again that was launched before it     *)
(* (Execute's cmd.Start; Recover puts nothing back in the queue).          *)
(***************************************************************************)
THEOREM LaunchedOnce == ServerSpec => [][LaunchesOnce]_serverVars
<1>1. ServerInv /\ KeepInv /\ [ServerNext]_serverVars => [LaunchesOnce]_serverVars
  <2> SUFFICES ASSUME ServerInv, KeepInv, ServerNext, NEW r \in Runs, proc'[r] = "alive"
               PROVE  proc[r] \in {"none", "alive"}
    BY DEF LaunchesOnce
  <2>0. /\ Typed /\ PlaceInv /\ FreshInv
        /\ proc \in [Runs -> {"none", "alive", "exited"}]
    BY DEF ServerInv, KeepInv, Typed, TypeOK
  <2>1. CASE Serve
    <3>1. ASSUME NEW w \in Workers, Launch(w), cur[w] = r PROVE proc[r] = "none"
      BY <2>0, <3>1 DEF Launch, WorkerStep, FreshInv, HeldAt, Holds, Before
    <3>2. ASSUME NEW w \in Workers, NEW o \in TerminalStates, ExecuteReturns(w, o), cur[w] = r
          PROVE  FALSE
      BY <2>0, <3>2 DEF ExecuteReturns
    <3> QED
      BY <2>0, <2>1, <3>1, <3>2, ProcByWorker DEF Serve
  <2>2. CASE Crash
    BY <2>2 DEF Crash, LoseMemory
  <2>3. CASE Recovery
    <3>1. ASSUME NEW q \in Runs, Sweep(q) PROVE proc[r] = "alive"
      BY <2>0, <3>1 DEF Sweep
    <3>2. CASE Boot
      BY <3>2 DEF Boot, vars, queueVars
    <3>3. ASSUME NEW q \in Runs, Adopt(q) PROVE proc' = proc
      BY <3>3 DEF Adopt, queueVars
    <3> QED
      BY <2>3, <3>1, <3>2, <3>3 DEF Recovery
  <2>4. CASE \E q \in Runs : OrphanExits(q)
    BY <2>0, <2>4 DEF OrphanExits
  <2> QED
    BY <2>1, <2>2, <2>3, <2>4 DEF ServerNext
<1> QED
  BY <1>1, KeepAlways, PTL DEF ServerSpec

(***************************************************************************)
(* A run that reads "running" has its worker in this life: no recovery     *)
(* leaves one in that state (MarkRunning in execute, finish, Recover).     *)
(***************************************************************************)
THEOREM SupervisedThroughCrashes == ServerSpec => []RunningIsSupervised
<1>1. KeepInv => RunningIsSupervised
  BY DEF KeepInv
<1> QED
  BY <1>1, KeepAlways, PTL

(***************************************************************************)
(* A record that reads "queued" after a restart is one of a submission     *)
(* made since, with the exceptions of Queue (createRun, Submit, Recover).  *)
(***************************************************************************)
THEOREM QueuedThroughCrashes == ServerSpec => [](daemon = "up" => QueuedIsPending)
<1>1. ServerInv /\ KeepInv => (daemon = "up" => QueuedIsPending)
  <2> SUFFICES ASSUME KeepInv, daemon = "up", NEW r \in Runs, mem[r].state = "queued",
                      ~Waiting(r), ~HeldAt(r, Unfinished)
               PROVE  spc[r] \notin {"sent", "acked", "rejected"}
    BY DEF QueuedIsPending
  <2>1. ~Terminal(mem[r].state)
    BY DEF Terminal, TerminalStates
  <2>2. ~Submitted(r)
    BY <2>1 DEF KeepInv, SettledInv, SettledIsTerminal, Settled
  <2> QED
    BY <2>2 DEF Submitted, KeepInv, RejectedInv
<1> QED
  BY <1>1, KeepAlways, PTL

(* A recovery finds no buffer, and a closed one is that of a run of this   *)
(* life that is finalised.                                                 *)
BufferInv == ClosedInv /\ (daemon = "recovering" => \A r \in Runs : bufs[r] = "none")

LEMMA BufferAlways == ServerSpec => []BufferInv
<1>1. ServerInit => BufferInv
  BY DEF ServerInit, Init, QueueInit, BufferInv, ClosedInv
<1>2. ServerInv /\ BufferInv /\ [ServerNext]_serverVars => BufferInv'
  <2> SUFFICES ASSUME ServerInv, BufferInv, [ServerNext]_serverVars PROVE BufferInv'
    OBVIOUS
  <2>1. CASE Serve
    BY <2>1, ClosedStep DEF Serve, ServerInv, BufferInv, recoveryVars
  <2>2. CASE Crash
    BY <2>2 DEF Crash, LoseMemory, BufferInv, ClosedInv
  <2>3. CASE Recovery
    <3>1. daemon = "recovering" /\ bufs' = bufs
      BY <2>3 DEF Recovery, Boot, Sweep, Adopt, Between, ServerInv, ScanInv, vars, queueVars
    <3> QED
      BY <3>1 DEF BufferInv, ClosedInv
  <2>4. CASE (\E r \in Runs : OrphanExits(r)) \/ UNCHANGED serverVars
    <3>1. UNCHANGED <<bufs, jobs, cur, wpc, spc, daemon>>
      BY <2>4 DEF OrphanExits, serverVars, recoveryVars, vars, queueVars, workerVars, submitVars
    <3> QED
      BY <3>1 DEF BufferInv, ClosedInv, Placed, Waiting, Executing, HeldAt, Holds, Submitted
  <2> QED
    BY <2>1, <2>2, <2>3, <2>4 DEF ServerNext
<1> QED
  BY <1>1, <1>2, ServerInvAlways, PTL DEF ServerSpec

(***************************************************************************)
(* cancel and getLog find what this life queues or executes, and nothing   *)
(* an earlier one left is taken for it; no closed buffer is that of a run  *)
(* that reads as unfinished (Submit, finish, Recover).                     *)
(***************************************************************************)
THEOREM ReachableThroughCrashes == ServerSpec => []ReachableWhileLive
<1>1. ServerInv /\ KeepInv /\ BufferInv => ReachableWhileLive
  <2> SUFFICES ASSUME ServerInv, KeepInv, BufferInv PROVE ReachableWhileLive
    OBVIOUS
  <2>1. \A r \in Runs : Placed(r) => Known(r)
    BY DEF ServerInv, PastInv, PlaceInv, SentInv, Submitted, KeepInv, LifeKnown
  <2>2. \A r \in Runs : bufs[r] = "closed" /\ Settled(r) => Terminal(mem[r].state)
    BY DEF BufferInv, KeepInv, SettledInv, SettledIsTerminal, ServerInv, RecoveryTypeOK
  <2> QED
    BY <2>1, <2>2, ReachableByInv DEF ServerInv, KeepInv, BufferInv
<1> QED
  BY <1>1, KeepAlways, BufferAlways, PTL

(***************************************************************************)
(* A submission answered 429 is never executed, in no life of the daemon:  *)
(* its directory is on disk, but no recovery revives it (Submit's default  *)
(* branch, createRun, Recover).                                            *)
(***************************************************************************)
THEOREM RefusedThroughCrashes == ServerSpec => []RefusedNeverRuns
<1>1. ServerInv /\ KeepInv => RefusedNeverRuns
  <2> SUFFICES ASSUME ServerInv, KeepInv, NEW r \in Runs,
                      spc[r] \in {"refusing", "refused", "rejected"}
               PROVE  /\ r \notin live /\ bufs[r] = "none"
                      /\ ~Waiting(r) /\ ~HeldAt(r, WorkerPCs) /\ proc[r] = "none"
    BY DEF RefusedNeverRuns
  <2>1. ~Submitted(r)
    BY DEF Submitted
  <2>2. ~Placed(r) /\ proc[r] = "none"
    BY <2>1 DEF ServerInv, PlaceInv, SentInv, KeepInv, SeenInv
  <2> QED
    BY <2>2 DEF KeepInv, RefusedInv, Placed, Executing, HeldAt, Holds
<1> QED
  BY <1>1, KeepAlways, PTL

NoneForgotten ==
  daemon = "up" => \A r \in Runs : Submitted(r) =>
    Waiting(r) \/ HeldAt(r, Unfinished) \/ Terminal(mem[r].state)

(***************************************************************************)
(* What was accepted is on its way or has ended: a run answered 202 is in  *)
(* the queue, at a worker, or reads a terminal state, after any number of  *)
(* crashes and although writes may have failed (createRun, finish,         *)
(* Recover).                                                               *)
(***************************************************************************)
THEOREM AcceptedIsNotLost == ServerSpec => []NoneForgotten
<1>1. KeepInv => NoneForgotten
  BY DEF KeepInv, SettledInv, SettledIsTerminal, Settled, NoneForgotten
<1> QED
  BY <1>1, KeepAlways, PTL

HistoryStays ==
  \A r \in Runs : past[r] # "none" /\ Terminal(disk[r].state) => disk'[r] = disk[r]

(***************************************************************************)
(* The history is not rewritten: the meta.json of a run that ended before  *)
(* the daemon went down, or that a recovery gave up, is not changed by any *)
(* later life, its recovery included (Recover, Store.Update).              *)
(***************************************************************************)
THEOREM HistoryIsKept == ServerSpec => [][HistoryStays]_serverVars
<1>1. ServerInv /\ [ServerNext]_serverVars => [HistoryStays]_serverVars
  <2> SUFFICES ASSUME ServerInv, ServerNext, NEW r \in Runs, past[r] # "none",
                      Terminal(disk[r].state)
               PROVE  disk'[r] = disk[r]
    BY DEF HistoryStays
  <2>1. CASE Serve
    BY <2>1, PastFrozen DEF Serve, ServerInv
  <2>2. CASE Crash
    BY <2>2 DEF Crash, LoseMemory
  <2>3. CASE Boot \/ \E q \in Runs : Sweep(q) \/ OrphanExits(q)
    BY <2>3 DEF Boot, Sweep, OrphanExits, vars, storeVars
  <2>4. ASSUME NEW q \in Runs, Adopt(q) PROVE disk'[r] = disk[r]
    <3>1. ~Orphaned(r)
      BY DEF Orphaned, LiveStates, Terminal, TerminalStates
    <3> QED
      BY <2>4, <3>1, AdoptMoves
  <2> QED
    BY <2>1, <2>2, <2>3, <2>4 DEF ServerNext, Recovery
<1> QED
  BY <1>1, ServerInvAlways, PTL DEF ServerSpec

LifeWithinPool ==
  Cardinality({r \in Runs : \/ mem[r].state = "running"
                            \/ proc[r] = "alive" /\ past[r] = "none"})
    <= Cardinality(Workers)

(***************************************************************************)
(* A restart does not let the pool run more: the runs that read "running"  *)
(* and the live group leaders that this life started are at most as many   *)
(* as the workers, and a worker of this life waits for each such leader.   *)
(* Neither descendants of a leader that has exited nor the orphans of      *)
(* earlier lives are counted: nothing bounds them (PSTAD_MAX_CONCURRENT,   *)
(* worker, Recover).                                                       *)
(***************************************************************************)
THEOREM LifeWithinTheLimit ==
  ASSUME IsFiniteSet(Workers)
  PROVE  ServerSpec => [](LifeWithinPool /\ LifeAlive)
<1>1. KeepInv => LifeWithinPool /\ LifeAlive
  <2> SUFFICES ASSUME KeepInv PROVE LifeWithinPool
    BY DEF KeepInv
  <2> DEFINE Busy == {r \in Runs : \/ mem[r].state = "running"
                                   \/ proc[r] = "alive" /\ past[r] = "none"}
  <2>1. \A r \in Busy : Executing(r)
    BY DEF KeepInv, RunningIsSupervised, LifeAlive, HeldAt, Holds, Executing
  <2>2. Cardinality(Busy) <= Cardinality(Workers)
    BY <2>1, OneEach
  <2> QED
    BY <2>2 DEF LifeWithinPool
<1> QED
  BY <1>1, KeepAlways, PTL

(***************************************************************************)
(* A recovery kills no group but that of a run which was launched: a PID   *)
(* in a record, in memory or on disk, is that of a process there was       *)
(* (onStart, Recover's KillTree).                                          *)
(***************************************************************************)
THEOREM PidsAreOfProcesses ==
  ServerSpec => [](\A r \in Runs : mem[r].pid \/ disk[r].pid => proc[r] # "none")
<1>1. KeepInv => \A r \in Runs : mem[r].pid \/ disk[r].pid => proc[r] # "none"
  BY DEF KeepInv, PidInv
<1> QED
  BY <1>1, KeepAlways, PTL

-----------------------------------------------------------------------------
(* Each life of the daemon is one of the queue.                            *)

(* Recover has the queue empty, as Start makes it. *)
EmptyInv ==
  daemon = "recovering" =>
    jobs = <<>> /\ cur = [w \in Workers |-> NoRun] /\ ~closed

LEMMA EmptyAlways == ServerSpec => []EmptyInv
<1>1. ServerInit => EmptyInv
  BY DEF ServerInit, EmptyInv
<1>2. EmptyInv /\ [ServerNext]_serverVars => EmptyInv'
  <2> SUFFICES ASSUME EmptyInv, [ServerNext]_serverVars PROVE EmptyInv'
    OBVIOUS
  <2>1. CASE Serve
    BY <2>1 DEF Serve, recoveryVars, EmptyInv
  <2>2. CASE Crash
    BY <2>2 DEF Crash, LoseMemory, EmptyInv
  <2>3. CASE Boot \/ UNCHANGED serverVars
    BY <2>3 DEF Boot, serverVars, recoveryVars, vars, queueVars, workerVars, EmptyInv
  <2>4. ASSUME NEW r \in Runs, Sweep(r) \/ Adopt(r) \/ OrphanExits(r) PROVE EmptyInv'
    BY <2>4 DEF Sweep, Adopt, OrphanExits, recoveryVars, queueVars, workerVars, EmptyInv
  <2> QED
    BY <2>1, <2>2, <2>3, <2>4 DEF ServerNext, Recovery
<1> QED
  BY <1>1, <1>2, PTL DEF ServerSpec

LivesDispatch ==
  /\ daemon = "up" /\ daemon' = "up" => [D!Next]_(D!vars)
  /\ daemon = "recovering" /\ daemon' = "up" =>
       jobs' = <<>> /\ cur' = [w \in Workers |-> NoRun] /\ ~closed'

(***************************************************************************)
(* After a restart the queue is the bounded FIFO again: it opens empty,    *)
(* and until the daemon goes down each of its steps is one of Dispatch, so *)
(* that no run over in an earlier life is accepted once more (queue.go:30- *)
(* 32, Start, Recover).                                                    *)
(***************************************************************************)
THEOREM DispatchInEveryLife == ServerSpec => [][LivesDispatch]_serverVars
<1>1. ServerInv /\ ServerInv' /\ EmptyInv /\ [ServerNext]_serverVars
        => [LivesDispatch]_serverVars
  <2> SUFFICES ASSUME ServerInv, ServerInv', EmptyInv, ServerNext PROVE LivesDispatch
    OBVIOUS
  <2>1. CASE Serve
    <3>1. Typed /\ Typed' /\ PlaceInv
      BY DEF ServerInv
    <3>2. [D!Next]_(D!vars)
      BY <2>1, <3>1, StepDispatches DEF Serve
    <3> QED
      BY <2>1, <3>2 DEF Serve, LivesDispatch
  <2>2. CASE Crash
    BY <2>2 DEF Crash, LivesDispatch
  <2>3. CASE Boot
    BY <2>3 DEF Boot, vars, queueVars, workerVars, EmptyInv, LivesDispatch
  <2>4. ASSUME NEW r \in Runs, Sweep(r) \/ Adopt(r) PROVE LivesDispatch
    <3>1. daemon = "recovering" /\ daemon' = daemon
      BY <2>4 DEF Sweep, Adopt, Between, ServerInv, ScanInv
    <3> QED
      BY <3>1 DEF LivesDispatch
  <2>5. ASSUME NEW r \in Runs, OrphanExits(r) PROVE LivesDispatch
    <3>1. UNCHANGED <<jobs, closed, cur, wpc, spc, daemon>>
      BY <2>5 DEF OrphanExits, workerVars, submitVars, recoveryVars
    <3>2. {q \in Runs : Retired(q)}' = {q \in Runs : Retired(q)}
      BY <3>1 DEF Retired, Submitted, Waiting, HeldAt, Holds
    <3>3. UNCHANGED D!vars
      BY <3>1, <3>2 DEF D!vars
    <3> QED
      BY <3>1, <3>3 DEF LivesDispatch
  <2> QED
    BY <2>1, <2>2, <2>3, <2>4, <2>5 DEF ServerNext, Recovery
<1> QED
  BY <1>1, ServerInvAlways, EmptyAlways, PTL DEF ServerSpec

(***************************************************************************)
(* In every life its workers use Execute as Execution has it, although the *)
(* trees of earlier lives may still run beside theirs (worker, execute).   *)
(***************************************************************************)
THEOREM CallsInEveryLife ==
  ServerSpec => [][daemon = "up" /\ daemon' = "up" => CallsAreExecutions]_serverVars
<1>1. /\ ServerInv /\ KeepInv /\ (ServerInv /\ KeepInv)' /\ [ServerNext]_serverVars
      => [daemon = "up" /\ daemon' = "up" => CallsAreExecutions]_serverVars
  <2> SUFFICES ASSUME ServerInv, KeepInv, ServerInv', KeepInv', ServerNext,
                      daemon = "up", daemon' = "up", NEW w \in Workers, cur'[w] \in Runs
               PROVE  /\ cur[w] # cur'[w] => E(w)!Init'
                      /\ cur[w] = cur'[w] => [E(w)!Next]_(E(w)!vars)
    BY DEF CallsAreExecutions
  <2>1. Typed /\ PlaceInv /\ FreshInv /\ FreshInv' /\ WaitsInv
    BY DEF ServerInv, KeepInv
  <2>2. CASE Serve
    BY <2>1, <2>2, CallStep, CallBegins DEF Serve
  <2>3. ASSUME NEW r \in Runs, OrphanExits(r)
        PROVE  cur' = cur /\ UNCHANGED E(w)!vars
    <3>1. /\ UNCHANGED <<rootDone, stopped, cur, wpc, outcome>>
          /\ cur[w] # r /\ proc' = [proc EXCEPT ![r] = "exited"]
      BY <2>3 DEF OrphanExits, workerVars
    <3>2. proc'[cur[w]] = proc[cur[w]]
      BY <2>1, <3>1 DEF Typed, TypeOK
    <3> QED
      BY <3>1, <3>2 DEF E!vars, Returned
  <2>4. ~Crash /\ ~Boot
    BY DEF Crash, Boot
  <2>5. ASSUME NEW r \in Runs, Sweep(r) \/ Adopt(r) PROVE FALSE
    BY <2>5 DEF Sweep, Adopt, Between, ServerInv, ScanInv
  <2> QED
    BY <2>2, <2>3, <2>4, <2>5 DEF ServerNext, Recovery
<1> QED
  BY <1>1, KeepAlways, PTL DEF ServerSpec
=============================================================================
