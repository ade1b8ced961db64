--------------------------- MODULE LogTailProofs ----------------------------
(***************************************************************************)
(* Theorems about LogTail, for every capacity of the ring, every number of *)
(* lines, and every place and limit a client polls with.                   *)
(***************************************************************************)
EXTENDS LogTail, LogBufProofs

USE LogTailAssumption, LogBufAssumption

-----------------------------------------------------------------------------
(* What a step does to the buffer. *)

LEMMA BufferMoves ==
  ASSUME TailNext
  PROVE  \/ UNCHANGED vars
         \/ /\ daemon = "up" /\ UNCHANGED daemon
            /\ \/ \E a \in Appenders : Record(a) \/ AppendReturns(a)
               \/ Close
         \/ \E limit \in Limits : FromMemory(limit) \/ FromFile(limit)
<1> DEFINE Goal ==
             \/ UNCHANGED vars
             \/ /\ daemon = "up" /\ UNCHANGED daemon
                /\ \/ \E a \in Appenders : Record(a) \/ AppendReturns(a)
                   \/ Close
             \/ \E limit \in Limits : FromMemory(limit) \/ FromFile(limit)
<1>1. reader \in Appenders /\ watcher \in Appenders /\ worker \in Appenders
  OBVIOUS
<1>2. CASE Worker
  <2>1. CASE Submit \/ Take \/ MarkRunning \/ NotStarted \/ Start \/ Flush \/ Finish
    BY <2>1 DEF Submit, Take, MarkRunning, NotStarted, Start, Flush, Finish
  <2>2. CASE Header \/ Tell \/ CloseBuffer
    BY <1>1, <2>2 DEF Header, Tell, CloseBuffer, Moves
  <2>3. CASE daemon = "up" /\ AppendReturns(worker) /\ UNCHANGED <<runVars, clientVars>>
    BY <1>1, <2>3 DEF runVars
  <2> QED BY <1>2, <2>1, <2>2, <2>3 DEF Worker
<1>3. CASE Read \/ Write \/ Watcher
  BY <1>1, <1>3 DEF Read, Write, Watcher, Complain, runVars
<1>4. CASE Cancel \/ CancelRecords \/ Crash \/ Restart \/ AskState \/ NoAnswer
  BY <1>4 DEF Cancel, CancelRecords, Crash, Restart, AskState, NoAnswer
<1>5. CASE Answer
  BY <1>5 DEF Answer
<1>6. CASE TailRest
  BY <1>6 DEF TailRest, tailVars
<1> QED BY <1>2, <1>3, <1>4, <1>5, <1>6 DEF TailNext

(* ... and to the output of the run.                                       *)
Out == file \o pending

Phases == {"added", "waiting", "taken", "preparing", "heading", "reading",
           "waited", "recorded", "telling", "over"}
Early == {"added", "waiting", "taken", "preparing"}
Late == {"recorded", "telling", "over"}

(* Where the run is in Execute, and what follows from it. *)
PhaseInv ==
  /\ wpc \in Early => ~logged /\ file = <<>> /\ pending = <<>> /\ nextSeq = 0
  /\ wpc # "reading" => apc[reader] = "idle"
  /\ wpc # "reading" \/ daemon # "up" => pending = <<>>
  /\ wpc \in {"heading", "reading"} => nextSeq >= 1
  /\ wpc \notin {"telling", "over"} => line[worker] = 0
  /\ rec = "finished" \/ known = "finished" => wpc \in Late

(* What was read of the child has numbers that grow, ahead of its place.   *)
OutInv ==
  /\ \A i \in 1..Len(Out) : i <= Out[i] /\ Out[i] < nextSeq
  /\ \A i, j \in 1..Len(Out) : i < j => Out[i] < Out[j]
  /\ wpc \in {"heading", "reading"} =>
       IF apc[reader] = "sending"
       THEN /\ Len(Out) + 1 <= line[reader]
            /\ \A i \in 1..Len(Out) : Out[i] < line[reader]
       ELSE Len(Out) + 1 <= nextSeq

TailTypes ==
  /\ lines \in Seq(Nat) /\ nextSeq \in Nat /\ line \in [Appenders -> Nat]
  /\ apc \in [Appenders -> {"idle", "sending", "panicked"}]
  /\ file \in Seq(Nat) /\ pending \in Seq(Nat)

LEMMA OutTypes ==
  ASSUME file \in Seq(Nat), pending \in Seq(Nat)
  PROVE  /\ Out \in Seq(Nat) /\ Len(Out) \in Nat /\ Len(Out) = Len(file) + Len(pending)
         /\ \A i \in 1..Len(Out) : Out[i] \in Nat
         /\ \A i \in 1..Len(file) : i \in 1..Len(Out) /\ Out[i] = file[i]
         /\ pending = <<>> => Out = file
<1>1. /\ Out \in Seq(Nat) /\ Len(Out) = Len(file) + Len(pending)
      /\ Len(file) \in Nat /\ Len(pending) \in Nat
      /\ \A i \in 1..Len(file) : Out[i] = file[i]
  BY DEF Out
<1>2. pending = <<>> => Out = file
  BY DEF Out
<1> QED BY <1>1, <1>2

(* A line of the child joins what it wrote before, flushed or not.         *)
LEMMA OutGrows ==
  ASSUME file \in Seq(Nat), pending \in Seq(Nat), NEW n \in Nat,
         \/ pending' = Append(pending, n) /\ file' = file
         \/ file' = file \o pending /\ pending' = <<n>>
         \/ file' = Append(file \o pending, n) /\ pending' = <<>>
  PROVE  /\ file' \in Seq(Nat) /\ pending' \in Seq(Nat)
         /\ Len(Out') = Len(Out) + 1 /\ Out'[Len(Out) + 1] = n
         /\ \A i \in 1..Len(Out) : Out'[i] = Out[i]
<1>1. Len(file) \in Nat /\ Len(pending) \in Nat
  OBVIOUS
<1>2. CASE pending' = Append(pending, n) /\ file' = file
  BY <1>1, <1>2 DEF Out
<1>3. CASE file' = file \o pending /\ pending' = <<n>>
  BY <1>1, <1>3 DEF Out
<1>4. CASE file' = Append(file \o pending, n) /\ pending' = <<>>
  BY <1>1, <1>4 DEF Out
<1> QED BY <1>2, <1>3, <1>4

LEMMA OutFlushed ==
  ASSUME file \in Seq(Nat), pending \in Seq(Nat), file' = file \o pending, pending' = <<>>
  PROVE  /\ file' \in Seq(Nat) /\ pending' \in Seq(Nat) /\ Out' = Out
  BY DEF Out

-----------------------------------------------------------------------------
(* What a step does to the output of the run.                              *)

(* An append of the watcher or the worker, each of which has one to make   *)
(* that the client can see.                                                *)
Others(a) ==
  /\ (Record(a) /\ line[a] = 0) \/ AppendReturns(a)
  /\ UNCHANGED <<file, pending>>
  /\ wpc' \in {"heading", "reading"} => wpc \in {"heading", "reading"}

Elsewhere ==
  /\ UNCHANGED <<lines, nextSeq, apc, line, file, pending>>
  /\ wpc' \in {"heading", "reading"} => wpc \in {"heading", "reading"}

LEMMA OutMoves ==
  ASSUME PhaseInv, TailNext
  PROVE  \/ Header \/ Read \/ Write \/ Flush \/ Crash
         \/ Others(watcher) \/ Others(worker)
         \/ Elsewhere
<1> DEFINE Goal == \/ Header \/ Read \/ Write \/ Flush \/ Crash
                   \/ Others(watcher) \/ Others(worker)
                   \/ Elsewhere
<1>1. CASE Header \/ Read \/ Write \/ Flush \/ Crash
  BY <1>1
<1>2. CASE Submit \/ Take \/ MarkRunning \/ NotStarted \/ Start \/ Finish
  BY <1>2 DEF Submit, Take, MarkRunning, NotStarted, Start, Finish, Moves, vars, bufferVars,
          appendVars, Elsewhere
<1>3. CASE CloseBuffer
  BY <1>3 DEF CloseBuffer, Close, Moves, appendVars, Elsewhere
<1>4. CASE Tell
  BY <1>4 DEF Tell, Moves, PhaseInv, Others
<1>5. ASSUME NEW a \in {watcher, worker},
             daemon = "up" /\ AppendReturns(a) /\ UNCHANGED <<runVars, clientVars>>
      PROVE  Goal
  BY <1>5 DEF Others, runVars
<1>6. CASE Complain
  BY <1>6 DEF Complain, Others, runVars
<1>7. CASE Cancel \/ CancelRecords \/ Restart \/ AskState \/ NoAnswer \/ TailRest
  BY <1>7 DEF Cancel, CancelRecords, Restart, AskState, NoAnswer, TailRest, tailVars, runVars,
          vars, bufferVars, appendVars, Elsewhere
<1>8. CASE Answer
  <2>1. ASSUME NEW limit \in Limits, FromMemory(limit) \/ FromFile(limit) PROVE Elsewhere
    BY <2>1 DEF FromMemory, FromFile, Poll, bufferVars, appendVars, runVars, Elsewhere
  <2> QED BY <1>8, <2>1 DEF Answer
<1> QED
  BY <1>1, <1>2, <1>3, <1>4, <1>5, <1>6, <1>7, <1>8 DEF TailNext, Worker, Watcher

-----------------------------------------------------------------------------
(* Where the run is.                                                       *)

LEMMA PhaseStep ==
  ASSUME TailTypes, PhaseInv, TailNext
  PROVE  PhaseInv'
<1> USE DEF Early, Late
<1>0. /\ apc \in [Appenders -> {"idle", "sending", "panicked"}] /\ line \in [Appenders -> Nat]
      /\ nextSeq \in Nat /\ reader \in Appenders /\ watcher \in Appenders /\ worker \in Appenders
      /\ reader # watcher /\ reader # worker /\ watcher # worker
  BY DEF TailTypes
<1>2. CASE Submit \/ Take \/ MarkRunning \/ NotStarted \/ Start \/ Finish
  <2> USE DEF Moves, vars, bufferVars, appendVars, clientVars
  <2>1. CASE Submit \/ Take
    BY <2>1 DEF PhaseInv, Submit, Take
  <2>2. CASE MarkRunning
    BY <2>2 DEF PhaseInv, MarkRunning
  <2>3. CASE NotStarted \/ Start
    BY <2>3 DEF PhaseInv, NotStarted, Start
  <2>4. CASE Finish
    BY <2>4 DEF PhaseInv, Finish
  <2> QED BY <1>2, <2>1, <2>2, <2>3, <2>4
<1>3. CASE Header
  BY <1>0, <1>3 DEF PhaseInv, Header, Record, Moves, clientVars
<1>4. CASE Flush
  BY <1>4 DEF PhaseInv, Flush, Moves, vars, bufferVars, appendVars, clientVars
<1>5. CASE Tell
  BY <1>0, <1>5 DEF PhaseInv, Tell, Record, Moves, clientVars
<1>6. CASE CloseBuffer
  BY <1>6 DEF PhaseInv, CloseBuffer, Close, Moves, appendVars, clientVars
<1>7. CASE Read \/ Complain
  BY <1>0, <1>7 DEF PhaseInv, Read, Complain, Record, runVars, clientVars
<1>8. CASE Write
  BY <1>0, <1>8 DEF PhaseInv, Write, AppendReturns, bufferVars, clientVars
<1>9. ASSUME NEW a \in {watcher, worker},
             daemon = "up" /\ AppendReturns(a) /\ UNCHANGED <<runVars, clientVars>>
      PROVE  PhaseInv'
  BY <1>0, <1>9 DEF PhaseInv, AppendReturns, bufferVars, runVars, clientVars
<1>10. CASE Cancel \/ CancelRecords \/ Crash \/ Restart \/ AskState \/ NoAnswer \/ TailRest
  <2> USE DEF vars, bufferVars, appendVars, runVars, clientVars
  <2>1. CASE Cancel \/ CancelRecords \/ Crash \/ Restart
    <3>1. CASE Cancel \/ CancelRecords
      BY <3>1 DEF PhaseInv, Cancel, CancelRecords
    <3>2. CASE Crash \/ Restart
      <4>1. /\ UNCHANGED <<nextSeq, apc, line, logged, file, wpc, known>>
            /\ pending' \in {pending, <<>>} /\ rec' \in {rec, "given up"}
            /\ daemon' # "up" /\ (daemon # "up" => pending' = pending)
            /\ (daemon = "up" => pending' = <<>>)
        BY <3>2 DEF Crash, Restart
      <4> QED BY <4>1 DEF PhaseInv
    <3> QED BY <2>1, <3>1, <3>2
  <2>2. CASE AskState \/ NoAnswer
    BY <2>2 DEF PhaseInv, AskState, NoAnswer
  <2>3. CASE TailRest
    BY <2>3 DEF PhaseInv, TailRest, tailVars
  <2> QED BY <1>10, <2>1, <2>2, <2>3
<1>11. CASE Answer
  <2>1. UNCHANGED <<bufferVars, appendVars, runVars, known>>
    BY <1>11 DEF Answer, FromMemory, FromFile, Poll
  <2> QED BY <2>1 DEF PhaseInv, bufferVars, appendVars, runVars
<1> QED
  BY <1>2, <1>3, <1>4, <1>5, <1>6, <1>7, <1>8, <1>9, <1>10, <1>11 DEF TailNext, Worker, Watcher

LEMMA OutStep ==
  ASSUME TailTypes, PhaseInv, OutInv, Numbered, TailNext
  PROVE  OutInv' /\ file' \in Seq(Nat) /\ pending' \in Seq(Nat)
<1> DEFINE Goal == OutInv' /\ file' \in Seq(Nat) /\ pending' \in Seq(Nat)
<1>0. /\ apc \in [Appenders -> {"idle", "sending", "panicked"}] /\ line \in [Appenders -> Nat]
      /\ nextSeq \in Nat /\ file \in Seq(Nat) /\ pending \in Seq(Nat)
      /\ reader \in Appenders /\ watcher \in Appenders /\ worker \in Appenders
      /\ reader # watcher /\ reader # worker /\ watcher # worker
  BY DEF TailTypes
<1>1. Len(Out) \in Nat /\ \A i \in 1..Len(Out) : Out[i] \in Nat
  BY <1>0, OutTypes
<1>2. CASE Header
  <2>1. /\ file' = <<>> /\ pending' = <<>> /\ nextSeq' = nextSeq + 1 /\ nextSeq = 0
        /\ apc' = [apc EXCEPT ![worker] = "sending"] /\ apc[reader] = "idle"
    BY <1>2 DEF Header, Record, Moves, PhaseInv, Early
  <2>2. Out' = <<>> /\ Len(Out') = 0
    BY <2>1 DEF Out
  <2> QED BY <1>0, <2>1, <2>2 DEF OutInv
<1>3. CASE Read
  <2>1. /\ UNCHANGED <<file, pending, wpc>> /\ nextSeq' = nextSeq + 1 /\ apc[reader] = "idle"
        /\ apc'[reader] = "sending" /\ line'[reader] = nextSeq /\ wpc = "reading"
    BY <1>0, <1>3 DEF Read, Record, runVars
  <2>2. Out' = Out
    BY <2>1 DEF Out
  <2> QED BY <1>0, <1>1, <2>1, <2>2 DEF OutInv
<1>4. CASE Write
  <2>1. /\ UNCHANGED <<wpc, nextSeq, line>> /\ apc[reader] = "sending" /\ apc'[reader] = "idle"
        /\ \/ pending' = Append(pending, line[reader]) /\ file' = file
           \/ file' = file \o pending /\ pending' = <<line[reader]>>
           \/ file' = Append(file \o pending, line[reader]) /\ pending' = <<>>
    BY <1>0, <1>4 DEF Write, AppendReturns, bufferVars
  <2>2. wpc = "reading"
    BY <2>1 DEF PhaseInv
  <2>3. line[reader] \in Nat /\ line[reader] < nextSeq
    BY <1>0, <2>1 DEF Numbered
  <2>4. /\ file' \in Seq(Nat) /\ pending' \in Seq(Nat)
        /\ Len(Out') = Len(Out) + 1 /\ Out'[Len(Out) + 1] = line[reader]
        /\ \A i \in 1..Len(Out) : Out'[i] = Out[i]
    BY <1>0, <2>1, <2>3, OutGrows
  <2>5. /\ Len(Out) + 1 <= line[reader]
        /\ \A i \in 1..Len(Out) : i <= Out[i] /\ Out[i] < line[reader]
        /\ \A i, j \in 1..Len(Out) : i < j => Out[i] < Out[j]
    BY <2>1, <2>2 DEF OutInv
  <2>6. \A i \in 1..Len(Out') : i \in 1..Len(Out) \/ i = Len(Out) + 1
    BY <1>1, <2>4
  <2>7. ASSUME NEW i \in 1..Len(Out') PROVE i <= Out'[i] /\ Out'[i] < nextSeq'
    <3>1. CASE i \in 1..Len(Out)
      <4>1. i <= Out[i] /\ Out[i] < line[reader] /\ Out[i] \in Nat /\ Out'[i] = Out[i]
        BY <1>1, <2>4, <2>5, <3>1
      <4> QED BY <1>0, <2>1, <2>3, <4>1
    <3>2. CASE i = Len(Out) + 1
      BY <2>1, <2>3, <2>4, <2>5, <3>2
    <3> QED BY <2>6, <3>1, <3>2
  <2>8. ASSUME NEW i \in 1..Len(Out'), NEW j \in 1..Len(Out'), i < j PROVE Out'[i] < Out'[j]
    <3>1. i \in 1..Len(Out)
      BY <1>1, <2>4, <2>8
    <3>2. CASE j \in 1..Len(Out)
      BY <2>4, <2>5, <2>8, <3>1, <3>2
    <3>3. CASE j = Len(Out) + 1
      BY <2>4, <2>5, <3>1, <3>3
    <3> QED BY <2>6, <3>2, <3>3
  <2>9. Len(Out') + 1 <= nextSeq'
    BY <1>0, <1>1, <2>1, <2>3, <2>4, <2>5
  <2> HIDE DEF Out
  <2> QED BY <2>1, <2>4, <2>7, <2>8, <2>9 DEF OutInv
<1>5. CASE Flush
  <2>1. /\ file' = file \o pending /\ pending' = <<>> /\ nextSeq' = nextSeq /\ wpc' = "waited"
    BY <1>5 DEF Flush, Moves, vars, bufferVars
  <2>2. file' \in Seq(Nat) /\ pending' \in Seq(Nat) /\ Out' = Out
    BY <1>0, <2>1, OutFlushed
  <2> QED BY <2>1, <2>2 DEF OutInv
<1>6. CASE Crash
  <2>1. /\ UNCHANGED <<file, nextSeq, wpc, apc, line>> /\ pending' = <<>>
    BY <1>6 DEF Crash, vars, bufferVars, appendVars
  <2>2. Out' = file /\ pending' \in Seq(Nat)
    BY <1>0, <2>1 DEF Out
  <2>3. Len(file) \in Nat /\ Len(file) <= Len(Out)
        /\ \A i \in 1..Len(file) : i \in 1..Len(Out) /\ Out[i] = file[i]
    <3>1. Len(file) \in Nat /\ Len(pending) \in Nat
      BY <1>0
    <3> QED BY <1>0, <3>1, OutTypes
  <2>4. \A i \in 1..Len(file) : i <= file[i] /\ file[i] < nextSeq
    BY <2>3 DEF OutInv
  <2>5. \A i, j \in 1..Len(file) : i < j => file[i] < file[j]
    BY <2>3 DEF OutInv
  <2>6. wpc \in {"heading", "reading"} =>
          IF apc[reader] = "sending"
          THEN /\ Len(file) + 1 <= line[reader]
               /\ \A i \in 1..Len(file) : file[i] < line[reader]
          ELSE Len(file) + 1 <= nextSeq
    BY <1>0, <1>1, <2>3 DEF OutInv
  <2> HIDE DEF Out
  <2> QED BY <1>0, <2>1, <2>2, <2>4, <2>5, <2>6 DEF OutInv
<1>7. ASSUME NEW a \in {watcher, worker}, Others(a) PROVE Goal
  <2>1. /\ UNCHANGED <<file, pending>> /\ nextSeq' \in {nextSeq, nextSeq + 1}
        /\ apc'[reader] = apc[reader] /\ line'[reader] = line[reader]
        /\ wpc' \in {"heading", "reading"} => wpc \in {"heading", "reading"}
    BY <1>0, <1>7 DEF Others, Record, AppendReturns, bufferVars
  <2>2. Out' = Out
    BY <2>1 DEF Out
  <2> QED BY <1>0, <1>1, <2>1, <2>2 DEF OutInv
<1>8. CASE Elsewhere
  <2>1. Out' = Out
    BY <1>8 DEF Elsewhere, Out
  <2> QED BY <1>0, <1>8, <2>1 DEF Elsewhere, OutInv
<1> HIDE DEF Goal
<1>9. Goal
  <2>1. CASE Header \/ Read \/ Write \/ Flush \/ Crash \/ Elsewhere
    BY <1>2, <1>3, <1>4, <1>5, <1>6, <1>8, <2>1 DEF Goal
  <2> QED BY <1>7, <2>1, OutMoves
<1> QED BY <1>9 DEF Goal

-----------------------------------------------------------------------------
(* Where the lines in the buffer come from.                                *)

(* The first line or the last of the watcher or the worker, or the child's *)
(* and on its way to run.log.                                              *)
Explained(n) ==
  \/ n = 0 \/ n = line[watcher] \/ n = line[worker]
  \/ \E j \in 1..Len(Out) : Out[j] = n
  \/ apc[reader] = "sending" /\ n = line[reader]

LinesInv == daemon = "up" => \A i \in 1..Len(lines) : Explained(lines[i])

LEMMA Recorded ==
  ASSUME lines \in Seq(Nat), nextSeq \in Nat, Len(lines) <= Capacity,
         NEW a \in Appenders, Record(a), NEW i \in 1..Len(lines')
  PROVE  lines'[i] = nextSeq \/ \E k \in 1..Len(lines) : lines'[i] = lines[k]
<1>1. lines' = Ring(nextSeq) /\ Len(lines) \in Nat
  BY LenProperties DEF Record
<1>2. /\ Len(lines') = IF Len(lines) = Capacity THEN Capacity ELSE Len(lines) + 1
      /\ lines'[Len(lines')] = nextSeq
      /\ \A k \in 1..(Len(lines') - 1) :
           lines'[k] = IF Len(lines) = Capacity THEN lines[k + 1] ELSE lines[k]
  BY <1>1, RingProperties
<1>3. CASE i = Len(lines')
  BY <1>2, <1>3
<1>4. CASE i # Len(lines')
  <2>1. i \in 1..(Len(lines') - 1)
    BY <1>1, <1>2, <1>4
  <2>2. IF Len(lines) = Capacity THEN i + 1 \in 1..Len(lines) ELSE i \in 1..Len(lines)
    BY <1>1, <1>2, <2>1
  <2> QED BY <1>2, <2>1, <2>2
<1> QED BY <1>3, <1>4

(* The daemon that has the buffer does not come back. *)
LEMMA UpOnce ==
  ASSUME TailNext, daemon' = "up"
  PROVE  daemon = "up"
<1>1. CASE Worker \/ Read \/ Write \/ Watcher
  BY <1>1 DEF Worker, Read, Write, Watcher, Complain, Submit, Take, MarkRunning, NotStarted,
          Header, Start, Flush, Finish, Tell, CloseBuffer, Moves
<1>2. CASE Cancel \/ CancelRecords \/ Crash \/ Restart
  BY <1>2 DEF Cancel, CancelRecords, Crash, Restart
<1>3. CASE AskState \/ Answer \/ NoAnswer \/ TailRest
  BY <1>3 DEF AskState, Answer, FromMemory, FromFile, NoAnswer, TailRest, tailVars, runVars
<1> QED BY <1>1, <1>2, <1>3 DEF TailNext

LEMMA LinesStep ==
  ASSUME TailTypes, Len(lines) <= Capacity, PhaseInv, LinesInv, TailNext
  PROVE  LinesInv'
<1> SUFFICES ASSUME daemon' = "up", NEW i \in 1..Len(lines') PROVE Explained(lines[i])'
  BY DEF LinesInv
<1>0. /\ apc \in [Appenders -> {"idle", "sending", "panicked"}] /\ line \in [Appenders -> Nat]
      /\ nextSeq \in Nat /\ lines \in Seq(Nat) /\ file \in Seq(Nat) /\ pending \in Seq(Nat)
      /\ reader \in Appenders /\ watcher \in Appenders /\ worker \in Appenders
      /\ reader # watcher /\ reader # worker /\ watcher # worker
  BY DEF TailTypes
<1>1. \A k \in 1..Len(lines) : Explained(lines[k])
  BY UpOnce DEF LinesInv
<1>2. CASE Header
  <2>1. /\ nextSeq = 0 /\ line[worker] = 0 /\ apc[reader] # "sending" /\ Out = <<>>
    BY <1>2 DEF Header, Moves, PhaseInv, Early, Out
  <2>2. line' = [line EXCEPT ![worker] = nextSeq] /\ Record(worker)
    BY <1>2 DEF Header, Record
  <2>3. \A k \in 1..Len(lines) : lines[k] \in {0, line[watcher]}
    BY <1>1, <2>1 DEF Explained
  <2>4. lines'[i] \in {0, line[watcher]}
    BY <1>0, <2>1, <2>2, <2>3, Recorded
  <2> QED BY <1>0, <2>2, <2>4 DEF Explained
<1>3. CASE Read
  <2>1. /\ Record(reader) /\ apc[reader] # "sending" /\ UNCHANGED <<file, pending>>
        /\ apc'[reader] = "sending" /\ line' = [line EXCEPT ![reader] = nextSeq]
    BY <1>0, <1>3 DEF Read, Record, runVars
  <2>2. Out' = Out
    BY <2>1 DEF Out
  <2>3. CASE lines'[i] = nextSeq
    BY <1>0, <2>1, <2>3 DEF Explained
  <2>4. ASSUME NEW k \in 1..Len(lines), lines'[i] = lines[k] PROVE Explained(lines[i])'
    BY <1>0, <1>1, <2>1, <2>2, <2>4 DEF Explained
  <2> QED BY <1>0, <2>1, <2>3, <2>4, Recorded
<1>4. CASE Write
  <2>1. /\ UNCHANGED <<lines, line>> /\ apc[reader] = "sending"
        /\ \/ pending' = Append(pending, line[reader]) /\ file' = file
           \/ file' = file \o pending /\ pending' = <<line[reader]>>
           \/ file' = Append(file \o pending, line[reader]) /\ pending' = <<>>
    BY <1>4 DEF Write, AppendReturns, bufferVars
  <2>2. /\ Len(Out') = Len(Out) + 1 /\ Out'[Len(Out) + 1] = line[reader]
        /\ \A k \in 1..Len(Out) : Out'[k] = Out[k]
    BY <1>0, <2>1, OutGrows
  <2>3. Len(Out) \in Nat
    BY <1>0, OutTypes
  <2>4. Len(Out) + 1 \in 1..Len(Out') /\ \A k \in 1..Len(Out) : k \in 1..Len(Out')
    BY <2>2, <2>3
  <2>5. Explained(lines[i])
    BY <1>1, <2>1
  <2> HIDE DEF Out
  <2> QED BY <2>1, <2>2, <2>4, <2>5 DEF Explained
<1>5. CASE Flush
  <2>1. /\ file' = file \o pending /\ pending' = <<>> /\ UNCHANGED <<lines, line, apc>>
    BY <1>5 DEF Flush, vars, bufferVars, appendVars
  <2>2. Out' = Out
    BY <1>0, <2>1, OutFlushed
  <2> QED BY <1>1, <2>1, <2>2 DEF Explained
<1>6. ASSUME NEW a \in {watcher, worker}, Others(a) PROVE Explained(lines[i])'
  <2>1. /\ UNCHANGED <<file, pending>> /\ apc'[reader] = apc[reader]
        /\ line'[reader] = line[reader]
    BY <1>0, <1>6 DEF Others, Record, AppendReturns, bufferVars
  <2>2. Out' = Out
    BY <2>1 DEF Out
  <2>3. CASE Record(a) /\ line[a] = 0
    <3>1. line' = [line EXCEPT ![a] = nextSeq]
      BY <2>3 DEF Record
    <3>2. CASE lines'[i] = nextSeq
      BY <1>0, <3>1, <3>2 DEF Explained
    <3>3. ASSUME NEW k \in 1..Len(lines), lines'[i] = lines[k] PROVE Explained(lines[i])'
      BY <1>0, <1>1, <2>1, <2>2, <2>3, <3>1, <3>3 DEF Explained
    <3> QED BY <1>0, <2>3, <3>2, <3>3, Recorded
  <2>4. CASE AppendReturns(a)
    <3>1. UNCHANGED <<lines, line>>
      BY <2>4 DEF AppendReturns, bufferVars
    <3> QED BY <1>1, <2>1, <2>2, <3>1 DEF Explained
  <2> QED BY <1>6, <2>3, <2>4 DEF Others
<1>7. CASE Elsewhere
  <2>1. Out' = Out
    BY <1>7 DEF Elsewhere, Out
  <2> QED BY <1>1, <1>7, <2>1 DEF Elsewhere, Explained
<1>8. ~Crash
  BY DEF Crash
<1> QED BY <1>2, <1>3, <1>4, <1>5, <1>6, <1>7, <1>8, OutMoves

-----------------------------------------------------------------------------
(* What the client gets from the file.                                     *)

LEMMA FileIsOrdered ==
  ASSUME file \in Seq(Nat), pending \in Seq(Nat), OutInv
  PROVE  \A i \in 1..Len(file) :
           /\ i <= file[i] /\ file[i] < nextSeq
           /\ \A j \in 1..Len(file) : i < j => file[i] < file[j]
BY OutTypes DEF OutInv

LEMMA FileLinesAreOrdered ==
  ASSUME file \in Seq(Nat), pending \in Seq(Nat), OutInv
  PROVE  /\ FileLines \in Seq(Nat) /\ Len(FileLines) \in Nat /\ Len(FileLines) >= 1
         /\ \A i \in 1..Len(FileLines) :
              /\ FileLines[i] \in Nat
              /\ i <= FileLines[i] \/ FileLines[i] = MaxLines
         /\ \A i, j \in 1..Len(FileLines) : i < j => FileLines[i] < FileLines[j]
<1>1. CASE file = <<>>
  <2>1. FileLines = <<MaxLines>> /\ MaxLines \in Nat
    BY <1>1 DEF FileLines, Blank
  <2> QED BY <2>1
<1>2. CASE file # <<>>
  <2>1. FileLines = file /\ Len(file) \in Nat /\ Len(file) >= 1
    BY <1>2, EmptySeq, LenProperties DEF FileLines
  <2>2. \A i \in 1..Len(file) : file[i] \in Nat
    BY ElementOfSeq
  <2> QED BY <2>1, <2>2, FileIsOrdered
<1> QED BY <1>1, <1>2

(* The answer has every line from the cursor to the next one, and no line  *)
(* is left behind when there is one to give.                               *)
LEMMA FileAnswer ==
  ASSUME Len(FileLines) \in Nat, cursor \in Int, NEW limit \in Limits, TailFile(limit)
  PROVE  /\ cursor' \in 1..Len(FileLines) \/ cursor' = Len(FileLines)
         /\ \A n \in got' : \E i \in 1..Len(FileLines) :
              n = FileLines[i] /\ cursor < i /\ i <= cursor'
         /\ \A i \in 1..Len(FileLines) : cursor < i /\ i <= cursor' => FileLines[i] \in got'
         /\ \A i \in 1..Len(FileLines) : cursor' < i => cursor < i
<1> DEFINE out == InFile(cursor, limit)
<1>1. limit \in Int
  OBVIOUS
<1>2. /\ out \in SUBSET (1..Len(FileLines))
      /\ got' = {FileLines[i] : i \in out} /\ cursor' = NextInFile(out)
  BY DEF InFile, TailFile
<1>3. \A i \in out : cursor < i
  BY DEF InFile
<1>4. CASE out = {}
  <2>1. cursor' = Len(FileLines) /\ got' = {}
    BY <1>2, <1>4 DEF NextInFile
  <2>2. ASSUME NEW i \in 1..Len(FileLines), cursor < i PROVE FALSE
    <3> DEFINE next == IF cursor < 0 THEN 1 ELSE cursor + 1
    <3>1. next \in 1..Len(FileLines)
      BY <2>2
    <3>2. next - 1 >= cursor /\ (limit > 0 => next <= limit \/ next - cursor <= limit)
      BY <1>1
    <3>3. next \in out
      BY <3>1, <3>2 DEF InFile
    <3> QED BY <1>4, <3>3
  <2> QED BY <2>1, <2>2
<1>5. CASE out # {}
  <2> DEFINE final == CHOOSE i \in out : \A j \in out : j <= i
  <2>1. \E i \in out : \A j \in out : j <= i
    BY <1>2, <1>5, LastPosition
  <2>2. final \in out /\ (\A j \in out : j <= final) /\ cursor' = final
    BY <1>2, <1>5, <2>1 DEF NextInFile
  <2> HIDE DEF final
  <2>3. cursor < final /\ final \in 1..Len(FileLines)
    BY <1>2, <1>3, <2>2
  <2>4. limit > 0 => final <= limit \/ final - cursor <= limit
    BY <2>2 DEF InFile
  <2>5. ASSUME NEW i \in 1..Len(FileLines), cursor < i, i <= final PROVE i \in out
    <3>1. i - 1 >= cursor /\ (limit > 0 => i <= limit \/ i - cursor <= limit)
      BY <1>1, <2>3, <2>4, <2>5
    <3> QED BY <3>1 DEF InFile
  <2> HIDE DEF out
  <2>6. \A n \in got' : \E i \in 1..Len(FileLines) :
          n = FileLines[i] /\ cursor < i /\ i <= final
    BY <1>2, <1>3, <2>2
  <2>7. \A i \in 1..Len(FileLines) : cursor < i /\ i <= final => FileLines[i] \in got'
    BY <1>2, <2>5
  <2> QED BY <2>2, <2>3, <2>6, <2>7
<1> QED BY <1>4, <1>5

(* After a restart: the lines the client has are before its cursor.        *)
AnswerInv ==
  daemon = "back" =>
    \A n \in got \union seen : \A i \in 1..Len(FileLines) : cursor < i => n # FileLines[i]

LEMMA FileAnswerIsNew ==
  ASSUME file \in Seq(Nat), pending \in Seq(Nat), cursor \in Int, OutInv, AnswerInv,
         daemon = "back", UNCHANGED <<file, daemon>>, NEW limit \in Limits, TailFile(limit)
  PROVE  AnswerInv' /\ got' \subseteq Nat /\ got' \intersect seen' = {} /\ cursor' \in Int
<1>1. /\ Len(FileLines) \in Nat /\ \A i \in 1..Len(FileLines) : FileLines[i] \in Nat
      /\ \A i, j \in 1..Len(FileLines) : i < j => FileLines[i] < FileLines[j]
  BY FileLinesAreOrdered
<1>2. /\ \A n \in got' : \E i \in 1..Len(FileLines) :
           n = FileLines[i] /\ cursor < i /\ i <= cursor'
      /\ \A i \in 1..Len(FileLines) : cursor' < i => cursor < i
      /\ cursor' \in Int
  BY <1>1, FileAnswer
<1>3. seen' = seen \union got /\ FileLines' = FileLines
  BY DEF TailFile, FileLines
<1>4. \A n \in seen' : \A i \in 1..Len(FileLines) : cursor < i => n # FileLines[i]
  BY <1>3 DEF AnswerInv
<1>5. got' \intersect seen' = {} /\ got' \subseteq Nat
  BY <1>1, <1>2, <1>4
<1>6. ASSUME NEW n \in got', NEW i \in 1..Len(FileLines), cursor' < i PROVE n # FileLines[i]
  <2>1. PICK j \in 1..Len(FileLines) : n = FileLines[j] /\ j <= cursor'
    BY <1>2
  <2>2. j < i
    BY <1>1, <1>2, <1>6, <2>1
  <2>3. FileLines[j] < FileLines[i] /\ FileLines[j] \in Nat /\ FileLines[i] \in Nat
    BY <1>1, <2>2
  <2> QED BY <2>1, <2>3
<1>7. AnswerInv'
  BY <1>2, <1>3, <1>4, <1>6 DEF AnswerInv
<1> QED BY <1>2, <1>5, <1>7

-----------------------------------------------------------------------------
(* The buffer, and what the client has of it.                              *)

RingInv ==
  /\ TypeOK /\ Contiguous /\ SubscribersAreOpen /\ Numbered /\ NothingRepeated
  /\ nextSeq <= MaxLines

LEMMA DownMoves ==
  ASSUME TailNext
  PROVE  \/ daemon # "back" /\ daemon' # "back"
         \/ daemon # "back" /\ daemon' = "back" /\ UNCHANGED <<vars, file>>
         \/ daemon = "back" /\ UNCHANGED <<daemon, file>>
<1>1. CASE Worker \/ Read \/ Write \/ Watcher \/ Cancel \/ CancelRecords \/ Crash
  <2>1. daemon = "up"
    BY <1>1 DEF Worker, Read, Write, Watcher, Complain, Submit, Take, MarkRunning, NotStarted,
            Header, Start, Flush, Finish, Tell, CloseBuffer, Moves, Cancel, CancelRecords, Crash
  <2>2. daemon' # "back"
    BY <1>1, <2>1 DEF Worker, Read, Write, Watcher, Complain, Submit, Take, MarkRunning,
            NotStarted, Header, Start, Flush, Finish, Tell, CloseBuffer, Cancel, CancelRecords,
            Crash, runVars
  <2> QED BY <2>1, <2>2
<1>2. CASE Restart
  BY <1>2 DEF Restart
<1>3. CASE AskState \/ Answer \/ NoAnswer \/ TailRest
  <2>1. UNCHANGED <<daemon, file>>
    BY <1>3 DEF AskState, Answer, FromMemory, FromFile, NoAnswer, TailRest, tailVars, runVars
  <2> QED BY <2>1
<1> QED BY <1>1, <1>2, <1>3 DEF TailNext

LEMMA RingStep ==
  ASSUME TailTypes, RingInv, daemon \in {"up", "down", "back"}, daemon # "back" => Behind,
         AnswerInv, PhaseInv, OutInv, TailNext
  PROVE  RingInv' /\ (daemon' # "back" => Behind') /\ AnswerInv'
<1> DEFINE Goal == RingInv' /\ (daemon' # "back" => Behind') /\ AnswerInv'
<1>0. /\ file \in Seq(Nat) /\ pending \in Seq(Nat) /\ nextSeq \in Nat
      /\ reader \in Appenders /\ watcher \in Appenders /\ worker \in Appenders
      /\ cursor \in Int /\ nextSeq <= MaxLines /\ MaxLines \in Nat
  BY DEF TailTypes, RingInv, TypeOK
<1>1. daemon = "up" => IInv
  BY DEF RingInv, IInv
<1>2. ASSUME daemon = "up", UNCHANGED daemon, IInv', nextSeq' <= MaxLines PROVE Goal
  BY <1>2 DEF IInv, RingInv, AnswerInv
<1>3. CASE UNCHANGED vars
  <2>1. RingInv' /\ (Behind => Behind')
    BY <1>3 DEF RingInv, TypeOK, Contiguous, SubscribersAreOpen, Numbered, NothingRepeated, Behind,
            vars, bufferVars, appendVars, pollVars
  <2>2. CASE daemon # "back" /\ daemon' # "back"
    BY <2>1, <2>2 DEF AnswerInv
  <2>3. CASE daemon # "back" /\ daemon' = "back" /\ UNCHANGED <<vars, file>>
    <3>1. ASSUME NEW n \in got \union seen, NEW i \in 1..Len(FileLines), cursor < i
          PROVE  n # FileLines[i]
      <4>1. n \in Nat /\ n < cursor /\ n < nextSeq
        BY <2>3 DEF Behind, RingInv, TypeOK
      <4>2. FileLines[i] \in Nat /\ (i <= FileLines[i] \/ FileLines[i] = MaxLines)
            /\ i \in Int
        BY <1>0, FileLinesAreOrdered
      <4> QED BY <1>0, <3>1, <4>1, <4>2
    <3>2. FileLines' = FileLines /\ UNCHANGED <<got, seen, cursor>>
      BY <2>3 DEF FileLines, vars, pollVars
    <3> QED BY <2>1, <2>3, <3>1, <3>2 DEF AnswerInv
  <2>4. CASE daemon = "back" /\ UNCHANGED <<daemon, file>>
    <3>1. FileLines' = FileLines /\ UNCHANGED <<got, seen, cursor>>
      BY <1>3, <2>4 DEF FileLines, vars, pollVars
    <3> QED BY <2>1, <2>4, <3>1 DEF AnswerInv
  <2> QED BY <2>2, <2>3, <2>4, DownMoves
<1>4. ASSUME NEW a \in Appenders, daemon = "up", UNCHANGED daemon, Record(a) \/ AppendReturns(a)
      PROVE  Goal
  <2>1. IInv'
    BY <1>1, <1>4, RecordKeeps, SendingKeeps DEF Sending
  <2>2. nextSeq' <= MaxLines
    BY <1>0, <1>4 DEF Record, AppendReturns, bufferVars
  <2> QED BY <1>2, <1>4, <2>1, <2>2
<1>5. CASE daemon = "up" /\ UNCHANGED daemon /\ Close
  <2>1. IInv' /\ nextSeq' <= MaxLines
    BY <1>0, <1>1, <1>5, CloseKeeps DEF Close
  <2> QED BY <1>2, <1>5, <2>1
<1>6. ASSUME NEW limit \in Limits, FromMemory(limit) PROVE Goal
  <2>1. Poll(limit) /\ daemon = "up" /\ UNCHANGED daemon
    BY <1>6 DEF FromMemory, HasBuffer, runVars
  <2>2. IInv' /\ nextSeq' <= MaxLines
    BY <1>0, <1>1, <2>1, PollKeeps DEF Poll, bufferVars
  <2> QED BY <1>2, <2>1, <2>2
<1>7. ASSUME NEW limit \in Limits, FromFile(limit) PROVE Goal
  <2>1. /\ UNCHANGED <<bufferVars, chan, appendVars, file, daemon>>
        /\ IF logged THEN TailFile(limit) ELSE NoFile
        /\ daemon # "back" => daemon # "down" /\ ~HasBuffer
    BY <1>7 DEF FromFile, runVars
  <2>2. ASSUME cursor' \in Int, got' \subseteq Nat, got' \intersect seen' = {},
               seen' = seen \union got
        PROVE  RingInv'
    BY <2>1, <2>2 DEF RingInv, TypeOK, Contiguous, SubscribersAreOpen, Numbered, NothingRepeated,
            bufferVars, appendVars
  <2>3. CASE NoFile
    <3>1. got' = {} /\ cursor' = cursor /\ seen' = seen \union got
      BY <2>3 DEF NoFile
    <3>2. RingInv' /\ (Behind => Behind')
      BY <1>0, <2>1, <2>2, <3>1 DEF Behind, bufferVars
    <3>3. FileLines' = FileLines
      BY <2>1 DEF FileLines
    <3> QED BY <2>1, <3>1, <3>2, <3>3 DEF AnswerInv
  <2>4. CASE TailFile(limit) /\ logged
    <3>1. daemon = "back"
      <4>1. logged => wpc # "added"
        BY DEF PhaseInv, Early
      <4> QED BY <1>7, <2>4, <4>1 DEF FromFile, HasBuffer
    <3> QED BY <1>0, <2>1, <2>2, <2>4, <3>1, FileAnswerIsNew DEF TailFile
  <2> QED BY <2>1, <2>3, <2>4
<1> QED
  BY <1>3, <1>4, <1>5, <1>6, <1>7, BufferMoves

-----------------------------------------------------------------------------
(* An answer that was not cut short.                                       *)

(* It ends where the buffer does: the ring has no gaps, so that counting   *)
(* the wanted lines up to one of them is counting positions.               *)
LEMMA WholeAnswer ==
  ASSUME IInv, NEW limit \in Limits, Poll(limit), nextSeq > 0,
         ~(limit > 0 /\ Cardinality(Chosen(cursor, limit)) = limit)
  PROVE  cursor' = nextSeq
<1> DEFINE size == Len(lines)
           out == Chosen(cursor, limit)
           upTo(k) == {j \in 1..k : lines[j] >= cursor}
<1>1. /\ lines \in Seq(Nat) /\ nextSeq \in Nat /\ cursor \in Int /\ size \in Nat /\ size >= 1
      /\ limit \in Int
  BY LenProperties DEF IInv, TypeOK, Contiguous
<1>2. \A i \in 1..size : lines[i] \in Nat /\ lines[i] = nextSeq - size + i - 1
  BY <1>1, ElementOfSeq DEF IInv, Contiguous
<1>3. out \in SUBSET (1..size) /\ cursor' = NextFrom(cursor, out)
  BY ChosenAreWanted DEF Poll
<1>4. CASE cursor >= nextSeq
  <2>1. Wanted(cursor) = {}
    BY <1>1, <1>2, <1>4 DEF Wanted
  <2>2. out = {}
    BY <2>1, ChosenAreWanted
  <2>3. NextFrom(cursor, out) = IF cursor > nextSeq THEN nextSeq ELSE cursor
    BY <2>2 DEF NextFrom
  <2> QED BY <1>1, <1>3, <1>4, <2>3
<1>5. CASE cursor < nextSeq
  <2> DEFINE first == IF cursor <= nextSeq - size THEN 1 ELSE cursor - (nextSeq - size) + 1
  <2>1. first \in 1..size
    BY <1>1, <1>5
  <2>2. \A i \in 1..size : (lines[i] >= cursor) <=> (i >= first)
    BY <1>1, <1>2, <1>5
  <2> HIDE DEF first, size
  <2>3. ASSUME NEW k \in 1..size PROVE upTo(k) = first..k
    BY <1>1, <2>1, <2>2, <2>3
  <2>4. ASSUME NEW k \in first..size PROVE Cardinality(upTo(k)) = k - first + 1
    <3>1. k \in 1..size /\ first <= k
      BY <1>1, <2>1, <2>4
    <3>2. Cardinality(first..k) = k - first + 1
      BY <1>1, <2>1, <3>1, FS_Interval
    <3> QED BY <2>3, <3>1, <3>2
  <2>5. Wanted(cursor) = first..size
    BY <1>1, <2>1, <2>2 DEF Wanted, size
  <2>6. size \in out
    <3> SUFFICES ASSUME size \notin out PROVE FALSE
      OBVIOUS
    <3>0. size \in Wanted(cursor)
      BY <1>1, <2>1, <2>5
    <3>1. limit > 0 /\ ~(Cardinality(upTo(size)) <= limit)
      BY <3>0 DEF Chosen
    <3>2. size - first + 1 > limit
      BY <1>1, <2>1, <2>4, <3>1
    <3>3. \A i \in first..size : i \in out <=> i - first + 1 <= limit
      BY <1>1, <2>1, <2>4, <2>5, <3>1 DEF Chosen
    <3>4. out \subseteq first..size
      BY <2>5, ChosenAreWanted
    <3>5. out = first..(first + limit - 1)
      <4> HIDE DEF out
      <4>1. first \in Nat /\ \A i \in first..(first + limit - 1) : i \in first..size
        BY <1>1, <2>1, <3>1, <3>2
      <4>2. \A i \in out : i \in first..(first + limit - 1)
        BY <1>1, <3>3, <3>4, <4>1
      <4>3. \A i \in first..(first + limit - 1) : i \in out
        BY <1>1, <3>3, <4>1
      <4> QED BY <4>2, <4>3
    <3>6. Cardinality(first..(first + limit - 1)) = limit
      BY <1>1, <2>1, <3>1, FS_Interval
    <3> QED BY <3>1, <3>5, <3>6
  <2> HIDE DEF out
  <2>7. PICK final \in out : (\A i \in out : i <= final) /\ NextFrom(cursor, out) = lines[final] + 1
    BY <1>1, <1>3, <2>6, NextFromProperties DEF size
  <2>8. final = size
    <3>1. final \in 1..size /\ size <= final
      BY <1>3, <2>6, <2>7
    <3> QED BY <1>1, <3>1
  <2> QED BY <1>1, <1>2, <1>3, <2>7, <2>8
<1> QED BY <1>1, <1>4, <1>5

LEMMA ClientMoves ==
  ASSUME TailNext
  PROVE  \/ UNCHANGED <<cursor, clientVars>>
         \/ AskState \/ NoAnswer
         \/ \E limit \in Limits : FromMemory(limit) \/ FromFile(limit)
<1>1. CASE Worker \/ Read \/ Write \/ Watcher
  <2> USE DEF vars, pollVars
  <2>1. CASE Submit \/ Take \/ MarkRunning \/ NotStarted \/ Start \/ Flush \/ Finish
    BY <2>1 DEF Submit, Take, MarkRunning, NotStarted, Start, Flush, Finish
  <2>2. CASE Header \/ Tell \/ Read \/ Complain
    BY <2>2 DEF Header, Tell, Read, Complain, Record
  <2>3. CASE CloseBuffer
    BY <2>3 DEF CloseBuffer, Close
  <2>4. ASSUME NEW a \in Appenders, AppendReturns(a), UNCHANGED clientVars
        PROVE  UNCHANGED <<cursor, clientVars>>
    BY <2>4 DEF AppendReturns
  <2>5. reader \in Appenders /\ watcher \in Appenders /\ worker \in Appenders
    OBVIOUS
  <2> QED BY <1>1, <2>1, <2>2, <2>3, <2>4, <2>5 DEF Worker, Write, Watcher
<1>2. CASE Cancel \/ CancelRecords \/ Crash \/ Restart \/ TailRest
  BY <1>2 DEF Cancel, CancelRecords, Crash, Restart, TailRest, tailVars, vars, pollVars
<1> QED BY <1>1, <1>2 DEF TailNext, Answer

(* Once the run is finished the child's output is complete.                *)
LEMMA FinishedOut ==
  ASSUME TailTypes, PhaseInv, known = "finished" \/ rec = "finished", TailNext
  PROVE  Out' = Out
<1>1. wpc \in {"recorded", "telling", "over"}
  BY DEF PhaseInv, Late
<1>2. pending = <<>> /\ apc[reader] = "idle"
  BY <1>1 DEF PhaseInv
<1>3. UNCHANGED <<file, pending>>
  BY <1>1, <1>2, OutMoves DEF Header, Read, Write, Flush, Crash, Moves, AppendReturns, Others,
         Elsewhere
<1> QED BY <1>3 DEF Out

LEMMA StoppedStep ==
  ASSUME TailTypes, RingInv, daemon # "back" => Behind, PhaseInv, OutInv, StoppedHasAll, TailNext
  PROVE  StoppedHasAll'
<1> SUFFICES ASSUME cpc' = "stopped", known' = "finished", last' = "memory",
                    NEW i \in 1..Len(Out')
             PROVE  Out'[i] < cursor'
  BY DEF StoppedHasAll, Out
<1>1. CASE UNCHANGED <<cursor, clientVars>>
  <2>1. cpc = "stopped" /\ known = "finished" /\ last = "memory" /\ cursor' = cursor
    BY <1>1 DEF clientVars
  <2>2. Out' = Out
    BY <2>1, FinishedOut
  <2> QED BY <2>1, <2>2 DEF StoppedHasAll, Out
<1>2. CASE AskState \/ NoAnswer
  BY <1>2 DEF AskState, NoAnswer
<1>3. ASSUME NEW limit \in Limits, FromFile(limit) PROVE FALSE
  BY <1>3 DEF FromFile, TailFile, NoFile
<1>4. ASSUME NEW limit \in Limits, FromMemory(limit) PROVE Out'[i] < cursor'
  <2>1. /\ Poll(limit) /\ daemon = "up" /\ known = "finished"
        /\ ~(limit > 0 /\ Cardinality(Chosen(cursor, limit)) = limit)
        /\ UNCHANGED <<file, pending>>
    BY <1>4 DEF FromMemory, HasBuffer, runVars
  <2>2. IInv
    BY <2>1 DEF RingInv, IInv
  <2>3. Out' = Out
    BY <2>1 DEF Out
  <2>4. Out[i] \in Nat /\ Out[i] < nextSeq /\ nextSeq \in Nat
    BY <2>3, OutTypes DEF OutInv, TailTypes
  <2>5. cursor' = nextSeq
    BY <2>1, <2>2, <2>4, WholeAnswer
  <2> QED BY <2>3, <2>4, <2>5
<1> QED BY <1>1, <1>2, <1>3, <1>4, ClientMoves

-----------------------------------------------------------------------------
(* Everything together.                                                    *)

StateTypes ==
  /\ rec \in {"live", "cancelled", "finished", "given up"}
  /\ asked \in {"no", "refused", "flagged", "recorded"}
  /\ wpc \in {"added", "waiting", "taken", "preparing", "heading", "reading",
              "waited", "recorded", "telling", "over"}
  /\ logged \in BOOLEAN
  /\ daemon \in {"up", "down", "back"}

ClientTypes ==
  /\ stops \in BOOLEAN
  /\ cpc \in {"state", "log", "stopped"}
  /\ known \in {"live", "cancelled", "finished", "given up", "lost"}
  /\ last \in {"none", "memory", "cut short", "file", "lost"}

LEMMA StateTypesStep == StateTypes /\ TailNext => StateTypes'
<1> SUFFICES ASSUME StateTypes, TailNext PROVE StateTypes'
  OBVIOUS
<1>1. CASE Worker
  <2>1. CASE Submit \/ Take \/ MarkRunning \/ NotStarted \/ Header
    BY <2>1 DEF StateTypes, Submit, Take, MarkRunning, NotStarted, Header, Moves
  <2>2. CASE Start \/ Flush \/ Finish \/ Tell \/ CloseBuffer
    BY <2>2 DEF StateTypes, Start, Flush, Finish, Tell, CloseBuffer, Moves
  <2>3. CASE UNCHANGED runVars
    BY <2>3 DEF StateTypes, runVars
  <2> QED BY <1>1, <2>1, <2>2, <2>3 DEF Worker
<1>2. CASE Read \/ Write \/ Watcher
  BY <1>2 DEF StateTypes, Read, Write, Watcher, Complain, runVars
<1>3. CASE Cancel \/ CancelRecords \/ Crash \/ Restart
  BY <1>3 DEF StateTypes, Cancel, CancelRecords, Crash, Restart
<1>4. CASE AskState \/ Answer \/ NoAnswer \/ TailRest
  <2>1. UNCHANGED runVars
    BY <1>4 DEF AskState, Answer, FromMemory, FromFile, NoAnswer, TailRest, tailVars
  <2> QED BY <2>1 DEF StateTypes, runVars
<1> QED BY <1>1, <1>2, <1>3, <1>4 DEF TailNext

LEMMA ClientTypesStep == StateTypes /\ ClientTypes /\ TailNext => ClientTypes'
<1> SUFFICES ASSUME StateTypes, ClientTypes, TailNext PROVE ClientTypes'
  OBVIOUS
<1>1. CASE UNCHANGED <<cursor, clientVars>>
  BY <1>1 DEF ClientTypes, clientVars
<1>2. CASE AskState
  BY <1>2 DEF ClientTypes, StateTypes, AskState
<1>3. CASE NoAnswer
  BY <1>3 DEF ClientTypes, NoAnswer, AfterLog
<1>4. ASSUME NEW limit \in Limits, FromMemory(limit) \/ FromFile(limit) PROVE ClientTypes'
  BY <1>4 DEF ClientTypes, FromMemory, FromFile, AfterLog, TailFile, NoFile
<1> QED BY <1>1, <1>2, <1>3, <1>4, ClientMoves

(* What run.log has once the run is finished stays.                        *)
LEMMA FinishedStep ==
  ASSUME TailTypes, Len(lines) <= Capacity, Numbered, PhaseInv, OutInv, LinesInv,
         FinishedIsOnDisk, TailNext
  PROVE  FinishedIsOnDisk'
<1> SUFFICES ASSUME rec' = "finished", NEW i \in 1..Len(lines')
             PROVE  \/ lines'[i] \in {0, line'[watcher], line'[worker]}
                    \/ \E j \in 1..Len(file') : file'[j] = lines'[i]
  BY DEF FinishedIsOnDisk
<1>1. CASE daemon' = "up"
  <2>1. PhaseInv' /\ Explained(lines[i])'
    BY <1>1, PhaseStep, LinesStep DEF LinesInv
  <2>2. wpc' \in {"recorded", "telling", "over"}
    BY <2>1 DEF PhaseInv, Late
  <2>3. pending' = <<>> /\ apc'[reader] = "idle"
    BY <2>1, <2>2 DEF PhaseInv
  <2>4. Out' = file'
    <3>1. file' \in Seq(Nat)
      BY OutStep
    <3> QED BY <2>3, <3>1 DEF Out
  <2> QED BY <2>1, <2>3, <2>4 DEF Explained
<1>2. CASE daemon' # "up"
  <2>1. CASE Crash \/ Restart
    <3>1. rec = "finished" /\ UNCHANGED <<lines, line, file>>
      BY <2>1 DEF Crash, Restart, vars, bufferVars, appendVars
    <3> QED BY <3>1 DEF FinishedIsOnDisk
  <2>2. CASE AskState \/ Answer \/ NoAnswer \/ TailRest
    <3>1. UNCHANGED <<rec, lines, line, file>>
      BY <2>2 DEF AskState, Answer, FromMemory, FromFile, Poll, NoAnswer, TailRest, tailVars, vars,
              bufferVars, appendVars, runVars
    <3> QED BY <3>1 DEF FinishedIsOnDisk
  <2>3. CASE Worker \/ Read \/ Write \/ Watcher \/ Cancel \/ CancelRecords
    <3>1. daemon' = "up"
      BY <2>3 DEF Worker, Read, Write, Watcher, Complain, Submit, Take, MarkRunning, NotStarted,
              Header, Start, Flush, Finish, Tell, CloseBuffer, Moves, Cancel, CancelRecords,
              runVars
    <3> QED BY <1>2, <3>1
  <2> QED BY <2>1, <2>2, <2>3 DEF TailNext
<1> QED BY <1>1, <1>2

TailInv ==
  /\ StateTypes /\ ClientTypes /\ RingInv /\ (daemon # "back" => Behind) /\ AnswerInv
  /\ file \in Seq(Nat) /\ pending \in Seq(Nat)
  /\ PhaseInv /\ OutInv /\ LinesInv /\ FinishedIsOnDisk /\ StoppedHasAll

LEMMA TailInvInit == TailInit => TailInv
<1> SUFFICES ASSUME TailInit PROVE TailInv
  OBVIOUS
<1>1. Init /\ IInv
  BY InitInvariant DEF TailInit
<1>2. <<>> \in Seq(Nat)
  OBVIOUS
<1>3. /\ Out = <<>> /\ Len(Out) = 0 /\ file = <<>> /\ pending = <<>> /\ lines = <<>> /\ nextSeq = 0
      /\ reader \in Appenders /\ worker \in Appenders
      /\ apc = [a \in Appenders |-> "idle"] /\ line = [a \in Appenders |-> 0]
  BY <1>1 DEF TailInit, Init, Out
<1>4. StateTypes /\ ClientTypes
  BY DEF TailInit, StateTypes, ClientTypes
<1>5. RingInv /\ Behind /\ AnswerInv
  BY <1>1, <1>3 DEF IInv, RingInv, TailInit, AnswerInv
<1>6. PhaseInv /\ FinishedIsOnDisk /\ StoppedHasAll
  BY <1>3 DEF TailInit, PhaseInv, FinishedIsOnDisk, StoppedHasAll
<1>7. OutInv /\ LinesInv
  <2>1. 1..Len(Out) = {} /\ 1..Len(lines) = {}
    BY <1>3
  <2>2. wpc = "added"
    BY DEF TailInit
  <2> QED BY <2>1, <2>2 DEF OutInv, LinesInv
<1> QED BY <1>2, <1>3, <1>4, <1>5, <1>6, <1>7 DEF TailInv

LEMMA TailInvTypes == TailInv => TailTypes /\ Len(lines) <= Capacity /\ Numbered
  BY DEF TailInv, TailTypes, RingInv, TypeOK, Contiguous

LEMMA TailInvStep == TailInv /\ [TailNext]_tailVars => TailInv'
<1>1. ASSUME TailInv, TailNext PROVE TailInv'
  <2> USE <1>1, TailInvTypes
  <2>1. StateTypes' /\ ClientTypes'
    BY StateTypesStep, ClientTypesStep DEF TailInv
  <2>2. RingInv' /\ (daemon' # "back" => Behind') /\ AnswerInv'
    BY RingStep DEF TailInv, StateTypes
  <2>3. PhaseInv'
    BY PhaseStep DEF TailInv
  <2>4. OutInv' /\ file' \in Seq(Nat) /\ pending' \in Seq(Nat)
    BY OutStep DEF TailInv
  <2>5. LinesInv'
    BY LinesStep DEF TailInv
  <2>6. FinishedIsOnDisk'
    BY FinishedStep DEF TailInv
  <2>7. StoppedHasAll'
    BY StoppedStep DEF TailInv
  <2> QED BY <2>1, <2>2, <2>3, <2>4, <2>5, <2>6, <2>7 DEF TailInv
<1>2. ASSUME TailInv, UNCHANGED tailVars PROVE TailInv'
  <2> USE <1>2 DEF tailVars, vars, bufferVars, appendVars, pollVars, runVars, clientVars, TailInv
  <2>1. StateTypes' /\ ClientTypes'
    <3>1. UNCHANGED <<rec, asked, wpc, logged, daemon, stops, cpc, known, last>>
      OBVIOUS
    <3>2. StateTypes /\ ClientTypes
      OBVIOUS
    <3>3. StateTypes'
      BY <3>1, <3>2 DEF StateTypes
    <3>4. ClientTypes'
      BY <3>1, <3>2 DEF ClientTypes
    <3> QED BY <3>3, <3>4
  <2>2. RingInv' /\ (daemon' # "back" => Behind') /\ AnswerInv'
    BY DEF RingInv, TypeOK, Contiguous, SubscribersAreOpen, Numbered, NothingRepeated, Behind,
           AnswerInv, FileLines
  <2>3. PhaseInv' /\ OutInv' /\ LinesInv'
    BY DEF PhaseInv, OutInv, Out, LinesInv, Explained
  <2>4. FinishedIsOnDisk' /\ StoppedHasAll'
    BY DEF FinishedIsOnDisk, StoppedHasAll
  <2> QED BY <2>1, <2>2, <2>3, <2>4
<1> QED BY <1>1, <1>2

LEMMA TailInvariance == TailSpec => []TailInv
<1> QED BY TailInvInit, TailInvStep, PTL DEF TailSpec

-----------------------------------------------------------------------------
(* The theorems.                                                           *)

(* Types, and that lines wait for run.log only while the child is read     *)
(* (Execute's bufio.Writer).                                               *)
THEOREM TailTypeCorrect == TailSpec => []TailTypeOK
<1>1. TailInv => TailTypeOK
  BY DEF TailInv, TailTypeOK, StateTypes, ClientTypes, RingInv, PhaseInv
<1> QED BY <1>1, TailInvariance, PTL

(* Lines keep their order in run.log, and none has a greater number there  *)
(* than in the buffer (Execute's reader, tailFile).                        *)
THEOREM LagsBehind == TailSpec => []FileLagsBehind
<1>1. TailInv => FileLagsBehind
  <2> SUFFICES ASSUME TailInv PROVE FileLagsBehind
    OBVIOUS
  <2>1. \A i \in 1..Len(file) :
          /\ i <= file[i] /\ file[i] < nextSeq
          /\ \A j \in 1..Len(file) : i < j => file[i] < file[j]
    BY FileIsOrdered DEF TailInv
  <2>2. file \in Seq(Nat)
    BY DEF TailInv
  <2>3. \A i \in 1..Len(file) : file[i] \in Nat /\ i \in Nat
    BY <2>2
  <2> QED BY <2>1, <2>3 DEF FileLagsBehind
<1> QED BY <1>1, TailInvariance, PTL

(* No answer of getLog repeats a line that an earlier one had, over the    *)
(* buffer, the file, and the change from one to the other by a restart.    *)
THEOREM AnswersStayNew == TailSpec => []NothingRepeated
<1>1. TailInv => NothingRepeated
  BY DEF TailInv, RingInv
<1> QED BY <1>1, TailInvariance, PTL

(* The cursor passes no line of the source that the answer does not have   *)
(* (Since, tailFile).                                                      *)
THEOREM AnswersLeaveNothing == TailSpec => NoneSkipped
<1> DEFINE Complete ==
      IF daemon = "up"
      THEN \A i \in 1..Len(lines) : cursor <= lines[i] /\ lines[i] < cursor' => lines[i] \in got'
      ELSE \A i \in 1..Len(file) : cursor < i /\ i <= cursor' => file[i] \in got'
<1>1. TailInv /\ [TailNext]_tailVars => [Complete]_tailVars
  <2> SUFFICES ASSUME TailInv, TailNext PROVE Complete
    OBVIOUS
  <2>1. /\ cursor \in Int /\ Len(lines) \in Nat /\ Len(file) \in Nat
        /\ \A i \in 1..Len(lines) : lines[i] \in Nat
    BY LenProperties, ElementOfSeq DEF TailInv, RingInv, TypeOK
  <2>2. cursor' = cursor => Complete
    BY <2>1
  <2>3. ASSUME NEW limit \in Limits, FromMemory(limit) PROVE Complete
    <3>1. Poll(limit) /\ daemon = "up"
      BY <2>3 DEF FromMemory, HasBuffer
    <3>2. IInv
      BY <3>1 DEF TailInv, RingInv, IInv
    <3> QED BY <3>1, <3>2, AnswerProperties
  <2>4. ASSUME NEW limit \in Limits, FromFile(limit) PROVE Complete
    <3>1. CASE NoFile
      BY <2>2, <3>1 DEF NoFile
    <3>2. CASE TailFile(limit) /\ logged
      <4>1. daemon # "up"
        BY <2>4, <3>2 DEF FromFile, HasBuffer, TailInv, PhaseInv, Early
      <4>2. Len(FileLines) \in Nat
        BY FileLinesAreOrdered DEF TailInv
      <4>3. \A i \in 1..Len(FileLines) : cursor < i /\ i <= cursor' => FileLines[i] \in got'
        BY <2>1, <3>2, <4>2, FileAnswer
      <4>4. 1..Len(file) = {} \/ FileLines = file
        BY <2>1 DEF FileLines
      <4> QED BY <4>1, <4>3, <4>4
    <3> QED BY <2>4, <3>1, <3>2 DEF FromFile
  <2>5. AskState \/ NoAnswer => cursor' = cursor
    BY DEF AskState, NoAnswer, vars, pollVars
  <2> HIDE DEF Complete
  <2> QED BY <2>2, <2>3, <2>4, <2>5, ClientMoves
<1> QED BY <1>1, TailInvariance, PTL DEF TailSpec, NoneSkipped

(* Once finish has recorded the end, run.log has what the buffer has of    *)
(* the child (finish after Execute's wg.Wait, after the reader's Flush).   *)
THEOREM FinishedOnDisk == TailSpec => []FinishedIsOnDisk
<1>1. TailInv => FinishedIsOnDisk
  BY DEF TailInv
<1> QED BY <1>1, TailInvariance, PTL

(* A client that has read that the run finished, and then an answer that   *)
(* was not cut short, has been offered all the child wrote (app.py).       *)
THEOREM StopsWithAll == TailSpec => []StoppedHasAll
<1>1. TailInv => StoppedHasAll
  BY DEF TailInv
<1> QED BY <1>1, TailInvariance, PTL
=============================================================================
