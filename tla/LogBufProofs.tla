---------------------------- MODULE LogBufProofs ----------------------------
(***************************************************************************)
(* Theorems about LogBuf, for every capacity, every number of appenders    *)
(* and subscribers, and every place and limit clients poll with.           *)
(***************************************************************************)
EXTENDS LogBuf, SequenceTheorems, FiniteSetTheorems, WellFoundedInduction, TLAPS

USE LogBufAssumption

-----------------------------------------------------------------------------
(* Lemmas about the operators.                                             *)

(* A set of positions that is not empty has a last one.                    *)
LEMMA LastPosition ==
  ASSUME NEW n \in Nat, NEW out \in SUBSET (1..n), out # {}
  PROVE  \E last \in out : \A i \in out : i <= last
<1> DEFINE T == {n - i : i \in out}
<1>1. T \subseteq Nat /\ T # {}
  <2>1. \A i \in out : n - i \in Nat
    OBVIOUS
  <2> QED BY <2>1
<1>2. PICK x \in T : \A y \in T : ~(<<y, x>> \in OpToRel(<, Nat))
  BY <1>1, NatLessThanWellFounded, WFMin
<1>3. \A y \in T : ~(y < x)
  BY <1>1, <1>2 DEF OpToRel
<1>4. PICK last \in out : x = n - last
  OBVIOUS
<1>5. \A i \in out : i <= last
  <2> TAKE i \in out
  <2>1. ~(n - i < n - last)
    BY <1>3, <1>4
  <2> QED BY <2>1
<1> QED BY <1>5

(***************************************************************************)
(* The ring keeps the order and drops the oldest line when it is full.     *)
(***************************************************************************)
LEMMA RingProperties ==
  ASSUME lines \in Seq(Nat), NEW n \in Nat, Len(lines) <= Capacity
  PROVE  /\ Ring(n) \in Seq(Nat)
         /\ Len(Ring(n)) = IF Len(lines) = Capacity THEN Capacity ELSE Len(lines) + 1
         /\ Ring(n)[Len(Ring(n))] = n
         /\ \A i \in 1..(Len(Ring(n)) - 1) :
              Ring(n)[i] = IF Len(lines) = Capacity THEN lines[i + 1] ELSE lines[i]
<1>1. Len(lines) \in Nat
  BY LenProperties
<1>2. CASE Len(lines) = Capacity
  <2>1. lines # <<>>
    BY <1>2, EmptySeq
  <2>2. /\ Tail(lines) \in Seq(Nat)
        /\ Len(Tail(lines)) = Capacity - 1
        /\ \A i \in 1..(Capacity - 1) : Tail(lines)[i] = lines[i + 1]
    BY <1>2, <2>1, HeadTailProperties
  <2>3. /\ Append(Tail(lines), n) \in Seq(Nat)
        /\ Len(Append(Tail(lines), n)) = Capacity
        /\ Append(Tail(lines), n)[Capacity] = n
        /\ \A i \in 1..(Capacity - 1) : Append(Tail(lines), n)[i] = lines[i + 1]
    BY <2>2, AppendProperties
  <2> QED BY <1>2, <2>3 DEF Ring
<1>3. CASE Len(lines) # Capacity
  BY <1>1, <1>3, AppendProperties DEF Ring
<1> QED BY <1>2, <1>3

(* What Since chooses are positions of lines numbered "from" or later.     *)
LEMMA ChosenAreWanted ==
  ASSUME NEW from, NEW limit
  PROVE  Chosen(from, limit) \subseteq Wanted(from) /\ Wanted(from) \subseteq 1..Len(lines)
BY DEF Chosen, Wanted

(***************************************************************************)
(* It chooses every wanted position before one it chooses.                 *)
(***************************************************************************)
LEMMA ChosenIsPrefix ==
  ASSUME NEW from, NEW limit \in Limits, lines \in Seq(Nat),
         NEW last \in Chosen(from, limit), NEW i \in Wanted(from), i <= last
  PROVE  i \in Chosen(from, limit)
<1> DEFINE upTo(k) == {j \in 1..k : lines[j] >= from}
<1>1. i \in 1..Len(lines) /\ last \in 1..Len(lines) /\ Len(lines) \in Nat
  BY ChosenAreWanted, LenProperties
<1>2. IsFiniteSet(1..last)
  BY <1>1, FS_Interval
<1>3. upTo(i) \subseteq upTo(last) /\ upTo(last) \subseteq 1..last
  BY <1>1
<1>4. IsFiniteSet(upTo(last)) /\ IsFiniteSet(upTo(i))
  BY <1>2, <1>3, FS_Subset
<1>5. /\ Cardinality(upTo(i)) \in Nat /\ Cardinality(upTo(last)) \in Nat
      /\ Cardinality(upTo(i)) <= Cardinality(upTo(last))
  BY <1>3, <1>4, FS_Subset, FS_CardinalityType
<1>6. limit > 0 => Cardinality(upTo(last)) <= limit
  BY DEF Chosen
<1>7. limit \in Int
  OBVIOUS
<1>8. limit > 0 => Cardinality(upTo(i)) <= limit
  BY <1>5, <1>6, <1>7
<1> QED BY <1>8 DEF Chosen

(* The next number to ask for is one past the last line of the answer.     *)
LEMMA NextFromProperties ==
  ASSUME lines \in Seq(Nat), nextSeq \in Nat, NEW from \in Int,
         NEW out \in SUBSET (1..Len(lines))
  PROVE  /\ NextFrom(from, out) \in Int
         /\ out = {} => NextFrom(from, out) <= from
         /\ out = {} => NextFrom(from, out) \in {from, nextSeq}
         /\ out # {} => \E last \in out : /\ \A i \in out : i <= last
                                          /\ NextFrom(from, out) = lines[last] + 1
<1>1. CASE out = {}
  BY <1>1 DEF NextFrom
<1>2. CASE out # {}
  <2> DEFINE last == CHOOSE i \in out : \A j \in out : j <= i
  <2>1. Len(lines) \in Nat
    BY LenProperties
  <2>2. \E i \in out : \A j \in out : j <= i
    BY <1>2, <2>1, LastPosition
  <2>3. last \in out /\ \A j \in out : j <= last
    BY <2>2
  <2>4. lines[last] \in Nat
    BY <2>3, ElementOfSeq
  <2>5. NextFrom(from, out) = lines[last] + 1
    BY <1>2 DEF NextFrom
  <2> HIDE DEF last
  <2> QED BY <1>2, <2>3, <2>4, <2>5
<1> QED BY <1>1, <1>2

-----------------------------------------------------------------------------
(* Types, the ring, and the channels.                                      *)

(* The fields of a channel after an update of one of them.                 *)
LEMMA ChannelTypes ==
  ASSUME NEW ch \in Channels
  PROVE  /\ ch.state \in {"none", "open", "closed"}
         /\ ch.content \in Seq(Nat \X Appenders)
         /\ \A st \in {"none", "open", "closed"} :
              /\ [ch EXCEPT !.state = st] \in Channels
              /\ [ch EXCEPT !.state = st].state = st
              /\ [ch EXCEPT !.state = st].content = ch.content
         /\ \A c \in Seq(Nat \X Appenders) :
              /\ [ch EXCEPT !.content = c] \in Channels
              /\ [ch EXCEPT !.content = c].content = c
              /\ [ch EXCEPT !.content = c].state = ch.state
BY DEF Channels

(* A line being sent has been numbered. *)
Numbered == \A a \in Appenders : apc[a] = "sending" => line[a] < nextSeq

(* What the client has is before its cursor, and in the buffer's past.     *)
Behind == \A n \in got \union seen : n < cursor /\ n < nextSeq

IInv ==
  TypeOK /\ Contiguous /\ SubscribersAreOpen /\ Numbered /\ Behind /\ NothingRepeated

LEMMA InitInvariant == ASSUME Init PROVE IInv
<1>1. <<>> \in Seq(Nat) /\ <<>> \in Seq(Nat \X Appenders) /\ Len(<<>>) = 0
  BY EmptySeq
<1>2. [state |-> "none", content |-> <<>>] \in Channels
  BY <1>1 DEF Channels
<1>3. TypeOK
  <2>1. /\ chan \in [Subscribers -> Channels]
        /\ \A s \in Subscribers : Len(chan[s].content) <= BufferSize
    BY <1>1, <1>2 DEF Init
  <2>2. /\ lines \in Seq(Nat) /\ nextSeq \in Nat /\ cursor \in Int
        /\ line \in [Appenders -> Nat]
    BY <1>1 DEF Init
  <2> QED BY <2>1, <2>2 DEF Init, TypeOK
<1>4. Contiguous
  BY <1>1 DEF Init, Contiguous
<1>5. SubscribersAreOpen /\ Numbered /\ Behind /\ NothingRepeated
  BY DEF Init, SubscribersAreOpen, Numbered, Behind, NothingRepeated
<1> QED BY <1>3, <1>4, <1>5 DEF IInv

(* A new line: the ring stays contiguous, the past only grows.             *)
LEMMA RecordKeeps ==
  ASSUME IInv, NEW a \in Appenders, Record(a)
  PROVE  IInv'
<1> USE DEF IInv
<1>1. lines \in Seq(Nat) /\ nextSeq \in Nat /\ Len(lines) \in Nat /\ Len(lines) <= Capacity
  BY LenProperties DEF TypeOK, Contiguous
<1>2. lines' = Ring(nextSeq) /\ nextSeq' = nextSeq + 1
  BY DEF Record
<1>3. /\ lines' \in Seq(Nat)
      /\ Len(lines') = IF Len(lines) = Capacity THEN Capacity ELSE Len(lines) + 1
      /\ lines'[Len(lines')] = nextSeq
      /\ \A i \in 1..(Len(lines') - 1) :
           lines'[i] = IF Len(lines) = Capacity THEN lines[i + 1] ELSE lines[i]
  BY <1>1, <1>2, RingProperties
<1>4. TypeOK'
  BY <1>2, <1>3 DEF Record, TypeOK, pollVars
<1>5. Contiguous'
  <2>1. Len(lines') <= Capacity /\ (Len(lines') = Capacity \/ Len(lines') = nextSeq')
    BY <1>1, <1>2, <1>3 DEF Contiguous
  <2>2. ASSUME NEW i \in 1..Len(lines')
        PROVE  lines'[i] = nextSeq' - Len(lines') + i - 1
    <3>1. CASE i = Len(lines')
      BY <1>1, <1>2, <1>3, <3>1
    <3>2. CASE i # Len(lines') /\ Len(lines) = Capacity
      <4>1. i \in 1..(Len(lines') - 1) /\ i + 1 \in 1..Len(lines)
        BY <1>1, <1>3, <3>2
      <4>2. lines[i + 1] = nextSeq - Len(lines) + (i + 1) - 1
        BY <4>1 DEF Contiguous
      <4> QED BY <1>1, <1>2, <1>3, <3>2, <4>1, <4>2
    <3>3. CASE i # Len(lines') /\ Len(lines) # Capacity
      <4>1. i \in 1..(Len(lines') - 1) /\ i \in 1..Len(lines)
        BY <1>1, <1>3, <3>3
      <4>2. lines[i] = nextSeq - Len(lines) + i - 1
        BY <4>1 DEF Contiguous
      <4>3. lines'[i] = lines[i] /\ Len(lines') = Len(lines) + 1 /\ i \in Int
        BY <1>3, <3>3, <4>1
      <4> QED BY <1>1, <1>2, <4>2, <4>3
    <3> QED BY <3>1, <3>2, <3>3
  <2> QED BY <2>1, <2>2 DEF Contiguous
<1>6. SubscribersAreOpen' /\ NothingRepeated'
  BY DEF Record, SubscribersAreOpen, NothingRepeated, pollVars
<1>7. Numbered'
  BY <1>1, <1>2 DEF Record, Numbered, TypeOK
<1>8. Behind'
  BY <1>1, <1>2 DEF Record, Behind, pollVars, TypeOK
<1> QED BY <1>4, <1>5, <1>6, <1>7, <1>8

(* A send, and the end of Append, change neither the ring nor the client.  *)
LEMMA SendingKeeps ==
  ASSUME IInv, NEW a \in Appenders, Sending(a)
  PROVE  IInv'
<1> USE DEF IInv
<1>1. Contiguous' /\ Behind' /\ NothingRepeated' /\ UNCHANGED <<subs, nextSeq, line>>
  BY DEF Sending, SendLine, SendPanics, AppendReturns, bufferVars, pollVars, Contiguous,
         Behind, NothingRepeated
<1>2. ASSUME NEW s \in Subscribers, SendLine(a, s) PROVE TypeOK' /\ SubscribersAreOpen' /\ Numbered'
  <2> DEFINE sent == Append(chan[s].content, <<line[a], a>>)
  <2>1. chan[s] \in Channels /\ <<line[a], a>> \in Nat \X Appenders
    BY DEF TypeOK
  <2>2. chan[s].content \in Seq(Nat \X Appenders)
    BY <2>1, ChannelTypes
  <2>3. /\ sent \in Seq(Nat \X Appenders) /\ Len(sent) = Len(chan[s].content) + 1
        /\ Len(chan[s].content) \in Nat
    BY <2>1, <2>2, AppendProperties, LenProperties
  <2>4. CASE Len(chan[s].content) < BufferSize
    <3>1. chan' = [chan EXCEPT ![s] = [chan[s] EXCEPT !.content = sent]]
      BY <1>2, <2>4 DEF SendLine
    <3> HIDE DEF sent
    <3>2. /\ [chan[s] EXCEPT !.content = sent] \in Channels
          /\ [chan[s] EXCEPT !.content = sent].content = sent
          /\ [chan[s] EXCEPT !.content = sent].state = chan[s].state
      <4>1. PICK ch \in Channels : ch = chan[s]
        BY <2>1
      <4> QED BY <2>3, <4>1 DEF Channels
    <3>3. Len(sent) <= BufferSize
      BY <2>3, <2>4
    <3>4. /\ chan' \in [Subscribers -> Channels]
          /\ \A u \in Subscribers : Len(chan'[u].content) <= BufferSize
          /\ \A u \in Subscribers : chan'[u].state = chan[u].state
      BY <3>1, <3>2, <3>3 DEF TypeOK
    <3> QED BY <1>1, <1>2, <3>4 DEF SendLine, TypeOK, SubscribersAreOpen, Numbered, bufferVars,
                                    pollVars
  <2>5. CASE ~(Len(chan[s].content) < BufferSize)
    BY <1>2, <2>5 DEF SendLine, TypeOK, SubscribersAreOpen, Numbered, bufferVars, pollVars
  <2> QED BY <2>4, <2>5
<1>3. ASSUME NEW s \in Subscribers, SendPanics(a, s) PROVE TypeOK' /\ SubscribersAreOpen' /\ Numbered'
  BY <1>3 DEF SendPanics, TypeOK, SubscribersAreOpen, Numbered, bufferVars, pollVars
<1>4. ASSUME AppendReturns(a) PROVE TypeOK' /\ SubscribersAreOpen' /\ Numbered'
  BY <1>4 DEF AppendReturns, TypeOK, SubscribersAreOpen, Numbered, bufferVars, pollVars
<1> QED BY <1>1, <1>2, <1>3, <1>4 DEF Sending

(* Subscribing, leaving, receiving: only the channels change.              *)
LEMMA SubscriberKeeps ==
  ASSUME IInv, NEW s \in Subscribers, Subscribe(s) \/ Unsubscribe(s) \/ Receive(s)
  PROVE  IInv'
<1> USE DEF IInv, appendVars, pollVars, bufferVars
<1>1. Contiguous' /\ Behind' /\ NothingRepeated' /\ Numbered'
  BY DEF Subscribe, Unsubscribe, Receive, Contiguous, Behind, NothingRepeated, Numbered
<1>2. PICK ch \in Channels : ch = chan[s]
  BY DEF TypeOK
<1>3. /\ ch.content \in Seq(Nat \X Appenders) /\ ch.state \in {"none", "open", "closed"}
      /\ Len(ch.content) <= BufferSize
  BY <1>2 DEF Channels, TypeOK
<1>4. ASSUME NEW st \in {"open", "closed"}, chan' = [chan EXCEPT ![s].state = st]
      PROVE  /\ chan' \in [Subscribers -> Channels]
             /\ \A u \in Subscribers : Len(chan'[u].content) <= BufferSize
             /\ \A u \in Subscribers : chan'[u].state = IF u = s THEN st ELSE chan[u].state
  <2>1. chan' = [chan EXCEPT ![s] = [ch EXCEPT !.state = st]]
    BY <1>2, <1>4
  <2>2. /\ [ch EXCEPT !.state = st] \in Channels
        /\ [ch EXCEPT !.state = st].content = ch.content
        /\ [ch EXCEPT !.state = st].state = st
    BY DEF Channels
  <2> QED BY <1>3, <2>1, <2>2 DEF TypeOK
<1>5. ASSUME Subscribe(s) PROVE TypeOK' /\ SubscribersAreOpen'
  <2>1. CASE closed
    BY <1>4, <1>5, <2>1 DEF Subscribe, TypeOK, SubscribersAreOpen
  <2>2. CASE ~closed
    BY <1>4, <1>5, <2>2 DEF Subscribe, TypeOK, SubscribersAreOpen
  <2> QED BY <2>1, <2>2
<1>6. ASSUME Unsubscribe(s) PROVE TypeOK' /\ SubscribersAreOpen'
  BY <1>4, <1>6 DEF Unsubscribe, TypeOK, SubscribersAreOpen
<1>7. ASSUME Receive(s) PROVE TypeOK' /\ SubscribersAreOpen'
  <2> DEFINE rest == Tail(ch.content)
  <2>1. chan' = [chan EXCEPT ![s] = [ch EXCEPT !.content = rest]] /\ ch.content # <<>>
    BY <1>2, <1>7 DEF Receive
  <2>2. rest \in Seq(Nat \X Appenders) /\ Len(rest) = Len(ch.content) - 1
    BY <1>3, <2>1, HeadTailProperties
  <2>3. Len(rest) <= BufferSize /\ Len(ch.content) \in Nat
    BY <1>3, <2>2, LenProperties
  <2> HIDE DEF rest
  <2>4. /\ [ch EXCEPT !.content = rest] \in Channels
        /\ [ch EXCEPT !.content = rest].content = rest
        /\ [ch EXCEPT !.content = rest].state = ch.state
    BY <2>2 DEF Channels
  <2>5. /\ chan' \in [Subscribers -> Channels]
        /\ \A u \in Subscribers : Len(chan'[u].content) <= BufferSize
        /\ \A u \in Subscribers : chan'[u].state = chan[u].state
    BY <1>2, <2>1, <2>3, <2>4 DEF TypeOK
  <2> QED BY <1>7, <2>5 DEF Receive, TypeOK, SubscribersAreOpen
<1> QED BY <1>1, <1>5, <1>6, <1>7

LEMMA CloseKeeps ==
  ASSUME IInv, Close
  PROVE  IInv'
<1> USE DEF IInv, appendVars, pollVars
<1>1. Contiguous' /\ Behind' /\ NothingRepeated' /\ Numbered' /\ SubscribersAreOpen'
  BY DEF Close, Contiguous, Behind, NothingRepeated, Numbered, SubscribersAreOpen
<1>2. ASSUME NEW s \in Subscribers
      PROVE  chan'[s] \in Channels /\ Len(chan'[s].content) <= BufferSize
  <2>1. PICK ch \in Channels : ch = chan[s]
    BY DEF TypeOK
  <2>2. chan'[s] = [ch EXCEPT !.state = "closed"] \/ chan'[s] = ch
    BY <2>1 DEF Close
  <2>3. /\ [ch EXCEPT !.state = "closed"] \in Channels
        /\ [ch EXCEPT !.state = "closed"].content = ch.content
    BY DEF Channels
  <2> QED BY <2>1, <2>2, <2>3 DEF TypeOK
<1>3. chan' \in [Subscribers -> Channels]
  <2>1. chan' = [s \in Subscribers |-> chan'[s]]
    BY DEF Close
  <2> QED BY <1>2, <2>1
<1>4. TypeOK'
  BY <1>2, <1>3 DEF Close, TypeOK
<1> QED BY <1>1, <1>4

(***************************************************************************)
(* What one answer of Since says: it is new, and before the next cursor.   *)
(***************************************************************************)
LEMMA AnswerProperties ==
  ASSUME IInv, NEW limit \in Limits, Poll(limit)
  PROVE  /\ got' \subseteq Nat /\ cursor' \in Int
         /\ \A n \in got' : cursor <= n /\ n < cursor' /\ n < nextSeq
         /\ \A n \in Nat : n < cursor /\ n < nextSeq => n < cursor'
         /\ \A i \in 1..Len(lines) :
              cursor <= lines[i] /\ lines[i] < cursor' => lines[i] \in got'
<1> DEFINE out == Chosen(cursor, limit)
<1>1. /\ lines \in Seq(Nat) /\ nextSeq \in Nat /\ cursor \in Int /\ Len(lines) \in Nat
  BY LenProperties DEF IInv, TypeOK, Contiguous
<1>2. \A i \in 1..Len(lines) : lines[i] \in Nat /\ lines[i] = nextSeq - Len(lines) + i - 1
  BY <1>1, ElementOfSeq DEF IInv, Contiguous
<1>3. out \in SUBSET (1..Len(lines)) /\ \A i \in out : lines[i] >= cursor
  BY ChosenAreWanted DEF Wanted
<1>4. got' = {lines[i] : i \in out} /\ cursor' = NextFrom(cursor, out)
  BY DEF Poll
<1>5. ASSUME NEW last \in out, NEW i \in 1..Len(lines), cursor <= lines[i], i <= last
      PROVE  i \in out
  <2>1. i \in Wanted(cursor)
    BY <1>1, <1>2, <1>5 DEF Wanted
  <2> QED BY <1>1, <1>5, <2>1, ChosenIsPrefix
<1> HIDE DEF out
<1>6. CASE out = {}
  <2>1. got' = {} /\ cursor' \in {cursor, nextSeq} /\ cursor' <= cursor
    BY <1>1, <1>3, <1>4, <1>6, NextFromProperties
  <2> QED BY <1>1, <1>2, <2>1
<1>7. CASE out # {}
  <2>1. PICK last \in out : (\A i \in out : i <= last) /\ cursor' = lines[last] + 1
    BY <1>1, <1>3, <1>4, <1>7, NextFromProperties
  <2>2. last \in 1..Len(lines) /\ cursor <= lines[last] /\ lines[last] < nextSeq
    BY <1>1, <1>2, <1>3, <2>1
  <2>3. \A i \in 1..Len(lines) : (lines[i] <= lines[last]) <=> (i <= last)
    BY <1>1, <1>2, <2>2
  <2>4. \A n \in got' : n \in Nat /\ cursor <= n /\ n < cursor' /\ n < nextSeq
    <3> TAKE n \in got'
    <3>1. PICK i \in out : n = lines[i]
      BY <1>4
    <3>2. i \in 1..Len(lines) /\ i <= last /\ lines[i] \in Nat /\ cursor <= lines[i]
      BY <1>1, <1>2, <1>3, <2>1, <3>1
    <3>3. lines[i] <= lines[last] /\ lines[last] \in Nat
      BY <1>2, <2>2, <2>3, <3>2
    <3> QED BY <1>1, <2>1, <2>2, <3>1, <3>2, <3>3
  <2>5. ASSUME NEW i \in 1..Len(lines), cursor <= lines[i], lines[i] < cursor'
        PROVE  lines[i] \in got'
    <3>1. i <= last
      BY <1>2, <2>1, <2>2, <2>3, <2>5
    <3> QED BY <1>4, <1>5, <2>5, <3>1
  <2>6. cursor < cursor' /\ cursor' \in Int
    BY <1>1, <1>2, <2>1, <2>2
  <2> QED BY <1>1, <2>4, <2>5, <2>6
<1> QED BY <1>6, <1>7

LEMMA PollKeeps ==
  ASSUME IInv, NEW limit \in Limits, Poll(limit)
  PROVE  IInv'
<1> USE DEF IInv, appendVars, bufferVars
<1>1. Contiguous' /\ SubscribersAreOpen' /\ Numbered'
  BY DEF Poll, Contiguous, SubscribersAreOpen, Numbered
<1>2. seen' = seen \union got /\ nextSeq' = nextSeq
  BY DEF Poll
<1>3. TypeOK'
  BY <1>2, AnswerProperties DEF Poll, TypeOK
<1>4. \A n \in seen' : n \in Nat /\ n < cursor /\ n < nextSeq
  BY <1>2 DEF Behind, TypeOK
<1>5. Behind'
  BY <1>2, <1>4, AnswerProperties DEF Behind
<1>6. NothingRepeated'
  <2>1. \A n \in got' : n \notin seen'
    BY <1>4, AnswerProperties DEF TypeOK
  <2> QED BY <2>1 DEF NothingRepeated
<1> QED BY <1>1, <1>3, <1>5, <1>6

LEMMA StepInvariant ==
  ASSUME IInv, [Next]_vars
  PROVE  IInv'
<1>1. CASE UNCHANGED vars
  BY <1>1 DEF vars, bufferVars, appendVars, pollVars, IInv, TypeOK, Contiguous,
              SubscribersAreOpen, Numbered, Behind, NothingRepeated
<1>2. CASE Next
  BY <1>1, <1>2, RecordKeeps, SendingKeeps, SubscriberKeeps, CloseKeeps, PollKeeps
  DEF Next, Rest
<1> QED BY <1>1, <1>2

LEMMA Invariance == Spec => []IInv
<1>1. Init => IInv
  BY InitInvariant
<1>2. IInv /\ [Next]_vars => IInv'
  BY StepInvariant
<1> QED BY <1>1, <1>2, PTL DEF Spec

-----------------------------------------------------------------------------
(* The theorems.                                                           *)

(* Types, and that no subscriber's channel holds more than its capacity.   *)
THEOREM TypeCorrect == Spec => []TypeOK
<1>1. IInv => TypeOK
  BY DEF IInv
<1> QED BY <1>1, Invariance, PTL

(* The ring holds the last lines, with consecutive numbers.                *)
THEOREM RingIsContiguous == Spec => []Contiguous
<1>1. IInv => Contiguous
  BY DEF IInv
<1> QED BY <1>1, Invariance, PTL

(* No answer repeats a line that an earlier answer had.                    *)
THEOREM AnswersAreNew == Spec => []NothingRepeated
<1>1. IInv => NothingRepeated
  BY DEF IInv
<1> QED BY <1>1, Invariance, PTL

(* What is in b.subs can be sent to and closed.                            *)
THEOREM OpenSubscribers == Spec => []SubscribersAreOpen
<1>1. IInv => SubscribersAreOpen
  BY DEF IInv
<1> QED BY <1>1, Invariance, PTL

(* The cursor never passes a retained line that the answer does not have.  *)
THEOREM AnswersAreComplete == Spec => NothingSkipped
<1> DEFINE Complete ==
      \A i \in 1..Len(lines) :
        cursor <= lines[i] /\ lines[i] < cursor' => lines[i] \in got'
<1>1. IInv /\ [Next]_vars => [Complete]_vars
  <2> SUFFICES ASSUME IInv, Next PROVE Complete \/ UNCHANGED vars
    OBVIOUS
  <2>1. CASE \E limit \in Limits : Poll(limit)
    BY <2>1, AnswerProperties
  <2>2. CASE UNCHANGED pollVars
    <3>1. cursor' = cursor /\ cursor \in Int /\ \A i \in 1..Len(lines) : lines[i] \in Nat
      BY <2>2, ElementOfSeq DEF pollVars, IInv, TypeOK
    <3> QED BY <3>1
  <2>3. (\E limit \in Limits : Poll(limit)) \/ UNCHANGED pollVars
    BY DEF Next, Rest, vars, Record, Sending, SendLine, SendPanics, AppendReturns, Subscribe,
           Unsubscribe, Receive, Close
  <2> QED BY <2>1, <2>2, <2>3
<1> QED BY <1>1, Invariance, PTL DEF Spec, NothingSkipped

-----------------------------------------------------------------------------
(***************************************************************************)
(* The order of what a subscriber is sent.  A line that an appender has    *)
(* still to send is newer than every line of its own in that channel.      *)
(***************************************************************************)
NewerToCome ==
  \A s \in Subscribers : LET sent == chan[s].content IN
    \A i \in 1..Len(sent) :
      /\ sent[i][1] < nextSeq
      /\ \A a \in Appenders :
           sent[i][2] = a /\ apc[a] = "sending" /\ s \in todo[a] => sent[i][1] < line[a]

(* Entries of a channel are pairs of a number and an appender.             *)
LEMMA EntryTypes ==
  ASSUME TypeOK, NEW s \in Subscribers
  PROVE  /\ chan[s].content \in Seq(Nat \X Appenders) /\ Len(chan[s].content) \in Nat
         /\ \A i \in 1..Len(chan[s].content) :
              chan[s].content[i][1] \in Nat /\ chan[s].content[i][2] \in Appenders
<1>1. chan[s].content \in Seq(Nat \X Appenders)
  BY DEF TypeOK, Channels
<1>2. \A i \in 1..Len(chan[s].content) : chan[s].content[i] \in Nat \X Appenders
  BY <1>1, ElementOfSeq
<1> QED BY <1>1, <1>2, LenProperties

LEMMA OrderStep ==
  ASSUME IInv, SentInOrder, NewerToCome, [Next]_vars
  PROVE  SentInOrder' /\ NewerToCome'
<1> DEFINE Goal == SentInOrder' /\ NewerToCome'
<1>1. CASE UNCHANGED <<chan, nextSeq, line>> /\ UNCHANGED <<apc, todo>>
  BY <1>1 DEF SentInOrder, NewerToCome
<1>2. ASSUME NEW a \in Appenders, Record(a) PROVE Goal
  <2>1. UNCHANGED chan /\ nextSeq' = nextSeq + 1 /\ nextSeq \in Nat
    BY <1>2 DEF Record, IInv, TypeOK
  <2>2. /\ line' = [line EXCEPT ![a] = nextSeq] /\ todo' = [todo EXCEPT ![a] = subs]
        /\ apc' = [apc EXCEPT ![a] = "sending"]
        /\ line \in [Appenders -> Nat] /\ todo \in [Appenders -> SUBSET Subscribers]
        /\ apc \in [Appenders -> {"idle", "sending", "panicked"}]
    BY <1>2 DEF Record, IInv, TypeOK
  <2>3. SentInOrder'
    BY <2>1 DEF SentInOrder
  <2>4. NewerToCome'
    <3> SUFFICES ASSUME NEW s \in Subscribers, NEW i \in 1..Len(chan[s].content)
                 PROVE  /\ chan[s].content[i][1] < nextSeq'
                        /\ \A b \in Appenders :
                             chan[s].content[i][2] = b /\ apc'[b] = "sending" /\ s \in todo'[b]
                               => chan[s].content[i][1] < line'[b]
      BY <2>1 DEF NewerToCome
    <3>1. chan[s].content[i][1] < nextSeq /\ chan[s].content[i][1] \in Nat
      BY EntryTypes DEF NewerToCome, IInv
    <3>2. \A b \in Appenders \ {a} :
             chan[s].content[i][2] = b /\ apc[b] = "sending" /\ s \in todo[b]
               => chan[s].content[i][1] < line[b]
      BY DEF NewerToCome
    <3> QED BY <2>1, <2>2, <3>1, <3>2
  <2> QED BY <2>3, <2>4
<1>3. ASSUME NEW a \in Appenders, NEW s \in Subscribers, SendLine(a, s) PROVE Goal
  <2> DEFINE old == chan[s].content
             entry == <<line[a], a>>
             new == Append(old, entry)
  <2>1. old \in Seq(Nat \X Appenders) /\ entry \in Nat \X Appenders /\ Len(old) \in Nat
    BY EntryTypes DEF IInv, TypeOK
  <2>2. /\ Len(new) = Len(old) + 1 /\ new[Len(old) + 1] = entry
        /\ \A i \in 1..Len(old) : new[i] = old[i]
    BY <2>1, AppendProperties
  <2>3. /\ UNCHANGED <<nextSeq, line, apc>> /\ apc[a] = "sending" /\ s \in todo[a]
        /\ todo' = [todo EXCEPT ![a] = @ \ {s}] /\ todo \in [Appenders -> SUBSET Subscribers]
        /\ line[a] < nextSeq
    BY <1>3 DEF SendLine, bufferVars, IInv, TypeOK, Numbered
  <2>4. /\ chan'[s].content = old \/ chan'[s].content = new
        /\ \A u \in Subscribers : u # s => chan'[u] = chan[u]
    BY <1>3 DEF SendLine, IInv, TypeOK
  <2>5. /\ \A i, j \in 1..Len(old) : i < j /\ old[i][2] = old[j][2] => old[i][1] < old[j][1]
        /\ \A i \in 1..Len(old) :
             /\ old[i][1] < nextSeq
             /\ \A b \in Appenders :
                  old[i][2] = b /\ apc[b] = "sending" /\ s \in todo[b] => old[i][1] < line[b]
    BY DEF SentInOrder, NewerToCome
  <2>6. entry[1] = line[a] /\ entry[2] = a
    OBVIOUS
  <2> HIDE DEF old, entry, new
  <2>7. \A i, j \in 1..Len(new) : i < j /\ new[i][2] = new[j][2] => new[i][1] < new[j][1]
    <3> SUFFICES ASSUME NEW i \in 1..Len(new), NEW j \in 1..Len(new), i < j,
                        new[i][2] = new[j][2]
                 PROVE  new[i][1] < new[j][1]
      OBVIOUS
    <3>1. i \in 1..Len(old) /\ (j \in 1..Len(old) \/ j = Len(old) + 1)
      <4>1. Len(old) \in Nat /\ Len(new) = Len(old) + 1
        BY <2>1, <2>2
      <4>2. i \in Int /\ j \in Int /\ 1 <= i /\ i < j /\ j <= Len(new)
        BY <4>1
      <4>3. i <= Len(old) /\ (j <= Len(old) \/ j = Len(old) + 1)
        BY <4>1, <4>2
      <4> QED BY <4>1, <4>2, <4>3
    <3>2. CASE j \in 1..Len(old)
      BY <2>2, <2>5, <3>1, <3>2
    <3>3. CASE j = Len(old) + 1
      BY <2>2, <2>3, <2>5, <2>6, <3>1, <3>3
    <3> QED BY <3>1, <3>2, <3>3
  <2>8. \A i \in 1..Len(new) :
          /\ new[i][1] < nextSeq
          /\ \A b \in Appenders :
               new[i][2] = b /\ apc[b] = "sending" /\ s \in todo'[b] => new[i][1] < line[b]
    <3> SUFFICES ASSUME NEW i \in 1..Len(new)
                 PROVE  /\ new[i][1] < nextSeq
                        /\ \A b \in Appenders :
                             new[i][2] = b /\ apc[b] = "sending" /\ s \in todo'[b]
                               => new[i][1] < line[b]
      OBVIOUS
    <3>1. i \in 1..Len(old) \/ i = Len(old) + 1
      BY <2>1, <2>2
    <3>2. \A b \in Appenders : s \in todo'[b] => s \in todo[b] /\ b # a
      BY <2>3
    <3>3. CASE i \in 1..Len(old)
      BY <2>2, <2>5, <3>2, <3>3
    <3>4. CASE i = Len(old) + 1
      BY <2>2, <2>3, <2>6, <3>2, <3>4
    <3> QED BY <3>1, <3>3, <3>4
  <2>9. \A u \in Subscribers, b \in Appenders : u # s => (u \in todo'[b]) = (u \in todo[b])
    BY <2>3
  <2>10. \A b \in Appenders : s \in todo'[b] => s \in todo[b]
    BY <2>3
  <2>11. SentInOrder'
    <3> SUFFICES ASSUME NEW u \in Subscribers, NEW i \in 1..Len(chan'[u].content),
                        NEW j \in 1..Len(chan'[u].content), i < j,
                        chan'[u].content[i][2] = chan'[u].content[j][2]
                 PROVE  chan'[u].content[i][1] < chan'[u].content[j][1]
      BY DEF SentInOrder
    <3>1. CASE u # s
      BY <2>4, <3>1 DEF SentInOrder
    <3>2. CASE u = s
      BY <2>4, <2>5, <2>7, <3>2
    <3> QED BY <3>1, <3>2
  <2>12. NewerToCome'
    <3> SUFFICES ASSUME NEW u \in Subscribers, NEW i \in 1..Len(chan'[u].content)
                 PROVE  /\ chan'[u].content[i][1] < nextSeq
                        /\ \A b \in Appenders :
                             chan'[u].content[i][2] = b /\ apc[b] = "sending" /\ u \in todo'[b]
                               => chan'[u].content[i][1] < line[b]
      BY <2>3 DEF NewerToCome
    <3>1. CASE u # s
      BY <2>4, <2>9, <3>1 DEF NewerToCome
    <3>2. CASE u = s
      BY <2>4, <2>5, <2>8, <2>10, <3>2
    <3> QED BY <3>1, <3>2
  <2> QED BY <2>11, <2>12
<1>4. ASSUME NEW a \in Appenders,
             AppendReturns(a) \/ \E s \in Subscribers : SendPanics(a, s)
      PROVE  Goal
  <2>1. /\ UNCHANGED <<chan, nextSeq, line, todo>>
        /\ \A b \in Appenders : apc'[b] = "sending" => apc[b] = "sending"
    BY <1>4 DEF AppendReturns, SendPanics, bufferVars, IInv, TypeOK
  <2> QED BY <2>1 DEF SentInOrder, NewerToCome
<1>5. ASSUME NEW s \in Subscribers, Subscribe(s) \/ Unsubscribe(s) PROVE Goal
  <2>1. /\ UNCHANGED <<nextSeq, line, todo, apc>>
        /\ \A u \in Subscribers : chan'[u].content = chan[u].content
    <3> PICK ch \in Channels : ch = chan[s]
      BY DEF IInv, TypeOK
    <3>1. \A st : [ch EXCEPT !.state = st].content = ch.content
      BY DEF Channels
    <3>2. /\ UNCHANGED <<nextSeq, line, todo, apc>>
          /\ \E st : chan' = [chan EXCEPT ![s] = [ch EXCEPT !.state = st]]
      BY <1>5 DEF Subscribe, Unsubscribe, appendVars
    <3> QED BY <3>1, <3>2 DEF IInv, TypeOK
  <2> QED BY <2>1 DEF SentInOrder, NewerToCome
<1>6. ASSUME Close PROVE Goal
  <2>1. /\ UNCHANGED <<nextSeq, line, todo, apc>>
        /\ \A u \in Subscribers : chan'[u].content = chan[u].content
    BY <1>6 DEF Close, appendVars, IInv, TypeOK, Channels
  <2> QED BY <2>1 DEF SentInOrder, NewerToCome
<1>7. ASSUME NEW s \in Subscribers, Receive(s) PROVE Goal
  <2> DEFINE old == chan[s].content
             rest == Tail(old)
  <2>1. old \in Seq(Nat \X Appenders) /\ Len(old) \in Nat /\ old # <<>>
    BY <1>7, EntryTypes DEF IInv, Receive
  <2>2. Len(rest) = Len(old) - 1 /\ \A i \in 1..Len(rest) : rest[i] = old[i + 1]
    BY <2>1, HeadTailProperties
  <2>3. /\ UNCHANGED <<nextSeq, line, todo, apc>> /\ chan'[s].content = rest
        /\ \A u \in Subscribers : u # s => chan'[u] = chan[u]
    BY <1>7 DEF Receive, bufferVars, appendVars, IInv, TypeOK, Channels
  <2>4. /\ \A i, j \in 1..Len(old) : i < j /\ old[i][2] = old[j][2] => old[i][1] < old[j][1]
        /\ \A i \in 1..Len(old) :
             /\ old[i][1] < nextSeq
             /\ \A b \in Appenders :
                  old[i][2] = b /\ apc[b] = "sending" /\ s \in todo[b] => old[i][1] < line[b]
    BY DEF SentInOrder, NewerToCome
  <2> HIDE DEF old, rest
  <2>5. \A i, j \in 1..Len(rest) : i < j /\ rest[i][2] = rest[j][2] => rest[i][1] < rest[j][1]
    <3> SUFFICES ASSUME NEW i \in 1..Len(rest), NEW j \in 1..Len(rest), i < j,
                        rest[i][2] = rest[j][2]
                 PROVE  rest[i][1] < rest[j][1]
      OBVIOUS
    <3>1. i + 1 \in 1..Len(old) /\ j + 1 \in 1..Len(old) /\ i + 1 < j + 1
      BY <2>1, <2>2
    <3> QED BY <2>2, <2>4, <3>1
  <2>6. \A i \in 1..Len(rest) :
          /\ rest[i][1] < nextSeq
          /\ \A b \in Appenders :
               rest[i][2] = b /\ apc[b] = "sending" /\ s \in todo[b] => rest[i][1] < line[b]
    <3> TAKE i \in 1..Len(rest)
    <3>1. i + 1 \in 1..Len(old)
      BY <2>1, <2>2
    <3> QED BY <2>2, <2>4, <3>1
  <2>7. SentInOrder'
    <3> SUFFICES ASSUME NEW u \in Subscribers, NEW i \in 1..Len(chan'[u].content),
                        NEW j \in 1..Len(chan'[u].content), i < j,
                        chan'[u].content[i][2] = chan'[u].content[j][2]
                 PROVE  chan'[u].content[i][1] < chan'[u].content[j][1]
      BY DEF SentInOrder
    <3>1. CASE u # s
      BY <2>3, <3>1 DEF SentInOrder
    <3>2. CASE u = s
      BY <2>3, <2>5, <3>2
    <3> QED BY <3>1, <3>2
  <2>8. NewerToCome'
    <3> SUFFICES ASSUME NEW u \in Subscribers, NEW i \in 1..Len(chan'[u].content)
                 PROVE  /\ chan'[u].content[i][1] < nextSeq
                        /\ \A b \in Appenders :
                             chan'[u].content[i][2] = b /\ apc[b] = "sending" /\ u \in todo[b]
                               => chan'[u].content[i][1] < line[b]
      BY <2>3 DEF NewerToCome
    <3>1. CASE u # s
      BY <2>3, <3>1 DEF NewerToCome
    <3>2. CASE u = s
      BY <2>3, <2>6, <3>2
    <3> QED BY <3>1, <3>2
  <2> QED BY <2>7, <2>8
<1>8. ASSUME NEW limit \in Limits, Poll(limit) PROVE Goal
  BY <1>8 DEF Poll, bufferVars, appendVars, SentInOrder, NewerToCome
<1>9. CASE UNCHANGED vars
  BY <1>1, <1>9 DEF vars, bufferVars, appendVars
<1> QED
  BY <1>2, <1>3, <1>4, <1>5, <1>6, <1>7, <1>8, <1>9 DEF Next, Rest, Sending

(* Lines of one appender reach a subscriber in order, once each.           *)
THEOREM SubscribersHearInOrder == Spec => []SentInOrder
<1>1. Init => SentInOrder /\ NewerToCome
  <2> SUFFICES ASSUME Init, NEW s \in Subscribers PROVE 1..Len(chan[s].content) = {}
    BY DEF SentInOrder, NewerToCome
  <2>1. chan[s].content = <<>>
    BY DEF Init
  <2> QED BY <2>1, EmptySeq
<1>2. IInv /\ (SentInOrder /\ NewerToCome) /\ [Next]_vars => (SentInOrder /\ NewerToCome)'
  BY OrderStep
<1> QED BY <1>1, <1>2, Invariance, PTL DEF Spec
=============================================================================
