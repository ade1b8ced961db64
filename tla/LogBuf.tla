------------------------------- MODULE LogBuf -------------------------------
(***************************************************************************)
(* server/internal/logbuf/logbuf.go: the recent output of one run, in a    *)
(* ring of numbered lines, with clients that poll it through Since and     *)
(* subscribers that are sent each line as it comes.                        *)
(*                                                                         *)
(* A line is its sequence number.  Append records a line and copies the    *)
(* set of subscribers under the lock, and sends to each after it has       *)
(* released it: one step per subscriber, between which others append,      *)
(* subscribe, cancel a subscription or close the buffer.                   *)
(***************************************************************************)
EXTENDS Integers, Sequences, FiniteSets

CONSTANTS Capacity,    (* lines kept; New makes 5000 of a non-positive one *)
          Appenders,   (* goroutines that call Append                      *)
          Subscribers, (* callers of Subscribe, one call each              *)
          BufferSize,  (* capacity of a subscriber's channel               *)
          Froms,       (* numbers a client may begin to poll at            *)
          Limits,      (* limits a poll may carry; none if not positive    *)
          MaxLines     (* bound: the lines appended in all                 *)

ASSUME LogBufAssumption ==
  /\ Capacity \in Nat \ {0}
  /\ BufferSize \in Nat \ {0}
  /\ Froms \subseteq Int
  /\ Limits \subseteq Int
  /\ MaxLines \in Nat

VARIABLES lines,    (* the numbers of the retained lines, oldest first     *)
          nextSeq,  (* the number of the next line                         *)
          closed,   (* the buffer is closed                                *)
          subs,     (* the subscribers in b.subs                           *)
          chan,     (* each subscriber's channel: open or closed, content  *)
          apc,      (* where each appender is in Append                    *)
          line,     (* the line it appended last                           *)
          todo,     (* the subscribers it has still to send it to          *)
          cursor,   (* "from" of the polling client's next request         *)
          got,      (* the numbers of the lines of its last answer ...     *)
          seen      (* ... and of those before                             *)

bufferVars == <<lines, nextSeq, closed, subs>>
appendVars == <<apc, line, todo>>
pollVars == <<cursor, got, seen>>
vars == <<bufferVars, chan, appendVars, pollVars>>

Channels == [state : {"none", "open", "closed"}, content : Seq(Nat \X Appenders)]

TypeOK ==
  /\ lines \in Seq(Nat)
  /\ nextSeq \in Nat
  /\ closed \in BOOLEAN
  /\ subs \in SUBSET Subscribers
  /\ chan \in [Subscribers -> Channels]
  /\ \A s \in Subscribers : Len(chan[s].content) <= BufferSize
  /\ apc \in [Appenders -> {"idle", "sending", "panicked"}]
  /\ line \in [Appenders -> Nat]
  /\ todo \in [Appenders -> SUBSET Subscribers]
  /\ cursor \in Int
  /\ got \in SUBSET Nat
  /\ seen \in SUBSET Nat

Init ==
  /\ lines = <<>> /\ nextSeq = 0 /\ closed = FALSE /\ subs = {}
  /\ chan = [s \in Subscribers |-> [state |-> "none", content |-> <<>>]]
  /\ apc = [a \in Appenders |-> "idle"]
  /\ line = [a \in Appenders |-> 0]
  /\ todo = [a \in Appenders |-> {}]
  /\ cursor \in Froms /\ got = {} /\ seen = {}

-----------------------------------------------------------------------------
(* Append.                                                                 *)

Mut_Ring(n) ==
  IF Len(lines) > Capacity THEN Append(Tail(lines), n) ELSE Append(lines, n)

(* A full ring loses its oldest line. *)
Ring(n) ==
  IF Len(lines) = Capacity THEN Append(Tail(lines), n) ELSE Append(lines, n)

(* The locked half; on a closed buffer Append does nothing at all.         *)
Record(a) ==
  /\ apc[a] = "idle" /\ ~closed /\ nextSeq < MaxLines
  /\ lines' = Ring(nextSeq)
  /\ nextSeq' = nextSeq + 1
  /\ line' = [line EXCEPT ![a] = nextSeq]
  /\ todo' = [todo EXCEPT ![a] = subs]
  /\ apc' = [apc EXCEPT ![a] = "sending"]
  /\ UNCHANGED <<closed, subs, chan, pollVars>>

Mut_SendLine(a, s) ==
  /\ apc[a] = "sending" /\ s \in todo[a] /\ chan[s].state = "open"
  /\ \/ /\ Len(chan[s].content) < BufferSize
        /\ chan' = [chan EXCEPT ![s].content = Append(@, <<line[a], a>>)]
        /\ UNCHANGED todo
     \/ /\ todo' = [todo EXCEPT ![a] = @ \ {s}]
        /\ UNCHANGED chan
  /\ UNCHANGED <<bufferVars, apc, line, pollVars>>

Mut_BlockingSend(a, s) ==
  /\ apc[a] = "sending" /\ s \in todo[a] /\ chan[s].state = "open"
  /\ todo' = [todo EXCEPT ![a] = @ \ {s}]
  /\ Len(chan[s].content) < BufferSize
  /\ chan' = [chan EXCEPT ![s].content = Append(@, <<line[a], a>>)]
  /\ UNCHANGED <<bufferVars, apc, line, pollVars>>

(* A send that does not block: a full channel misses the line. *)
SendLine(a, s) ==
  /\ apc[a] = "sending" /\ s \in todo[a] /\ chan[s].state = "open"
  /\ todo' = [todo EXCEPT ![a] = @ \ {s}]
  /\ chan' = IF Len(chan[s].content) < BufferSize
             THEN [chan EXCEPT ![s].content = Append(@, <<line[a], a>>)]
             ELSE chan
  /\ UNCHANGED <<bufferVars, apc, line, pollVars>>

(* The channel was closed after the set was copied: a send panics, with a  *)
(* default branch or without, and no goroutine that appends recovers.      *)
SendPanics(a, s) ==
  /\ apc[a] = "sending" /\ s \in todo[a] /\ chan[s].state = "closed"
  /\ apc' = [apc EXCEPT ![a] = "panicked"]
  /\ UNCHANGED <<bufferVars, chan, line, todo, pollVars>>

AppendReturns(a) ==
  /\ apc[a] = "sending" /\ todo[a] = {}
  /\ apc' = [apc EXCEPT ![a] = "idle"]
  /\ UNCHANGED <<bufferVars, chan, line, todo, pollVars>>

Sending(a) ==
  (\E s \in Subscribers : SendLine(a, s) \/ SendPanics(a, s)) \/ AppendReturns(a)

-----------------------------------------------------------------------------
(* Subscribe, the cancel function it returns, and Close.                   *)

Subscribe(s) ==
  /\ chan[s].state = "none"
  /\ chan' = [chan EXCEPT ![s].state = IF closed THEN "closed" ELSE "open"]
  /\ subs' = IF closed THEN subs ELSE subs \union {s}
  /\ UNCHANGED <<lines, nextSeq, closed, appendVars, pollVars>>

Mut_Unsubscribe(s) ==
  /\ s \in subs
  /\ chan' = [chan EXCEPT ![s].state = "closed"]
  /\ UNCHANGED <<bufferVars, appendVars, pollVars>>

(* Once; a subscriber that Close has released is not in the map any more.  *)
Unsubscribe(s) ==
  /\ s \in subs
  /\ subs' = subs \ {s}
  /\ chan' = [chan EXCEPT ![s].state = "closed"]
  /\ UNCHANGED <<lines, nextSeq, closed, appendVars, pollVars>>

Receive(s) ==
  /\ chan[s].content # <<>>
  /\ chan' = [chan EXCEPT ![s].content = Tail(@)]
  /\ UNCHANGED <<bufferVars, appendVars, pollVars>>

Close ==
  /\ ~closed
  /\ closed' = TRUE
  /\ subs' = {}
  /\ chan' = [s \in Subscribers |->
                IF s \in subs THEN [chan[s] EXCEPT !.state = "closed"] ELSE chan[s]]
  /\ UNCHANGED <<lines, nextSeq, appendVars, pollVars>>

-----------------------------------------------------------------------------
(* Since, asked by a client that goes on where the last answer ended.      *)

Wanted(from) == {i \in 1..Len(lines) : lines[i] >= from}

(* The loop stops after the line that makes "limit" of them. *)
Chosen(from, limit) ==
  {i \in Wanted(from) :
     limit > 0 => Cardinality({j \in 1..i : lines[j] >= from}) <= limit}

Mut_NextAhead(from, out) ==
  IF out # {} THEN lines[CHOOSE i \in out : \A j \in out : j <= i] + 1 ELSE from

Mut_NextSame(from, out) ==
  IF out # {} THEN lines[CHOOSE i \in out : \A j \in out : j <= i]
  ELSE IF from > nextSeq THEN nextSeq ELSE from

(* The number to ask for next. *)
NextFrom(from, out) ==
  IF out # {} THEN lines[CHOOSE i \in out : \A j \in out : j <= i] + 1
  ELSE IF from > nextSeq THEN nextSeq ELSE from

Poll(limit) ==
  LET out == Chosen(cursor, limit)
  IN /\ got' = {lines[i] : i \in out}
     /\ cursor' = NextFrom(cursor, out)
     /\ seen' = seen \union got
     /\ UNCHANGED <<bufferVars, chan, appendVars>>

-----------------------------------------------------------------------------
(* A panic ends the daemon. *)
Crashed == \E a \in Appenders : apc[a] = "panicked"

Rest == (closed \/ Crashed) /\ UNCHANGED vars

Next ==
  \/ /\ ~Crashed
     /\ \/ \E a \in Appenders : Record(a) \/ Sending(a)
        \/ \E s \in Subscribers : Subscribe(s) \/ Unsubscribe(s) \/ Receive(s)
        \/ Close
        \/ \E limit \in Limits : Poll(limit)
  \/ Rest

Spec == Init /\ [][Next]_vars

(* Goroutines inside Append run on, and the client goes on polling.        *)
Fairness ==
  /\ \A a \in Appenders : WF_vars(~Crashed /\ Sending(a))
  /\ WF_vars(~Crashed /\ \E limit \in Limits : Poll(limit))

FairSpec == Spec /\ Fairness

-----------------------------------------------------------------------------
(* What the buffer promises.                                               *)

(***************************************************************************)
(* The retained lines are the last ones, at most Capacity of them, with    *)
(* consecutive numbers ("a monotonic sequence number", logbuf.go:3),       *)
(* whichever goroutines appended them.                                     *)
(***************************************************************************)
Contiguous ==
  /\ Len(lines) <= Capacity
  /\ Len(lines) = Capacity \/ Len(lines) = nextSeq
  /\ \A i \in 1..Len(lines) : lines[i] = nextSeq - Len(lines) + i - 1

(***************************************************************************)
(* A polling client "resumes exactly where it stopped without re-reading   *)
(* or skipping" (logbuf.go:3-5): no answer repeats a line of an earlier    *)
(* one ...                                                                 *)
(***************************************************************************)
NothingRepeated == got \intersect seen = {}

(* ... and the cursor moves past a retained line only if the answer has it. *)
NothingSkipped ==
  [][\A i \in 1..Len(lines) :
       cursor <= lines[i] /\ lines[i] < cursor' => lines[i] \in got']_vars

(***************************************************************************)
(* Lines that one goroutine appended reach a subscriber in their order and *)
(* once each, whatever it missed (Append's sends after the unlock).        *)
(***************************************************************************)
SentInOrder ==
  \A s \in Subscribers : LET sent == chan[s].content IN
    \A i, j \in 1..Len(sent) :
      i < j /\ sent[i][2] = sent[j][2] => sent[i][1] < sent[j][1]

(* A closed channel is not in b.subs, so that nobody closes it again.      *)
SubscribersAreOpen == \A s \in subs : chan[s].state = "open"

(***************************************************************************)
(* "A subscriber that cannot keep up misses live lines rather than         *)
(* stalling the process" (logbuf.go:76-78): Append returns although no     *)
(* subscriber receives anything.                                           *)
(***************************************************************************)
AppendNeverStalls ==
  \A a \in Appenders : apc[a] = "sending" ~> (apc[a] = "idle" \/ Crashed)

=============================================================================
