------------------------------- MODULE Store --------------------------------
(***************************************************************************)
(* server/internal/run/store.go: every run in memory, each mirrored to its *)
(* own meta.json.                                                          *)
(*                                                                         *)
(* Update takes the lock, changes the record, copies it, releases the      *)
(* lock and only then calls persist, which has a lock of its own.  An      *)
(* update is therefore two steps of the calling goroutine with any step    *)
(* of another goroutine in between: the change of mem, which leaves the    *)
(* copy in pend, and the write of that copy.  A write is one step, because *)
(* a temporary file is renamed over meta.json.                             *)
(***************************************************************************)
EXTENDS RunState

CONSTANTS Runs,    (* the ids NewID hands out                              *)
          Actors   (* the goroutines that update the store                 *)

VARIABLES mem,     (* Store.runs                                           *)
          disk,    (* the meta.json of every run directory                 *)
          pend     (* the copy each goroutine has still to write           *)

storeVars == <<mem, disk, pend>>

StoreTypeOK ==
  /\ mem \in [Runs -> Records]
  /\ disk \in [Runs -> Records]
  /\ pend \in [Actors -> Records]

StoreInit ==
  /\ mem = [r \in Runs |-> Absent]
  /\ disk = [r \in Runs |-> Absent]
  /\ pend = [a \in Actors |-> Absent]

Known(r) == mem[r].state # "absent"

(***************************************************************************)
(* What json.MarshalIndent keeps of a record: everything but the Rel of    *)
(* its artifacts, which is tagged json:"-".                                *)
(***************************************************************************)
ToMeta(rec) ==
  [rec EXCEPT !.artifacts = IF @ = "resolvable" THEN "unresolvable" ELSE @]

(* The locked half of Add and of Update: change the record, keep a copy. *)
Update(a, r, rec) ==
  /\ mem' = [mem EXCEPT ![r] = rec]
  /\ pend' = [pend EXCEPT ![a] = rec]
  /\ disk' = disk

(* persist, when the temporary file reaches meta.json ... *)
Persist(a, r) ==
  /\ disk' = [disk EXCEPT ![r] = ToMeta(pend[a])]
  /\ pend' = [pend EXCEPT ![a] = Absent]
  /\ mem' = mem

(* ... and when it does not: CreateTemp, Write or the fifth Rename failed. *)
PersistFails(a) ==
  /\ pend' = [pend EXCEPT ![a] = Absent]
  /\ UNCHANGED <<mem, disk>>

(* Counts: how many runs are in one of the two live states. *)
InState(s) == {r \in Runs : mem[r].state = s}

Mut_RecoveredRecord(rec) == [rec EXCEPT !.ended = TRUE]

(***************************************************************************)
(* What Recover makes of a record it reads from meta.json.  The state is   *)
(* assigned before the message that quotes it is built.                    *)
(***************************************************************************)
RecoveredRecord(rec) ==
  IF Terminal(rec.state) THEN rec
  ELSE LET moved == [rec EXCEPT !.state = "errored", !.ended = TRUE]
       IN [moved EXCEPT !.error = IF moved.state = "queued" THEN "was queued"
                                  ELSE IF moved.state = "running" THEN "was running"
                                  ELSE "was errored"]
=============================================================================
