------------------------------- MODULE Server -------------------------------
(***************************************************************************)
(* The daemon across crashes: Queue while it is up, and store.Recover      *)
(* between a crash and the next time it is (server/cmd/pstad/main.go,      *)
(* server/internal/run/store.go).                                          *)
(*                                                                         *)
(* A crash can come between any two steps, inside a recovery too.  What is *)
(* in memory is lost; meta.json and the process groups stay.  An orderly   *)
(* stop followed by a start is a crash at a moment when all is at rest.    *)
(***************************************************************************)
EXTENDS Queue

CONSTANTS MaxCrashes,      (* bound: how often the daemon goes down         *)
          RecoveryMayFail  (* whether KillTree and persist can fail in it   *)

ASSUME ServerAssumption == MaxCrashes \in Nat /\ RecoveryMayFail \in BOOLEAN

VARIABLES daemon,   (* "up", or "recovering" in store.Recover              *)
          scan,     (* how far Recover is with each run directory          *)
          spared,   (* the runs whose tree KillTree could not kill         *)
          past,     (* what had become of each run when the daemon, first  *)
                    (* after its submission, went down                     *)
          crashes   (* how often it did                                    *)

recoveryVars == <<daemon, scan, spared, past, crashes>>
serverVars == <<vars, recoveryVars>>

ServerTypeOK ==
  /\ TypeOK
  /\ daemon \in {"up", "recovering"}
  /\ scan \in [Runs -> {"none", "todo", "swept", "done"}]
  /\ spared \in SUBSET Runs
  /\ past \in [Runs -> {"none", "cut", "retired"}]
  /\ crashes \in 0..MaxCrashes

(* The first boot finds an empty runs directory. *)
ServerInit ==
  /\ Init
  /\ daemon = "up"
  /\ scan = [r \in Runs |-> "none"]
  /\ spared = {}
  /\ past = [r \in Runs |-> "none"]
  /\ crashes = 0

-----------------------------------------------------------------------------
(* The crash.                                                              *)

(* A handler in flight never answers; a request not yet made still can be. *)
Cut == [r \in Runs |-> IF spc[r] \in {"new"} \union SubmitEnds THEN spc[r] ELSE "failed"]

(* Processes run on, in groups of their own. *)
LoseMemory ==
  /\ mem' = [r \in Runs |-> Absent]
  /\ pend' = [a \in Actors |-> Absent]
  /\ jobs' = <<>> /\ closed' = FALSE /\ rootDone' = FALSE
  /\ live' = {} /\ bufs' = [r \in Runs |-> "none"]
  /\ cancelled' = {} /\ armed' = {} /\ stopped' = {}
  /\ wpc' = [w \in Workers |-> "idle"]
  /\ cur' = [w \in Workers |-> NoRun]
  /\ outcome' = [w \in Workers |-> "none"]
  /\ cpc' = [c \in Cancels |-> IF cpc[c] = "new" THEN "new" ELSE "done"]
  /\ spc' = Cut
  /\ UNCHANGED <<disk, proc, target, reply, ack>>

Crash ==
  /\ crashes < MaxCrashes
  /\ crashes' = crashes + 1
  /\ LoseMemory
  /\ daemon' = "recovering"
  /\ scan' = [r \in Runs |-> "todo"]
  /\ past' = [r \in Runs |-> IF past[r] # "none" \/ spc[r] = "new" THEN past[r]
                             ELSE IF Retired(r) THEN "retired" ELSE "cut"]
  /\ UNCHANGED spared

-----------------------------------------------------------------------------
(* Recover: one run directory after the other, before anything is served.  *)

Orphaned(r) == disk[r].state \in LiveStates

(* The loop is between two directories. *)
Between == daemon = "recovering" /\ \A r \in Runs : scan[r] # "swept"

Mut_Sweep(r) ==
  /\ Between /\ scan[r] = "todo" /\ Orphaned(r) /\ disk[r].pid
  /\ scan' = [scan EXCEPT ![r] = "swept"]
  /\ UNCHANGED <<vars, daemon, spared, past, crashes>>

(* KillTree on the recorded process group; an error is only logged.        *)
Sweep(r) ==
  /\ Between /\ scan[r] = "todo" /\ Orphaned(r) /\ disk[r].pid
  /\ scan' = [scan EXCEPT ![r] = "swept"]
  /\ \/ proc' = [proc EXCEPT ![r] = "exited"] /\ UNCHANGED spared
     \/ RecoveryMayFail /\ spared' = spared \union {r} /\ UNCHANGED proc
  /\ UNCHANGED <<storeVars, jobs, closed, rootDone, live, bufs, cancelled, armed,
                 stopped, workerVars, cancelVars, submitVars, daemon, past, crashes>>

Mut_Adopt(r) ==
  /\ \/ scan[r] = "swept"
     \/ Between /\ scan[r] = "todo" /\ ~(Orphaned(r) /\ disk[r].pid)
  /\ scan' = [scan EXCEPT ![r] = "done"]
  /\ mem' = [mem EXCEPT ![r] = disk[r]]
  /\ disk' = [disk EXCEPT ![r] = IF Orphaned(r) THEN ToMeta(RecoveredRecord(@)) ELSE @]
  /\ UNCHANGED <<pend, queueVars, workerVars, cancelVars, submitVars, daemon,
                 spared, past, crashes>>

(* The rest of the iteration.  Nothing was ever persisted for a directory  *)
(* without meta.json, and only an orphan is written back.                  *)
Adopt(r) ==
  /\ \/ scan[r] = "swept"
     \/ Between /\ scan[r] = "todo" /\ ~(Orphaned(r) /\ disk[r].pid)
  /\ scan' = [scan EXCEPT ![r] = "done"]
  /\ mem' = [mem EXCEPT ![r] = IF disk[r] = Absent THEN Absent ELSE RecoveredRecord(disk[r])]
  /\ \/ disk' = [disk EXCEPT ![r] = IF Orphaned(r) THEN ToMeta(mem'[r]) ELSE @]
     \/ RecoveryMayFail /\ Orphaned(r) /\ UNCHANGED disk
  /\ UNCHANGED <<pend, queueVars, workerVars, cancelVars, submitVars, daemon,
                 spared, past, crashes>>

(* queue.Start, and the server listens. *)
Boot ==
  /\ daemon = "recovering" /\ \A r \in Runs : scan[r] = "done"
  /\ daemon' = "up"
  /\ UNCHANGED <<vars, scan, spared, past, crashes>>

(* A process that no worker waits for may end by itself.                   *)
OrphanExits(r) ==
  /\ proc[r] = "alive" /\ \A w \in Workers : cur[w] # r
  /\ proc' = [proc EXCEPT ![r] = "exited"]
  /\ UNCHANGED <<storeVars, jobs, closed, rootDone, live, bufs, cancelled, armed,
                 stopped, workerVars, cancelVars, submitVars, recoveryVars>>

Recovery == Boot \/ \E r \in Runs : Sweep(r) \/ Adopt(r)

Serve == daemon = "up" /\ Next /\ UNCHANGED recoveryVars

ServerNext == Serve \/ Crash \/ Recovery \/ \E r \in Runs : OrphanExits(r)

ServerSpec == ServerInit /\ [][ServerNext]_serverVars

(* The fairness of Queue while the daemon is up; Recover is a loop.        *)
Up(A) == daemon = "up" /\ A /\ UNCHANGED recoveryVars

ServerFairness ==
  /\ \A r \in Runs : WF_serverVars(Up(Submitter(r)))
  /\ \A c \in Cancels : WF_serverVars(Up(Canceller(c)))
  /\ \A w \in Workers : WF_serverVars(Up(Worker(w)))
  /\ WF_serverVars(Up(Stop))
  /\ WF_serverVars(Recovery)

FairServerSpec == ServerSpec /\ ServerFairness

-----------------------------------------------------------------------------
(* What a restart keeps.                                                   *)

(***************************************************************************)
(* Once the daemon is up again no run of an earlier life is queued or      *)
(* running, and none becomes so: "Without this, a restart leaves ... runs  *)
(* that never leave running" (store.go:164-165).                           *)
(***************************************************************************)
OrphansAreSettled ==
  daemon = "up" =>
    \A r \in Runs : past[r] # "none" => mem[r].state \notin LiveStates

(***************************************************************************)
(* A run that was finalised before the daemon went down is not taken for   *)
(* an orphan, whatever order its last updates were written in (Recover,    *)
(* Store.Update).                                                          *)
(***************************************************************************)
FinishedIsNotOrphaned ==
  daemon = "up" /\ ~DiskMayFail =>
    \A r \in Runs : past[r] = "retired" =>
      Terminal(mem[r].state) /\ mem[r].error # "was errored"

(***************************************************************************)
(* The tree of a run that a recovery has given up was killed first: a      *)
(* crash in between does not turn the record terminal with the tree alive, *)
(* after which no recovery would look at it (Recover's order of KillTree   *)
(* and persist).  KillTree may report an error, which is only logged.      *)
(***************************************************************************)
GivenUpTreesAreDead ==
  \A r \in Runs \ spared :
    disk[r].error = "was errored" /\ disk[r].pid => proc[r] # "alive"

(***************************************************************************)
(* Every run whose submission was answered 202 reaches a terminal state in *)
(* the end, executed or given up by a recovery, and stays in it, never     *)
(* forgotten: "a restart does not lose the history" (store.go:14-15).      *)
(***************************************************************************)
AckedRunsEnd ==
  \A r \in Runs : spc[r] = "acked" ~> [](daemon = "up" => Terminal(mem[r].state))

-----------------------------------------------------------------------------
(* What a comment says, and the code does not keep.                        *)

(***************************************************************************)
(* main.go:78-79: Recover comes first to "adopt what is on disk and clean  *)
(* up any process tree a previous instance left behind": where meta.json   *)
(* has the process group of an earlier run, that group is dead, unless     *)
(* KillTree failed.                                                        *)
(***************************************************************************)
RecordedTreesDie ==
  daemon = "up" =>
    \A r \in Runs \ spared : past[r] # "none" /\ disk[r].pid => proc[r] # "alive"
=============================================================================
