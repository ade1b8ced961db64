# pstad in TLA+

`pstad` (src/server, Go) runs Playwright workflows for HTTP clients. A client
submits a run, polls its record and its log, may cancel it, and downloads what
it produced. This directory models the server's concurrent core, checks the
models with TLC and proves what matters most with TLAPS.

## 1. The system

| part | state it keeps | operations | talks to |
|---|---|---|---|
| run record (`run/run.go`) | `State`, PID, times, summary, artifacts, error | `Terminal` | - |
| store (`run/store.go`) | `runs` in memory, one `meta.json` per run | `Add`, `Get`, `Update`, `List`, `Counts`, `persist`, `Recover` | disk, `KillTree` |
| queue (`run/queue.go`) | channel `jobs`, maps `live`, `bufs`, `cancelled`, a `cancelFn` per job | `Start`, `Stop`, `Submit`, `Cancel`, `worker`, `execute`, `finish` | store, `Execute`, log buffer |
| execution (`run/exec.go`) | one child process, three goroutines, `run.log` | `Execute`, `buildEnv` | kernel, log buffer, `KillTree` |
| kill (`run/kill_unix.go`) | - | `prepareCmd`, `KillTree` | kernel |
| log buffer (`logbuf/logbuf.go`) | ring of numbered lines, subscribers, `closed` | `Append`, `Since`, `Subscribe`, `Close` | `Execute`, `getLog` |
| handlers (`httpapi/handlers.go`) | none of their own | `createRun`, `cancelRun`, `getRun`, `getLog`, `getResults`, `getArtifact`, `listReceipts`; `validateCSV`, `findHeaderRow` | everything above |
| daemon (`cmd/pstad/main.go`) | root context | recover, start, serve, shut down | everything |
| catalog, config | loaded once at boot, read-only | `Load`, validation | handlers |
| receipts, results, layout | stateless readers of directories | `List`, `Collect`, `Create` | handlers, `finish` |
| clients (`streamlit/app.py`, `public/index.html`) | run id, next log sequence number | poll | handlers |

What is hard in it:

* **Goroutines meet on four locks and a channel.** `q.mu`, `store.mu`,
  `store.persistMu` and the buffer's lock are taken one after the other, never
  nested, so every operation of more than one critical section can be
  interleaved by another. `createRun`, `Cancel`, `worker` and `finish` all are.
* **Decisions on values read earlier.** `Cancel` decides on a copy of the record
  and on a `cancelFn` that `execute` has not yet set; `getLog` answers with a
  state read before the lines.
* **Two copies of the record.** Memory and `meta.json` are updated under
  different locks, and a write may fail.
* **A process tree that outlives its parent**, killed by a goroutine nobody
  waits for, and a pipe whose reading end `cmd.Wait` closes.
* **A directory built before its record**: `createRun` makes the run directory,
  writes inputs into it one by one and may refuse half-way; a crash can come
  between any two of these steps.
* **A log with two sources**: the buffer while the daemon that executed the run is
  up, `run.log` afterwards, with the same cursor into both.
* **Shutdown and crash**: the backlog is drained with a cancelled context; after
  a crash `Recover` works from what reached the disk.

What makes each part correct: no run executes twice, is lost or stays live for
ever (queue); a terminal record stays terminal, and reaches the disk unless the
write fails (store);
what the pool promises, a bounded FIFO, is what it does (queue); a killed process
is reported as killed, and what was read is on disk when `Execute` returns
(execution); a poller of the buffer misses and repeats nothing that was kept
(buffer); after a restart no record claims to be live (recovery); a follower of a
log gets no line twice and stops when it may (log endpoint); a refused request
leaves nothing behind and a recorded one has its inputs and a bounded wall clock
(admission); an artifact's id serves that artifact or nothing (results).

## 2. Modules

| module | models | composes |
|---|---|---|
| `RunState` | the states and the fields of a record that code branches on | - |
| `Store` | memory, `meta.json`, and the two steps of an update | `RunState` |
| `Queue` | the queue, its workers, `createRun` from `Store.Add` on, `cancelRun`, shutdown | `Store`, `RunState` |
| `Dispatch` | abstract: a bounded FIFO with a pool of workers, each run given out once | - |
| `MCQueue` | instances for TLC | `Queue` |
| `QueueProofs` | theorems about `Queue` | `Queue`, TLAPS |
| `QueueStoreProofs` | theorems about what `Queue` leaves in the store and outside it: `meta.json`, processes, the calls of `Execute` | `QueueProofs`, `Execution` |
| `Exec` | one call of `Execute` with its goroutines, its process group and `KillTree` | - |
| `Execution` | abstract: `Execute` as the queue sees it | - |
| `MCExec`, `ExecProofs` | instances for TLC; theorems about `Exec` | `Exec`, `Execution` |
| `LogBuf` | the ring of recent lines, its subscribers and a polling client | - |
| `MCLogBuf`, `LogBufProofs` | instances for TLC; theorems about `LogBuf` | `LogBuf` |
| `LogTail` | the output of a run from the child to a client: Execute, `finish`, `run.log`, `getLog`, a restart, a follower | `LogBuf` |
| `MCLogTail`, `LogTailProofs` | instances for TLC; theorems about `LogTail` | `LogTail`, `LogBufProofs` |
| `Receipts` | the attachment library: `List`, `Has`, `ETag` | - |
| `Catalog` | the manifest and what `index` checks of it | - |
| `Upload` | `validateCSV`, `findHeaderRow` and the checks of a request as a whole | `Catalog`, `Receipts` |
| `RunDir` | a run's directory from the request to the downloads, across restarts; the client of the list of receipts | `Upload` |
| `UploadProofs` | what the loop of `findHeaderRow` computes, for every sheet | `Upload` |
| `MCRunDir`, `RunDirProofs` | instances for TLC; theorems about `RunDir` | `RunDir`, `UploadProofs` |
| `Server` | the daemon across crashes: `Recover` between two lives of the queue | `Queue` |
| `MCServer`, `ServerProofs` | instances for TLC; theorems about `Server` | `Server`, `QueueStoreProofs` |

### RunState and Store

`Records` keeps `state`, whether a PID and an end time are recorded, whether the
artifacts can be resolved to files (`Rel` is tagged `json:"-"`, so a record read
back from disk has lost it), and the cause of `Error`. An id the store does not
hold has the record `Absent`.

`Store.Update` changes and copies the record under `mu` and writes the copy
under `persistMu`. In the model the first half is `Update(a, r, rec)`, which
leaves the copy in `pend[a]`; the second is `Persist(a, r)` or, if `DiskMayFail`,
`PersistFails(a)`. Every other goroutine may step between them.

### Queue

`spc[r]` is where the handler that creates run `r` is, `wpc[w]` where a worker
is, `cpc[c]` where a cancel request is. One action is one critical section, one
channel operation, one call of a `CancelFunc` or one write of `meta.json`:

| code | actions |
|---|---|
| `createRun`, `Store.Add` | `AddRun`, `AddPersists` |
| `Submit` | `Register`, then `Send`, or `FindFull` and `Unregister`, or `SendPanics` on a closed channel |
| `createRun` after `Submit` | `Refuse`, `RefusePersists`, `Acknowledge` |
| `Cancel`, `cancelRun` | `CancelGet`, `CancelFlag`, `CancelSignal`, `CancelRecord`, `CancelPersists` |
| `worker` | `Take`, `CheckFlag`, `WorkerExit` |
| `execute` | `Arm`, `MarkRunning`, `Launch` or `LaunchFails`, `RecordPid`, `ExecuteReturns` |
| `finish` | `Finish`, `CloseBuffer`, `Retire` |
| the write behind each `store.Update` of a worker | `WorkerPersists` |
| `main`, `Stop` | `Signal`, `Stop` |

`Execute` is seen from outside here: it launches or fails to, reports a PID, and
later returns an outcome. `proc` is the process it starts and waits for;
descendants of it that live on after `Execute` has returned are in `Exec` only.
`Execute` may return `cancelled` only if its context, or the root context, was
cancelled; it may also return another outcome then, because the process can exit
before the watching goroutine has looked.

`Dispatch` is what this amounts to for a caller: runs are accepted into a bounded
FIFO until it is shut, an idle worker begins the oldest, a run that has begun
ends, and none is accepted or begun twice. A run waits in `Dispatch` while it is in the
channel, executes while a worker holds it, and is over when `finish` has let go
of it.

### Exec and Execution

One call of `Execute`: `pc` is where the calling goroutine is, `reader` and
`watcher` where the two it starts are. The started process (`leader`) and its
descendants (`kids`) form a process group; `ctx` is the context with the run's
deadline.

| code | actions |
|---|---|
| `Execute` | `StartFails` or `StartProcess`, `StartGoroutines`, `WaitReturns`, `CloseDone`, `Join` (`wg.Wait`), `Decide` |
| the reader | `Fetch` (one read of the pipe), `ReadLine` (buffer and `bufio`), `ScanEnds`, `Flush` |
| the watcher | `SeeDone` or `SeeContextEnd`, and inside `KillTree` `Terminate`, `FindGone`, `Kill` |
| processes | `Spawn`, `KidExits`, `LeaderExits`, `LeaderWrites` |
| the context | `CancelRun`, `Shutdown`, `Expire`; `Return` runs the deferred `cancel()` |
| `main` returning | `DaemonExits`, with which the watcher stops wherever it is |

`kill(2)` on the group finds it while any member, a zombie included, has not been
reaped. `cmd.Wait` closes the reading end of the pipe, which is what makes
`ScanEnds` possible with output still unread. The lines of output are counters
that keep an order: `onDisk <= read <= fetched <= written`.

`Execution` is the whole of `Execute` as `Queue` sees it, in three variables;
`Exec` implements it, by `ImplementsExecution` and theorem `RefinesExecution`. It
is what joins the two models: `Launch`, `LaunchFails` and `ExecuteReturns` of
`Queue` are its steps, which theorem `CallsOfExecute` proves for every worker. The context
may have been cancelled before the call, hence both values of `asked` in its `Init`.

### LogBuf

A line is its sequence number. `Record` is the locked half of `Append` (`Ring`
makes room), `SendLine` one send to one of the subscribers copied under the lock,
`SendPanics` the same send when the channel was closed in between. `Subscribe`,
`Unsubscribe` (the cancel function) and `Close` are one critical section each.
`Poll` is one request of a client of `getLog` that asks for what follows its last
answer; `Chosen` and `NextFrom` are the two results of `Since`.

### LogTail

`LogTail` puts the buffer of `LogBuf` to its use: the appenders are the worker
(the command, and `[server] run ...`), the reader goroutine (the child's lines) and
the watcher (its complaint). A line of `run.log` is the number the buffer gave it;
`pending` is the `bufio.Writer` in front of the file. A full writer is flushed with the
line that did not fit, which can be cut in two; the file then ends in half a line,
which `tailFile` serves as one, and the model counts it as one (`Write`). `FromMemory` is `getLog` while
`q.bufs` has the run, `FromFile` is `tailFile`, where line `i` has number `i - 1`.
The client asks for the state (`AskState`) and then for the log (`Answer` or
`NoAnswer`); with `stops` it is the Streamlit session, which ends at a terminal
state, without it somebody who polls for ever. `Crash` loses the buffer and what
was not flushed; `Restart` is `Recover` as far as this record goes. What of
`Submit`, `Cancel`, `execute` and `finish` the log depends on is repeated in outline;
`Queue` has the detail.

### Receipts, Catalog, Upload and RunDir

`Receipts`, `Catalog` and `Upload` are operators without state. A library is a set
of entries, a manifest a record of the fields the server reads, a sheet the
rows of cells that `encoding/csv` returns; a cell is a sequence of symbols (a byte
order mark, a blank or a word), because trimming is what goes wrong in it. The names of columns and
files are one word, so that a cell with more in it, inside or outside the blanks, names
nothing. The
loop of `findHeaderRow` is the recursive function in `Scan`.

`RunDir` is the handler `createRun` up to `Store.Add` and what becomes of the
directory it makes:

| code | actions |
|---|---|
| `main`: `catalog.Load`, `Recover` | `Boot` |
| `createRun` before the directory | `Refuse` |
| `lay.Create` | `MakeDir` |
| the loop over the inputs, a `csv` | `SkipCSV`, `RejectCSV`, `StoreCSV` |
| the loop over the inputs, an `int` | `SetInt`, `RejectInt` |
| `os.RemoveAll` after the answer | `Sweep` |
| `Store.Add`, `Queue.Submit` and the answer | `AddRecord`, `Enqueue` |
| `execute`, Playwright, `finish` with `Collect` | `Run`, `Write`, `Finish` |
| `listReceipts` | `ListReceipts` |
| the curator of the library | `PutReceipt`, `RemoveReceipt` |

`Sweep` can fail half-way, as `os.RemoveAll` can, whose error `createRun` discards; the
request then ends in `unswept`. `PutReceipt` gives a file any time: `cp` and an editor
give it the time of now, `mv`, `cp -p`, `rsync -a` and `tar` the one it had, and two writes
can share one. `late` records, for the property only, which of the files that came
since the client's list were no newer than one before them.

`Submit`, the workers and the two steps of an update are one step each here;
`Queue` and `Store` have them in detail. `Download` and `Results` read only and are
operators.

### Server

`Queue` is what a daemon does while it is up (`Serve`). `Crash` may come between
any two steps: memory is lost (`LoseMemory`), `meta.json` and the process groups
stay, a handler in flight never answers. `Recover` then takes the run directories
one by one: `Sweep` is `KillTree` on the recorded group of a record that still
reads `queued` or `running`, `Adopt` the rest of the iteration; a crash can fall
between the two. `Boot` is `queue.Start` and the listener. An orderly stop and
start is a crash at a moment of rest. `past` remembers what had become of a run
when the daemon went down, and `spared` the runs for which `KillTree` failed;
both are history only. A runs directory that cannot be read at all keeps the
daemon from starting and is not modelled.

## 3. Runs

| run | module, cfg | properties | what it shows |
|---|---|---|---|
| `queue_pool` | `MCQueue`, `QueuePool.cfg` | `TypeOK`, `OneHolder`, `QueuedIsPending`, `RefusedNeverRuns`, `RunningIsSupervised`, `SettledIsTerminal`, `ReachableWhileLive`, `ImplementsDispatch`, `TimelyCancelIsFinal` | Two submissions contend for a backlog of one, with two workers, a cancellation and a shutdown in every interleaving: nothing executes twice, no record is forgotten in queued, a refused run leaves nothing behind, a running record has a worker that will finalise it, a finalised one stays terminal, the job and its buffer can be found until finish lets go of them, a run flagged while it waits is never launched and ends cancelled for good, and the queue implements the bounded FIFO pool of Dispatch. |
| `queue_live` | `MCQueue`, `QueueLive.cfg` | `WithinPool`, `EveryJobSettles`, `StopReturns` | Under the fairness of the Go scheduler, with writes that may fail, every job sent is finalised in memory, Stop returns with the backlog drained, and no more processes that Execute started and waits for are alive than the pool has workers. |
| `queue_accepted` (violation) | `MCQueue`, `QueueAccepted.cfg` | `AcceptedCancelStops` | A cancellation answered 202 leaves the process running with its context intact. |
| `exec` | `MCExec`, `Exec.cfg` | `KilledIsReported`, `ReportedAsAsked`, `ReadIsOnDisk`, `ImplementsExecution`, `ExecuteReturns`, `TreeDies` | One call of Execute with two descendants, in every order of process events, context end, reader, watcher and waiting, with lines too long and a kill(2) that may fail: the outcome names the right cause, run.log has what clients saw, the queue sees the Execute it relies on, Execute returns by its deadline even if no process exits by itself, and a signalled tree dies as a whole. |
| `exec_log` (violation) | `MCExec`, `ExecLog.cfg` | `FullLogOnDisk` | cmd.Wait closes the pipe before the reader has emptied it, and run.log misses the last lines. |
| `exec_orphan` (violation) | `MCExec`, `ExecOrphan.cfg` | `StopLeavesNoOrphans` | The daemon exits while a descendant is alive and KillTree has not finished. |
| `logbuf` | `MCLogBuf`, `LogBuf.cfg` | `Contiguous`, `SentInOrder`, `SubscribersAreOpen`, `AppendNeverStalls` | Two appenders overflow a ring of two lines while a subscriber comes and goes and the buffer is closed: numbers stay contiguous, a subscriber hears each appender in order, a slow one stalls nobody. |
| `server` | `MCServer`, `Server.cfg` | `OrphansAreSettled`, `FinishedIsNotOrphaned`, `GivenUpTreesAreDead`, `AckedRunsEnd` | A run is submitted, cancelled and executed by a daemon that may crash twice, between any two steps and inside its recovery, in which KillTree and the write may fail: after a restart no earlier run is live, none that was acknowledged is lost, none that had finished is given up, no tree of a given-up run is alive, and every acknowledged run ends. |
| `server_orphan` (violation) | `MCServer`, `ServerOrphan.cfg` | `RecordedTreesDie` | Recover skips a record that a cancellation made terminal while its process tree was alive. |
| `log_tail` | `MCLogTail`, `LogTail.cfg` | `TailTypeOK`, `NothingRepeated`, `FileLagsBehind`, `StoppedHasAll`, `FinishedIsOnDisk`, `NoneSkipped`, `FollowerStops`, `FollowerCatchesUp` | One run writes into a ring of two and into run.log, is cancelled or not, and is followed over a daemon that may crash at any step: no line is given twice from either source, none is skipped within one, a client that stops after a last answer that was not cut short has all of a finished run, run.log has what the buffer has of the child once the record says finished, and every client stops or catches up. |
| `log_from` (violation) | `MCLogTail`, `LogTailFrom.cfg` | `NothingMissed` | A client that has polled from zero misses a line of run.log when a restart makes the file answer in place of the buffer. |
| `rundir` | `MCRunDir`, `RunDir.cfg` | `LeavesNothing`, `InputsReachTheRun`, `VerdictIsRight`, `ManifestSuffices`, `FreshIfNotModified`, `DownloadsAreOwn` | Manifests that are sound and not, requests with sheets that fit and do not, writes and removals that fail and a daemon that goes down at any step: what is refused leaves nothing unless its removal fails, what is recorded has its inputs and a bounded clock, validateCSV accepts what it should against a library that changes, a 304 keeps from a client only files that came with a time no newer than one before, and a download is the artifact it names or nothing. |

### Bounds

Runs, workers and cancel requests are sets of model values, permuted by a
symmetry in `queue_pool`, whose properties are all safety properties, the
refinement of `Dispatch` and the action property included. Two runs and `Depth = 1` are the least
with which a backlog is full while another run waits or executes; two workers the
least for "two runs at once"; one cancellation is enough to race both a handler
and a worker. Two cancellations that race each other are not checked by TLC, which
would need more than the few minutes a run may take; the theorems are for any number.
A handler and a cancel request are used once each: a client that repeats itself is
another element of the set. `DiskMayFail` says whether a write can fail; in
`queue_live` it can.

`exec` has two descendants, the least with which one can outlive the other and
start it; two lines, so that one can be in the pipe while the other is fetched,
read or on disk (`MaxLines`); and both `LongLines` and `KillRefused`. The two
violation runs need less and switch both off, so that neither is to blame.

`logbuf` has two appenders, a ring of two lines for four appended ones
(`MaxLines`), so that half of them are evicted; one subscriber with room for two.
What a polling client gets is checked in `log_tail`, with the client that exists, and
proved in `LogBufProofs`; the client of `logbuf` begins behind (-1), at (0), in the middle of (2) or ahead of (5) the
numbers, and polls without a limit or with a limit of one or two (`Froms`,
`Limits`).

`log_tail` has the three appenders of a run, a ring of two lines, five lines
(`MaxLines`: the command, up to two of the child, the watcher's and the last), so
that lines are evicted before a slow client has asked; a client that begins behind,
at or ahead of the numbers and asks for one line or all (`Froms`,
`Limits`), in both kinds; one crash. Nothing subscribes. `log_from` leaves only what is to
blame: a ring that forgets nothing, and a client that begins at zero and asks for all.

`rundir` has a manifest of six (two sound ones that differ in their inputs and
timeouts, a sound one whose schema has no columns, and one each with a timeout
bound of zero, a schema that is missing and a variable used twice), some sixty
requests, mostly sheets of up to three rows whose first two are any of four heads,
and two rows in which a header is searched (`HeaderScanRows`, ten in the code); in two of
the sheets it comes in the third. The library has a directory, a file that is skipped,
and two files that come and go with either of two times (`MaxTime`), in any order and
any number of times, which is enough for two lists with one ETag. Two boots (`MaxBoots`).
Writes and removals may fail. It stops where
a daemon has refused its manifest, so deadlock is not checked there.

`server` has one run, one worker and one cancellation, all that the hazards of a
restart involve, and two crashes (`MaxCrashes`), so that one can hit the recovery
from the other. Writes succeed while the daemon is up, since `FinishedIsNotOrphaned`
is about the order of writes and not their failure; in the recovery both the
write and `KillTree` may fail (`RecoveryMayFail`).

### Fairness

`Fairness` in `Queue` has weak fairness on each handler that has begun, each
cancel request that has begun, each worker, and `Stop`. The Go scheduler runs
every runnable goroutine; locks are held for a few instructions; `Execute`
returns because its context always has a deadline (`Exec` shows how), and `main`
goes on to `Stop` because `srv.Shutdown` is bounded by `ShutdownGrace`. Clients
and signals are not fair: no request ever has to arrive. `Rest` is the stutter of
a system in which everything has ended; it keeps deadlock checking on.

In `Exec` the goroutines and the timer of the context are fair. No process has to
exit, to write or to close its output: `ExecuteReturns` holds because the deadline
brings SIGKILL. It is stated unless `KillTree` reports an error, because then
nothing is left that could end the process.

In `LogBuf` a goroutine that is inside `Append` runs on, and the client goes on
polling. Nobody has to append, to receive from a subscription or to close.

In `LogTail` the goroutines of the server run on and the daemon is restarted
after a crash, as the deployment does. A single request may fail, hence strong
fairness of `Answer`: a client that goes on polling is answered now and then. The
child need not write anything; that it ends in the end is `TreeDies` of `Exec`.

In `Server` the fairness is that of `Queue` while the daemon is up, and `Recover`,
a loop without waiting other than `KillTree`'s ten seconds, runs to its end. No
crash has to come.

## 4. Findings

The runs that expect a violation check a sentence of the repository that the
code does not keep. Each finding in `PROJECT.json` quotes it.

* `queue_accepted`, `AcceptedCancelStops` (code bug, src/server/internal/run/queue.go:143): A cancellation that flags the job after the worker has looked at the flag (queue.go:177-179) and reads cancelFn before execute sets it (queue.go:194) is answered 202, and the run is executed with a context nobody cancels. src/server/internal/run/queue.go:123 says "Cancel stops a run. A queued run is flagged and skipped when it reaches the front; a running one has its process tree killed."
* `exec_log`, `FullLogOnDisk` (code bug, src/server/internal/run/exec.go:139): cmd.Wait is called while the reader may still have lines to take out of the pipe of StdoutPipe; Wait closes the reading end as soon as the process has exited, so the last lines of a run reach neither the buffer nor run.log. src/server/internal/logbuf/logbuf.go:4-5 says "The full log always exists on disk; this is only the fast path."
* `exec_orphan`, `StopLeavesNoOrphans` (code bug, src/server/internal/run/exec.go:122): Nobody waits for the goroutine that runs KillTree: when node exits at SIGTERM before its browsers do, Execute and Stop return, main returns, and the SIGKILL that would have followed is never sent. src/server/cmd/pstad/main.go:130-131 says "Workers observe the cancelled context, kill their process trees, and record the outcome — so a stop does not leave orphaned browsers."
* `server_orphan`, `RecordedTreesDie` (code bug, src/server/internal/run/store.go:195): Recover looks for a process tree only where the state on disk is not terminal. A cancellation that found no cancelFn records "cancelled" over the running record with its PID (queue.go:149-154); after a crash Recover takes that record for finished and leaves the tree alive. src/server/cmd/pstad/main.go:78-79 says "adopt what is on disk and clean up any process tree a previous instance left behind."
* `log_from`, `NothingMissed` (code bug, src/server/internal/httpapi/handlers.go:545): tailFile numbers the lines of run.log from zero, but the buffer has also numbered lines that are not in the file, the command before them at least: after a restart a cursor that getLog itself gave out passes over a line the client was never given. src/server/internal/httpapi/handlers.go:408-409 says "`from` makes it resumable, so nothing is missed between polls", and 543-544 "numbering lines from zero so `from` keeps the same meaning as the memory path".

## 5. Proofs

Each proof is laid out as initial states, one lemma or step per action, one
temporal step. The theorems hold for all values of the constants that satisfy the
named assumptions: `QueueAssumption` (the three kinds of goroutine have different
names; the depth is positive, as `config.validate` demands), `ExecAssumption`,
`LogBufAssumption` (the capacities are positive, as `New` and `Subscribe` see to),
`LogTailAssumption` (the reader, the watcher and the worker are different goroutines
and the only ones that append; nothing subscribes),
`RunDirAssumption` (timeouts are integers, lists of inputs are finite, the library
is finite and older than any change to it), `UploadAssumption` (a schema is a list of
columns, an upload a list of rows of cells, and files have names) and
`OutputsAssumption` (a file under `output/` has a path). `PoolIsTheLimit` and
`LifeWithinTheLimit` assume in their statements that there are finitely many workers.

`QueueProofs`:

* `TypeCorrect`: `TypeOK`. The typing of an update of the store depends on what a
  program counter says of the rest of its goroutine, so it comes with `WorkerInv`
  (a worker that is not idle holds a run; a finishing one has an outcome),
  `TargetInv` and `KnownInv` (a run that was added stays in the store).
* `NeverTwice`: `OneHolder`. It is not inductive: that a run sent now is not
  already in the channel or at a worker holds because its handler has not sent it
  before. `SentInv` adds that a run in either place was sent by its handler.
* `Supervised`: `RunningIsSupervised`. `StateMoves` says which steps write which
  state; only `MarkRunning` writes `running`, and the worker that did holds the
  run until `Finish` writes a terminal state.
* `SettledForGood`: `SettledIsTerminal`. A late `CancelRecord` writes
  `cancelled`, which is terminal; a late `Refuse` would write too, but a
  refused run is never sent.
* `Reachable`: `ReachableWhileLive`, from `ReachInv` (the maps hold every run from
  its registration to its retirement), `ClosedInv` (a buffer that is closed is that of
  a run which a worker is about to let go of, or has) and `RefusedInv`. It needs `NeverTwice`:
  `Retire` by one worker must not take away the job of another. That the record is
  terminal by the time the buffer is closed is `SettledForGood`.
* `QueuedForAReason`: `QueuedIsPending`, a consequence of `SettledIsTerminal` and of
  `RejectedInv` (a refused run does not read `queued`).
* `RefusedForGood`: `RefusedNeverRuns`, from `RefusedInv` and `ProcInv` (only a run
  that was sent has a process).
* `RefinesDispatch`: `Send` is `Accept`, `Take` is `Begin`, `Retire` is `End`, `Stop`
  is `Shut`, every other step a stutter (`StepDispatches`). That a run is accepted
  once is `SentInv` again; that `Retire` adds exactly one run to `over` is
  `OneHolder`.

`QueueStoreProofs`:

* `TerminalOnDisk`: `SettledOnDisk`. Only handlers, cancellations and the worker write
  `meta.json` (`DiskMoves`). The copies a finished worker and a recorded cancellation have
  still to write are terminal (`CopyInv`); copies of live states are the worker's own,
  written before it finalises. So a write after the worker's last leaves a terminal
  record on disk (`WrittenStep`).
* `PoolIsTheLimit`: `WithinPool`, for a finite set of workers. A process that `Execute`
  started and waits for belongs to a run whose worker waits for it (`AliveInv`); no
  worker has two runs, so the map from processes to workers is one to one (`OneEach`).
  It says nothing of descendants that outlive the process (`exec.go:135`): the
  theorem is about what the pool admits, not about all that is left alive.
* `CallsOfExecute`: the join of the two models. For the worker `w`, `E(w)` is `Execution`
  with the process of its run, the contexts that can cancel it and what its call has
  returned; from `Take` to `Retire` each step of `Queue` is one of `E(w)` or a stutter.
  `FreshInv` (a run that waits, or is not launched yet, has had no process and no
  outcome) says that a call begins in `Init` of `Execution` and launches once,
  `WaitsInv` that a process under supervision ends by `ExecuteReturns` and in no
  other way. With `RefinesExecution` of `ExecProofs`, `Exec` can stand where `Queue` has
  its outside view.
* `CancelledInTimeIsFinal` (`TimelyCancelIsFinal`): a flag that is set while the run waits is found by
  `CheckFlag` (`DoomedStep`); the run is passed to `finish` without a process
  (`SkipStep`), and what is written over it afterwards is again `cancelled`
  (`CalledOffStep`). A flag that comes later promises nothing of the kind, as
  `queue_accepted` shows.

`ServerProofs`, from an inductive invariant in two halves, `ServerInv` for what a restart
keeps and `KeepInv` for what `Queue` keeps through restarts. `ServerInv`
separates the runs of an earlier life from those of this one. An earlier run is at no worker, in no channel and under no
cancellation (`PastInv`, `CancelInv`: a cancellation had to find it live), so nothing
but `Recover` writes its record again; the runs of this life keep the invariants of
`Queue`, by the step lemmas of `QueueProofs` and `QueueStoreProofs`, and a crash moves them
from one kind to the other.

* `OrphansEnd` (`OrphansAreSettled`), from `AdoptedInv`: `Recover` has made terminal what it
  has been through.
* `FinishedStays` (`FinishedIsNotOrphaned`), from `WrittenInv` and `KeptInv`: what a worker
  had finalised was terminal on disk when the crash came, so `Recover` adopts it.
* `KilledBeforeGivenUp` (`GivenUpTreesAreDead`), from `ScanInv` and `CleanInv`: only a swept
  directory is marked, and no run of this life carries the mark.
* `ServerTypeCorrect`.

`KeepInv` carries the invariants of `Queue` across `Crash`, `Sweep`, `Adopt` and `Boot`
(`CrashKeeps`, `SweepKeeps`, `AdoptKeeps`, `BootKeeps`). Some hold of the runs of all lives,
others only of those of this one (`LifeKnown`, `LifeAlive`), and some only while the
daemon is up (`SettledInv`), because between a crash and its `Adopt` a run is not in
memory. What makes them survive is that a submission that was answered, with 500
excepted, is on disk before anything else happens to it (`StoredInv`), that `Adopt` reads
each back and makes it terminal (`TakenInv`), and that the PID in any copy is that of
a process there was (`PidInv`, `PendInv`).

* `NeverTwiceInALife`, `SupervisedThroughCrashes`, `ReachableThroughCrashes`,
  `RefusedThroughCrashes`: `OneHolder`, `RunningIsSupervised`, `ReachableWhileLive` and
  `RefusedNeverRuns` in every state of `Server`. `QueuedThroughCrashes`: `QueuedIsPending`
  while the daemon is up.
* `LaunchedOnce`: the process of a run is started at most once in all lives together, by
  `FreshInv`: what can be launched has had no process, and `Recover` queues nothing.
* `AcceptedIsNotLost`: a run answered 202 waits, is at a worker, or is terminal, whenever
  the daemon is up. This is the safety half of `AckedRunsEnd`.
* `HistoryIsKept`: a terminal `meta.json` of an earlier life is not written again.
* `LifeWithinTheLimit`: the bound of the pool holds for the processes that this life's
  calls of `Execute` started and wait for, by `LifeAlive` and `OneEach`. Their descendants are
  not counted, nor the trees of earlier lives, which `RecordedTreesDie` is about.
* `PidsAreOfProcesses`: what `Recover` kills was launched. Reuse of process ids is not
  modelled.
* `DispatchInEveryLife`: a life begins in the initial state of the bounded FIFO (`EmptyInv`:
  nothing is queued or held in a recovery) and its steps are those of `Dispatch`.
* `CallsInEveryLife`: `CallsOfExecute` for the workers of every life.

`ExecProofs`, from one invariant in three parts: `Phases` (how far each goroutine
and the leader can be when `Execute` is at a point), `Verdicts` (what the channel
`killed` and the outcome say of the context) and `Logged` (what the reader owes to
`run.log`):

* `TypeCorrect`; `KillsAreReported`; `CausesAreRight`, which is where the order
  "outcome before the deferred `cancel()`" matters; `LogIsFlushed`.
* `RefinesExecution`: every step of `Exec` is a step of `Execution` or a stutter.

`LogBufProofs`, from `IInv`: the ring is contiguous, a line being sent has been
numbered (`Numbered`), and what the client was given is behind its cursor and the
buffer's end (`Behind`):

* `RingIsContiguous`, by the lemma `RingProperties` on the shift at capacity.
* `AnswersAreNew` and `AnswersAreComplete`: what `Since` chooses is a prefix of
  what is wanted (`ChosenIsPrefix`), and the next number is the end of it
  (`NextFromProperties`); the step is `AnswerProperties`.
* `OpenSubscribers`.
* `SubscribersHearInOrder`: `SentInOrder`. The strengthening `NewerToCome` says
  that a line an appender has still to send is newer than all of its own in the
  channel.
* `TypeCorrect`.

`LogTailProofs`, from `TailInv`, on top of the lemmas of `LogBufProofs` about one step of
the buffer. `BufferMoves` and `OutMoves` say which steps touch the buffer and which
the output of the run (`Out`, the file and what waits to be written to it), and
`PhaseInv` what follows from where the run is:

* `LagsBehind` (`FileLagsBehind`): each line of the child is one place of the file and at
  least one number of the buffer (`OutInv`), so its number in the file is never the
  greater one. That it is the smaller one in fact, because the command is numbered too, is
  the disagreement that `log_from` shows, and nothing is proved from it.
* `AnswersStayNew` (`NothingRepeated`): while the daemon is up it is the invariant of
  `LogBuf`; at the restart `FileLagsBehind` turns "before the cursor in the buffer" into
  "not after the cursor in the file" (`AnswerInv`), which `FileAnswerIsNew` keeps.
* `AnswersLeaveNothing` (`NoneSkipped`): from `AnswerProperties` and `FileAnswer`.
* `FinishedOnDisk` (`FinishedIsOnDisk`): every retained line is the daemon's own, in the
  output, or the one the reader is appending (`LinesInv`), and a finished run has
  neither a reader nor lines that wait.
* `StopsWithAll` (`StoppedHasAll`): an answer that is not cut short ends where the buffer
  does, because in a ring without gaps the count of wanted lines is a count of
  positions (`WholeAnswer`).
* `TailTypeCorrect`.

`UploadProofs` is about an algorithm, the loop of `findHeaderRow`. It is a recursive
function over the rows, and the induction theorems of the library cannot be used;
the induction is a least counterexample instead (`Least`, from `WFMin`). `BestAfter`
gives outright what the loop should have after `i` rows, the first row with the
highest score; it satisfies the equation of the loop (`LoopEquation`), and two
functions that do are equal (`LoopIsUnique`), so `Scan` is `BestAfter` (`ScanIs`).

* `HeaderIsFirstFull`: a header that has every wanted column is reported exactly when a row
  in reach has them all, and then it is the first such row. That the early exit,
  ties and repeated columns change nothing follows.

`RunDirProofs`, from two invariants that no action relates. `DirInv` is about the run:
a request that has got a directory was admissible under a manifest that loads
(`Progress`); the loop over the inputs leaves those it has passed where the run
looks for them, which later inputs do not disturb because `index` lets no two have
one variable (`Files`, `Advance`, `OtherInput`); the artifacts of a record are those
under `output/`, or have no path (`Artifacts`). `LibraryInv` is about the library and
the client's copy of its list: all that is on offer and not newer than the ETag is
in the copy or came late (`Kept`).

* `TypeIsCorrect`; `Undone` (`LeavesNothing`); `InputsArrive` (`InputsReachTheRun`);
  `ManifestIsEnough` (`ManifestSuffices`), from `BoundedTimeout` and
  `PlaywrightIsFirst`; `DownloadsHold` (`DownloadsAreOwn`).
* `FreshList` (`FreshIfNotModified`): of two lists with the same newest time the
  current one is in the copy but for what came late, and if nothing did the same count
  makes them equal. Nothing is assumed of the times of files.
* `VerdictHolds` (`VerdictIsRight`): what `validateCSV` accepts is what fits, for any sheet
  and any library, from `HeaderIsFirstFull` and, for the attachments, `LastColumn`: of
  columns with one name the last is looked at (`SameReferences`).

Only model-checked: liveness (`EveryJobSettles`, `StopReturns`, `ExecuteReturns`, `TreeDies`,
`AppendNeverStalls`, `AckedRunsEnd`, `FollowerStops`, `FollowerCatchesUp`), which is
outside what TLAPS can do. Of `AckedRunsEnd` the safety half is proved,
`AcceptedIsNotLost`; that the end comes is left to TLC. Every other property of a passing
run is a theorem.

## 6. Not modelled

* Reads that no property is about (`getRun`, `listRuns`, `health`, `getReference`):
  each looks at the store once and changes nothing. `QueuePosition` is one of them.
* Configuration: environment parsing and range checks at boot. Its limits appear
  as the assumptions of the modules (`QueueAssumption`).
* The summary of a Playwright report (`readSummary`): parsing of one file.
* Escapes from the run directory in `Resolve`: an artifact's path comes from
  `RelTo` of a file that was found in it, so the check never fires.
* The page in `public/index.html`; its requests are those of the other clients.
* Bearer auth, CORS and the request timeout wrappers: stateless, except that a
  panic in a handler is answered 500 (`SendPanics`).
* Errors of the writes to `run.log`, which the code ignores; the text of lines. So the
  empty lines at the end of the file, which `tailFile` trims (`handlers.go:550`) and the
  buffer numbers, are not told apart from others.
* The descendants of a process after `Execute` has returned, outside `Exec`.
* Reuse of process ids: neither `KillTree` nor `Recover` defends against it, and
  every use of a recorded PID would be wrong under it.
* The Windows build of `KillTree`; the model has the Linux one.
* What the pages show; deployment scripts, CI and the browser tests.

Sentences of the repository that the models contradict, without a run of their
own: `Terminal` "reports whether no further transition is possible"
(`run.go:24`), but `MarkRunning` and a late `CancelRecord` overwrite terminal
states; `ErrNotFound` "is returned when cancelling an unknown run"
(`queue.go:17`), but a known run can be answered so between `Store.Add` and
`Submit`, and after `finish`; the 202 response of a submission shows
`"state":"queued"` (`src/server/README.md:69`), but encodes the live record after
the job was sent; the count of browsers "Should be `0` whenever no run is active"
(`src/server/README.md:145`), but descendants that outlive a leader that exits by
itself are never killed (`exec.go:135`); the store "mirrors each to <runDir>/meta.json"
(`store.go:14`), but two updates can be written in the opposite order
(`store.go:78`), and `meta.json` then stays behind memory until the next update; a
buffer is "Safe for concurrent use" (`logbuf.go:30`), but `Append` sends to copied
subscribers after the unlock and panics if one has been closed by then
(`SendPanics`; nothing subscribes yet); "a
restart does not lose the history" (`store.go:14`), but the paths of artifacts are not
in `meta.json`, so they are listed and cannot be downloaded (`DownloadsAreOwn` allows
this and would also hold if it were repaired); "Playwright must give up before the
wall clock does" (`exec.go:193`), but for a clock of 30 s or less it gets no less than
the clock (`ManifestSuffices` says nothing of that case); the ETag lets a client
revalidate its list of receipts, but two lists can share it if a file comes with an old time
(`receipts.go:69-78`).

## 7. Plan

1. Queue, store and the handlers that drive them, with safety proofs (done).
2. `Exec`: the goroutines of `Execute`, the process group, the pipe and `KillTree`,
   with safety and refinement proofs (done).
3. `LogBuf`: ring, subscribers, close, a poller, with proofs (done).
4. `Server`: `Queue` with a crash at any step, `Recover` record by record, and a
   second life of the daemon (done, with proofs).
5. `LogTail`: `getLog` over buffer and file with a client that stops at a terminal
   state (done).
6. `Receipts`, `Catalog`, `Upload`, `RunDir`: what surrounds the queue, from the
   request to the downloads (done).
7. `RunDirProofs` and `UploadProofs`: all of `RunDir`, the loop of `findHeaderRow`
   included (done).
8. `QueueStoreProofs`: what outlives the queue; that its workers use `Execute` as `Exec`
   implements it; cancellations of runs that wait (done).
9. `ServerProofs`: recovery, and the safety of `Queue` in every life of the daemon (done).
10. `LogTailProofs`: the safety properties of `LogTail` (done).
11. Left: the hazards without a property stay as they are listed, since each is a
    consequence of what the code does not do; liveness stays with TLC.
