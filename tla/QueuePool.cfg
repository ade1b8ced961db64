\* Two clients, two workers, a backlog of one, one cancel request.
CONSTANTS
  Runs = {r1, r2}
  Workers = {w1, w2}
  Cancels = {c1}
  Actors = {r1, r2, w1, w2, c1}
  Depth = 1
  DiskMayFail = FALSE
  NoRun = none
SPECIFICATION Spec
SYMMETRY Symmetry
INVARIANTS
  TypeOK
  OneHolder
  QueuedIsPending
  RefusedNeverRuns
  RunningIsSupervised
  SettledIsTerminal
  ReachableWhileLive
PROPERTIES
  ImplementsDispatch
  TimelyCancelIsFinal
