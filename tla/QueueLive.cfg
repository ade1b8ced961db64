\* Two clients, one worker, a backlog of one; writes may fail.
CONSTANTS
  Runs = {r1, r2}
  Workers = {w1}
  Cancels = {}
  Actors = {r1, r2, w1}
  Depth = 1
  DiskMayFail = TRUE
  NoRun = none
SPECIFICATION FairSpec
INVARIANTS
  WithinPool
PROPERTIES
  EveryJobSettles
  StopReturns
