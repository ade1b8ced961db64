\* An accepted cancellation is lost: one run, one worker, one cancel request.
CONSTANTS
  Runs = {r1}
  Workers = {w1}
  Cancels = {c1}
  Actors = {r1, w1, c1}
  Depth = 1
  DiskMayFail = FALSE
  NoRun = none
SPECIFICATION FairSpec
INVARIANTS
  AcceptedCancelStops
