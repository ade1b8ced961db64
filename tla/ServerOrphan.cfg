\* A cancellation is recorded over a running record, then the daemon crashes.
CONSTANTS
  Runs = {r1}
  Workers = {w1}
  Cancels = {c1}
  Actors = {r1, w1, c1}
  Depth = 1
  DiskMayFail = FALSE
  NoRun = none
  MaxCrashes = 1
  RecoveryMayFail = FALSE
SPECIFICATION FairServerSpec
INVARIANTS
  RecordedTreesDie
