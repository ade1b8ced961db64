\* One run, a cancellation, and a daemon that goes down twice, in a recovery if it likes.
CONSTANTS
  Runs = {r1}
  Workers = {w1}
  Cancels = {c1}
  Actors = {r1, w1, c1}
  Depth = 1
  DiskMayFail = FALSE
  NoRun = none
  MaxCrashes = 2
  RecoveryMayFail = TRUE
SPECIFICATION FairServerSpec
INVARIANTS
  OrphansAreSettled
  FinishedIsNotOrphaned
  GivenUpTreesAreDead
PROPERTIES
  AckedRunsEnd
