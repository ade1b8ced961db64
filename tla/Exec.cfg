\* Two descendants, two lines that may be too long, and kill(2) may fail.
CONSTANTS
  Kids = {k1, k2}
  MaxLines = 2
  LongLines = TRUE
  KillRefused = TRUE
SPECIFICATION FairSpec
INVARIANTS
  KilledIsReported
  ReportedAsAsked
  ReadIsOnDisk
PROPERTIES
  ImplementsExecution
  ExecuteReturns
  TreeDies
