\* The reader loses what the leader wrote last.
CONSTANTS
  Kids = {k1}
  MaxLines = 1
  LongLines = FALSE
  KillRefused = FALSE
SPECIFICATION FairSpec
INVARIANTS
  FullLogOnDisk
