\* The daemon exits before KillTree has finished.
CONSTANTS
  Kids = {k1}
  MaxLines = 1
  LongLines = FALSE
  KillRefused = FALSE
SPECIFICATION FairSpec
INVARIANTS
  StopLeavesNoOrphans
