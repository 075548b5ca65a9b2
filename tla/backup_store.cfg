SPECIFICATION FairSpec
CONSTANTS
  MaxBackups = 4
  MaxCommits = 1
  Slots = 3
  MaxSqueezes = 1
  MaxFaults = 1
  MaxDrills = 1
  MaxRestores = 1
INVARIANT ReplacedBeforeRemoved
INVARIANT LastCommitIsKept
INVARIANT NoHalfBackups
PROPERTY CleanMeansBackedUp
PROPERTY RecoveryPointAppears
CHECK_DEADLOCK FALSE
