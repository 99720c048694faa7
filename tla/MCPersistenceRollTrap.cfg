SPECIFICATION Spec
CONSTANTS
  Poison = {}
  MaxAction = 3
  MaxTick = 4
  MaxSegment = 2
  MaxTabCrash = 1
  MaxOsCrash = 0
  MaxExit = 0
  MaxSnapshotTrap = 1
  MaxCorrupt = 0
  SnapshotEvery = 2
  SyncEvery = 1
  RollAt = 3
  RecoveryLimit = 1
  GoodTicksReset = 2
  MaxSkipIterations = 3
  CreateSettled = TRUE
  WritesLag = FALSE
  SnapshotOutrunsLog = TRUE
INVARIANT
  NoLoggedActionLost
CHECK_DEADLOCK FALSE
