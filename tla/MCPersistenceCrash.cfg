SPECIFICATION Spec
CONSTANTS
  Poison = {1, 3}
  MaxAction = 3
  MaxTick = 3
  MaxSegment = 0
  MaxTabCrash = 0
  MaxOsCrash = 2
  MaxExit = 0
  MaxSnapshotTrap = 1
  MaxCorrupt = 1
  SnapshotEvery = 2
  SyncEvery = 2
  RollAt = 3
  RecoveryLimit = 1
  GoodTicksReset = 2
  MaxSkipIterations = 2
  CreateSettled = TRUE
  WritesLag = TRUE
  SnapshotOutrunsLog = FALSE
INVARIANT
  CrashConsistent
CHECK_DEADLOCK FALSE
