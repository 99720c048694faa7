SPECIFICATION Spec
CONSTANTS
  Poison = {2}
  MaxAction = 3
  MaxTick = 4
  MaxSegment = 2
  MaxTabCrash = 2
  MaxOsCrash = 0
  MaxExit = 1
  MaxSnapshotTrap = 0
  MaxCorrupt = 0
  SnapshotEvery = 2
  SyncEvery = 1
  RollAt = 3
  RecoveryLimit = 1
  GoodTicksReset = 2
  MaxSkipIterations = 3
  CreateSettled = TRUE
  WritesLag = FALSE
  SnapshotOutrunsLog = TRUE
INVARIANTS
  TypeOK
  
  EpochNeverReused
  BaseSnapshotsKept
 
CHECK_DEADLOCK FALSE
