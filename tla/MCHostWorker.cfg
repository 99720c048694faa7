\* The page hides, shows and hides again around an export, a rename and a trap.
SPECIFICATION Spec
CONSTANTS
  MaxFlip = 3
  MaxExport = 1
  MaxPush = 1
  MaxTrap = 1
  MaxRename = 1
INVARIANTS
  ParkedMeansReachable
  JobNeverStarved
  PausedWorldIsStill
PROPERTIES
  UplinkDrained
  PauseOfRunningEnds
CHECK_DEADLOCK FALSE
