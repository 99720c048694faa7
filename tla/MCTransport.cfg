SPECIFICATION Spec
CONSTANTS
  Spacing = 2
  Credit = 2
  MaxLines = 4
  MaxItems = 7
  CutPasses = 4
  CountMax = 2
  Wrap = 2
  Kinds = {1, 2}
  MaxLen = 6
  Layouts = {"loop", "uneven", "sideLoop", "mergeLoop", "forkLoop", "pair", "slowPair"}
  Patience = 8
  MaxPuts = 3
  MaxEdits = 0
CHECK_DEADLOCK FALSE
INVARIANTS
  RestoredTicksAlike
  ChangedIsTrue
  PairServed
PROPERTY ImplementsBelt
