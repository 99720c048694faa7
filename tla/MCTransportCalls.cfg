SPECIFICATION Spec
CONSTANTS
  Spacing = 2
  Credit = 2
  MaxLines = 4
  MaxItems = 3
  CutPasses = 4
  CountMax = 2
  Wrap = 2
  Kinds = {1}
  MaxLen = 7
  Layouts = {"chain", "pair"}
  Patience = 8
  MaxPuts = 2
  MaxEdits = 1
CHECK_DEADLOCK FALSE
INVARIANTS
  StoreSound
  AlwaysDecodes
PROPERTY ImplementsBelt
