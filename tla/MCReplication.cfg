\* Two chunks and an entity across both; one collapse, one overflow, and one lost connection, restart or recovery.
SPECIFICATION Spec
CONSTANTS
  Chunks = {1, 2}
  Small = {}
  Wide = {1}
  MaxChange = 2
  MaxLook = 1
  MaxBreak = 1
  MaxCollapse = 1
  MaxOverflow = 1
  MaxFlight = 1
INVARIANTS
  TypeOK
  SureMatches
  HostNeverAhead
PROPERTY
  ViewHeals
CHECK_DEADLOCK FALSE
