\* A three-slot ring over a few laps: messages of one to three slots, either
\* end dying once or twice.
CONSTANTS
  Slots = 3
  HalfRange = 8
  MaxClaims = 7
  MaxRespawn = 2
SPECIFICATION Spec
INVARIANTS
  NoSlotShared
  DeliveredWholeInOrder
PROPERTIES
  ImplementsFifo
  EveryMessageArrives
CHECK_DEADLOCK FALSE
