SPECIFICATION FairSpec
CONSTANTS
  Page = {p1, p2}
  FirstPage = p1
  MaxConn = 2
  MaxSeq = 3
  OUTBOX_CAPACITY = 2
  RECOVERY_LOOP_LIMIT = 2
  Shapes = {"worker", "server"}
  WorkerKinds = {"limited", "admitTrap", "applyTrap"}
  MaxFaults = 1
INVARIANTS
  AppliedOnceInOrder
  
  ConfirmedLeavesPending
PROPERTIES
  PendingDrains
  ImplementsAtMostOnce
CHECK_DEADLOCK FALSE
