SPECIFICATION Spec
CONSTANTS
  Page = {p1}
  FirstPage = p1
  MaxConn = 2
  MaxSeq = 2
  OUTBOX_CAPACITY = 2
  RECOVERY_LOOP_LIMIT = 2
  Shapes = {"server"}
  WorkerKinds = {"plain"}
  MaxFaults = 1
INVARIANT EveryActionAnswered
CHECK_DEADLOCK FALSE
