SPECIFICATION Spec
CONSTANTS
  Socks = {1, 2}
  Secrets = {p, q}
  Conns = {0, 1}
  MaxPlayers = 1
  Lingers = TRUE
  MaxHellos = 3
  Troubles = {"saveFails", "hashFails", "late", "recovers", "restarts"}
  MaxTroubles = 2
INVARIANTS
  TypeOK
  OneIdentity
  SeatsAgreeUntilRecovery
  RosterExact
CHECK_DEADLOCK FALSE
PROPERTY HelloAnswered
