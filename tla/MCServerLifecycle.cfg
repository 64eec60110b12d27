SPECIFICATION FairSpec
CONSTANTS
  Conns = {c1, c2, c3}
  Tls = TRUE
INVARIANTS
  ShutdownReachesConnections
PROPERTIES
  ShutdownReturns
  RunForeverReturns
CHECK_DEADLOCK FALSE
