SPECIFICATION FairSpec
CONSTANTS
  Acceptor = acceptor
  Exit = exit
  Conns = {c1}
  Apps = {a1, a2}
  IdleTimed = TRUE
  AcceptPanics = TRUE
INVARIANTS
  TypeOK
  CleanedUp
  ExitReachesAll
PROPERTIES
  ImplementsSessions
  DeadConnCleaned
  ExitEndsAll
CHECK_DEADLOCK FALSE
