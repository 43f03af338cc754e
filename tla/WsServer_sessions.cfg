SPECIFICATION FairSpec
CONSTANTS
  Main = main
  None = none
  Conns = {c1}
  Apps = {a1, a2}
  IdleTimed = TRUE
  AcceptPanics = TRUE
INVARIANTS
  TypeOK
  ExitNotifies
PROPERTIES
  ImplementsSessions
  DeadConnCleaned
CHECK_DEADLOCK FALSE
