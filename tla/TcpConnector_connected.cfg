SPECIFICATION FairSpec
CONSTANTS
  Reader = reader
  None = none
  Dialers = {d1}
  Senders = {s1, s2}
  Closers = {c1}
  Conns = {x1, x2}
  ReadTimed = TRUE
  WriteTimed = TRUE
  Redial = FALSE
INVARIANTS
  TypeOK
  FlagsSound
  ClosedNeverCurrent
  NoOrphan
PROPERTIES
  StaleFailureHarmless
  TornIsShort
  CloseEndsReader
  Reconnects
  SendReturns
  ImplementsLink
CHECK_DEADLOCK FALSE
