SPECIFICATION FairSpec
CONSTANTS
  Reader = reader
  None = none
  Dialers = {d1}
  Senders = {s1, s2}
  Closers = {c1}
  Conns = {x1, x2}
  Limits <- LimitedOrNot
  BaseDelay = 1
  MaxDelay = 1
  Bits = 8
  MaxCount = 1
INVARIANTS
  TypeOK
  FramesOfOneConn
PROPERTIES
  CloseEndsReader
  Reconnects
  SendReturns
  ImplementsLink
CHECK_DEADLOCK FALSE
