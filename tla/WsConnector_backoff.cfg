SPECIFICATION Spec
CONSTANTS
  Reader = reader
  None = none
  Dialers = {d1}
  Senders = {}
  Closers = {}
  Conns = {x1}
  Limits <- Unlimited
  BaseDelay = 2
  MaxDelay = 50
  Bits = 8
  MaxCount = 9
INVARIANTS
  PauseAtLeastBase
CHECK_DEADLOCK FALSE
