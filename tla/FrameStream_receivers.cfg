SPECIFICATION Spec
CONSTANTS
  Base = 4
  LenSize = 2
  HeadSize = 1
  MaxBody = 3
  MaxStream = 6
  MaxSent = 3
  Streams <- MCStreams
  Sendings <- MCSendings
INVARIANTS
  InStep
  Faithful
CHECK_DEADLOCK FALSE
