SPECIFICATION Spec
CONSTANTS
  Base = 4
  LenSize = 2
  HeadSize = 1
  MaxBody = 3
  MaxStream = 0
  MaxSent = 2
  Streams <- MCStreams
  Sendings <- MCSendings
INVARIANTS
  ReadsWholeFrames
CHECK_DEADLOCK FALSE
