SPECIFICATION Spec
CONSTANTS
  None = none
  Requesters = {r1, r2}
  Pushes = {p1}
  Ids = {i1, i2}
  Bufs = {b1}
  MaxCalls <- MCMaxCalls
SYMMETRY Symmetry
INVARIANTS
  TypeOK
  RecNeverBlocks
  RightAnswer
  BufferOwnedOnce
CHECK_DEADLOCK FALSE
