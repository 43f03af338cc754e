SPECIFICATION Spec
CONSTANTS
  None = none
  Requesters = {r1}
  Pushes = {}
  Ids = {i1}
  Bufs = {b1}
  MaxCalls <- MCMaxCalls
SYMMETRY Symmetry
INVARIANTS
  UsedBeforeReturned
CHECK_DEADLOCK FALSE
