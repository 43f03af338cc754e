SPECIFICATION FairSpec
CONSTANTS
  None = none
  Nodes = {n1, n2}
  MaxStarts = 2
INVARIANTS
  TypeOK
  CacheTracksStore
  Registered
PROPERTIES
  DeadForgotten
CHECK_DEADLOCK FALSE
