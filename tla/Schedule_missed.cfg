SPECIFICATION Spec
CONSTANTS
  None = none
  Tasks <- MCOneShot
  Horizon = 6
  MaxRuns = 3
INVARIANTS
  OneShotOnce
