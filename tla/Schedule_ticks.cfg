SPECIFICATION Spec
CONSTANTS
  None = none
  Tasks <- MCTasks
  Horizon = 4
  MaxRuns = 3
INVARIANTS
  TypeOK
  OneShotIfSteady
  Spaced
  NotEarly
