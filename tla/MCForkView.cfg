SPECIFICATION ViewSpec
CONSTANTS
  Difficulties = {1, 3}
  MaxHeight = 3
  MaxSwitches = 2
  MaxBatch = 2
  MaxFaults = 0
INVARIANT
  ForkViewIsCurrent
