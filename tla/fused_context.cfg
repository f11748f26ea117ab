SPECIFICATION AssemblySpec
CONSTANTS
  Stored = 4
  Sizes = {1, 3}
  Separator = 1
  Budget = 6
  TopK = 2
  CoarseK = 3
  MinContext = 2
  MaxFound = 2
INVARIANTS
  FusedWithinBudget
CHECK_DEADLOCK FALSE
