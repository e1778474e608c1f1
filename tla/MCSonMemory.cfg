CONSTANTS
  Programs <- MCPrograms
  MaxDepth = 3
  MaxRounds = 3
  MaxSweeps = 1
SPECIFICATION Spec
INVARIANTS ResultsKept GraphIntact
CHECK_DEADLOCK FALSE
