CONSTANTS
  Programs <- MCPrograms
SPECIFICATION Spec
INVARIANT NoSwapCycles
CHECK_DEADLOCK FALSE
