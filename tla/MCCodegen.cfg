SPECIFICATION Spec
CONSTANTS
  Half = 4
  ArgRegs <- MCArgRegs
  CalleeRegs <- MCCalleeRegs
  Functions <- MCFunctions
  Inputs <- MCInputs
  Families = {"sound"}
INVARIANTS SelectionExact AllocationExact PeepholesExact LayoutExact
