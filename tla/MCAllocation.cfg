SPECIFICATION AllocSpec
CONSTANTS
  Programs <- Functions
  Bank <- TwoRegisters
  Never = Never
  NoReg = NoReg
  MaxRounds = 6
  Shapes = {"while", "rotated", "diamond", "nested", "skip"}
INVARIANTS
  DataflowExact
  RangesExact
  ContractKept
  ReadsKept
