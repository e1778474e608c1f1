SPECIFICATION Spec
CONSTANTS
  Instances <- Calls
  NoAnswer = NoAnswer
  Inf = 1000000
  MaxSegs = 3
  MaxCap = 2
  MaxSpans = 3
  Weights = {2, 3}
INVARIANTS
PROPERTIES
  Optimal
  Answers
