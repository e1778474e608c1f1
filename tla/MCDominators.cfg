CONSTANTS
  N = 4
  Blocks <- MCBlocks
  Start = 1
  NoNode = NoNode
  Unset = Unset
  Graphs <- MCGraphs
SPECIFICATION Spec
INVARIANTS IdomExact LoopsExact
PROPERTIES Terminates
CHECK_DEADLOCK FALSE
