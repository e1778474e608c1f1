SPECIFICATION BorrowSpec
CONSTANTS
  Names <- Variables
  Lent <- Parameters
  Functions <- Declared
  Shapes <- Samples
  Menus <- Statements
  Turns = 2
  Kinds = {"line", "branch", "loop", "exits", "defers"}
INVARIANTS
  SafeWhenExact
  ExclusiveWhenExact
  LentComesBack
  RoundsSuffice
CHECK_DEADLOCK FALSE
