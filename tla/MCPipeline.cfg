SPECIFICATION Spec
CONSTANT Options <- Everyday
INVARIANTS
  GatesHoldEverywhere
  NoSeveredAnalysis
  LoweringSeesFreshTree
  FailureReported
PROPERTY Terminates
