SPECIFICATION Spec
CONSTANTS
  Problems <- AllProblems
  NoReg = NoReg
  MaxRounds = 6
  MaxPos = 4
  Label = 2
INVARIANTS
  TypeOK
  NoClobber
  CrossingSafe
  SelectionFits
  DemotionOnlyByIntruder
  CoalescedToFixpoint

