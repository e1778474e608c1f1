CONSTANTS
  Programs <- MCPrograms
SPECIFICATION Spec
INVARIANTS PromotionExact SlotsPromoted
CHECK_DEADLOCK FALSE
