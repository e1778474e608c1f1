SPECIFICATION Spec
CONSTANTS
  Fuel = 1
  LongFuel = 16
  UnrollFactor = 4
  Full = {}
  Vars = {"x", "y"}
  Top = Top
  Bottom = Bottom
  Blank = Blank
  StepLimit = 1000
  CleanupRounds = 2
  Families = {"operations", "terms", "comparisons", "conversions", "decisions", "choices", "branches", "loops", "nested", "loops in loops", "counted", "shortcuts", "repeated"}
  Sources <- MCSources
INVARIANTS
  DrainExact
  FactsHold
  PassesExact
  GraphStaysWhole
  ValuesReach
CHECK_DEADLOCK FALSE
