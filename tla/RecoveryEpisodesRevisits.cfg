SPECIFICATION Spec
CONSTANTS
  Recipes <- NarrowOnly
  Repair = "repair"
  Bound = 1
  RepeatLimit = 1
  MaxHead = 2
  Prints = {p1, p2}
  NeverStarted = {}
  None = None
  MaxCrashes = 1
  Backoff = TRUE
  MaxRevisits = 1
SYMMETRY PrintSymmetry
INVARIANTS StrategyBound StrayedNotRecovered
\* The item may be done, or its issue closed.
CHECK_DEADLOCK FALSE
