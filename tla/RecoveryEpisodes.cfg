SPECIFICATION Spec
CONSTANTS
  Recipes <- NarrowThenRepair
  Repair = "repair"
  Bound = 2
  RepeatLimit = 1
  MaxHead = 2
  Prints = {p1, p2}
  NeverStarted = {}
  None = None
  MaxCrashes = 1
  Backoff = FALSE
  MaxRevisits = 0
SYMMETRY PrintSymmetry
INVARIANTS TypeOK ClaimDurable StrategyBound OneOutstandingClaim StartedClaimCompletable ProductionOrder
PROPERTY HistoryGrows
\* The item may be done, or its issue closed.
CHECK_DEADLOCK FALSE
