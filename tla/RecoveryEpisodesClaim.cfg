SPECIFICATION Spec
CONSTANTS
  Recipes <- NarrowOnly
  Repair = "repair"
  Bound = 2
  RepeatLimit = 1
  MaxHead = 2
  Prints = {p1}
  NeverStarted = {}
  None = None
  MaxCrashes = 0
  Backoff = TRUE
  MaxRevisits = 1
INVARIANT ClaimDurable
\* The item may be done, or its issue closed.
CHECK_DEADLOCK FALSE
