SPECIFICATION Spec
CONSTANTS
  Recipes <- NarrowThenRepair
  Repair = "repair"
  Bound = 1
  RepeatLimit = 1
  MaxHead = 2
  Prints = {p1, p2}
  NeverStarted = {p2}
  None = None
  MaxCrashes = 1
  Backoff = TRUE
  MaxRevisits = 0
PROPERTY BlockResolves
\* The item may be done, or its issue closed.
CHECK_DEADLOCK FALSE
