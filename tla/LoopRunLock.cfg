SPECIFICATION Spec
CONSTANTS
  Proc = {p1, p2, p3}
  MaxTokens = 3
  MaxCrashes = 2
INVARIANTS TypeOK HolderUnlessDisplaced
PROPERTY StaleLockRecovered
\* No process can attach while a live one holds the lock, or to an empty file.
CHECK_DEADLOCK FALSE
