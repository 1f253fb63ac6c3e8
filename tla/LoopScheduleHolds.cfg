SPECIFICATION Spec
CONSTANTS
  N = 3
  DependsOn <- CrossedDeps
  Ext = {"e"}
  Needs <- CrossedNeeds
  Conflicts = {}
  Budget = 1
  Limit = 2
  MaxCycles = 2
  Outcomes = {"ready_to_deploy", "blocked_needs_human"}
  Remotes = {"none"}
  MaxCrashes = 0
  MaxMoves = 2
INVARIANTS SkipsClosed SkipsExact
PROPERTY ClearedHoldRejoins
