SPECIFICATION Spec
CONSTANTS
  N = 3
  DependsOn <- ChainDeps
  Ext = {}
  Needs <- NoNeeds3
  Conflicts = {}
  Budget = 1
  Limit = 2
  MaxCycles = 2
  Outcomes = {"ready_to_deploy", "blocked_needs_human"}
  Remotes = {"none"}
  MaxCrashes = 0
  MaxMoves = 0
INVARIANT DeadlockGenuine
