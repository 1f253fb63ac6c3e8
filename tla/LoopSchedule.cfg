SPECIFICATION Spec
CONSTANTS
  N = 3
  DependsOn <- MixedDeps
  Ext = {}
  Needs <- NoNeeds3
  Conflicts <- MixedConflicts
  Budget = 2
  Limit = 1
  MaxCycles = 2
  Outcomes = {"ready_to_deploy", "abandoned", "blocked_recoverable", "failed", "requeue", "capacity_wait"}
  Remotes = {"none"}
  MaxCrashes = 1
  MaxMoves = 1
INVARIANTS
  TypeOK
  IndependentUnlessBypassed
PROPERTY StopFreezes
