CONSTANTS
  Plain = {"a", "b", "c"}
  Scoped = {"@s", "@t"}
  Processes <- MCProcesses
  BatchSize = 2
  Attempts = 2
  Timeout = 1
  BackoffCap = 2
  Budget = 3
SPECIFICATION Spec
INVARIANTS
  DeadApiNeverZero
  CostBounded
  EveryNameAccounted
