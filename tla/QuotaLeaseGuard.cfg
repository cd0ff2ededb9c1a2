SPECIFICATION Spec
CONSTANTS
  Edges = {e1}
  Slots = {s1, s2}
  Limit = 2
  EdgeLimit = 1
  Window = 1
  Targets = {2}
  Costs = {1}
  RetryFloor = 1
  MaxTime = 0
  MaxReturns = 0
  Backoff = 1
  MissRetries = 1
  NumCells = 4
  MaxFaults = 0
INVARIANTS GuardHolds
