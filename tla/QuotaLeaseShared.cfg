SPECIFICATION Spec
CONSTANTS
  Edges = {e1, e2}
  Slots = {s1}
  Limit = 2
  EdgeLimit = 2
  Window = 1
  Targets = {2, 3}
  Costs = {1}
  RetryFloor = 1
  MaxTime = 0
  MaxReturns = 1
  Backoff = 1
  MissRetries = 1
  NumCells = 4
  MaxFaults = 0
SYMMETRY Symmetry
INVARIANTS QuotaNeverExceeded GrantsWithinLimit TokensBacked
