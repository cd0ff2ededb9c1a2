SPECIFICATION Spec
CONSTANTS
  Edges = {e1}
  Slots = {s1}
  Limit = 1
  EdgeLimit = 1
  Window = 1
  Targets = {1}
  Costs = {1}
  RetryFloor = 1
  MaxTime = 2
  MaxReturns = 1
  Backoff = 1
  MissRetries = 1
  NumCells = 4
  MaxFaults = 1
INVARIANTS TypeOK IInv ExpiryNeverLate
PROPERTIES WindowNeverGoesBack
