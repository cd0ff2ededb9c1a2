SPECIFICATION FairSpec
CONSTANTS
  Edges = {e1}
  Slots = {s1}
  Limit = 1
  EdgeLimit = 1
  Window = 1
  Targets = {1}
  Costs = {1}
  RetryFloor = 1
  MaxTime = 1
  MaxReturns = 0
  Backoff = 1
  MissRetries = 2
  NumCells = 4
  MaxFaults = 1
PROPERTIES EveryCallReturns
