SPECIFICATION Spec
CONSTANTS
  Edges = {e1}
  Slots = {s1, s2}
  Limit = 1
  EdgeLimit = 1
  Window = 2
  Targets = {1}
  Costs = {1}
  RetryFloor = 1
  MaxTime = 2
  MaxReturns = 0
  Backoff = 1
  MissRetries = 1
  NumCells = 4
  MaxFaults = 0
SYMMETRY Symmetry
INVARIANTS IInv ExpiryNeverLate AnswersNeverStale
PROPERTIES WindowNeverGoesBack ImplementsCentral
