SPECIFICATION CacheSpec
CONSTANTS
  Keys = {"k1", "k2", "k3"}
  Sizes = {1, 2}
  ShardCost = 3
  Sample = 2
  TTL = 1
  MaxTime = 1
INVARIANT WithinBudget
CHECK_DEADLOCK FALSE
