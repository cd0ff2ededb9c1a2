CONSTANTS
  h1 = h1
  h2 = h2
  Replicas = {h1, h2}
  Tiers = {"gold"}
  Buffer = 1
  MaxConfigs = 2
  MaxChanges = 1
  MaxBreaks = 1
SPECIFICATION ControlSpec
INVARIANT EdgeTierCurrent
CONSTRAINT ControlScope
CHECK_DEADLOCK FALSE
