SPECIFICATION AllSpec
CONSTANTS
  e1 = e1
  e2 = e2
  k1 = k1
  k2 = k2
  NoOrg = NoOrg
  Edges = {e1, e2}
  Keys = {k1, k2}
  KeyOf <- OwnKeys
  Specs <- AllSpecs
  Orgs <- WithAndWithout
  Targets = {2}
  Actuals = {0, 2}
  RetryFor = 1
  TokenLife = 3
  MaxTime = 3
  MaxReturns = 2
  east = east
  west = west
  eastHub = eastHub
  westHub = westHub
  Regions = {east, west}
  Hubs = {eastHub, westHub}
  RegionOf <- RegionsOfHubs
  Quota = 3
  Floors <- FloorShares
  Home = east
  Window = 2
  RegionTargets = {2}
  Skew = 0
  RegionTime = 2
  MaxTransfers = 1
INVARIANTS  AllOrgBudgetHolds  
INVARIANTS AllGlobalQuotaHolds AllRInv
CONSTRAINT Scope
CHECK_DEADLOCK FALSE
