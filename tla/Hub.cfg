SPECIFICATION HubSpec
CONSTANTS
  h1 = h1
  h2 = h2
  Replicas = {h1, h2}
  Tiers = {"gold"}
  Buffer = 1
  MaxConfigs = 2
  MaxChanges = 1
  MaxBreaks = 1
  Callers = {1, 2}
  Roles = {"admin", "read-only"}
  Plans = {"a", "b"}
  MaxSecrets = 3
  MaxRequests = 3
  Files <- AllFiles
  Updates <- RolloutFiles
  Longer <- LongerNames
  Handlers = {1, 2}
  MaxReloads = 3
INVARIANTS HubCacheCoherent HubEdgeFollowsHub 
INVARIANTS HubOnlyRecordedSecretWorks HubMigrationKeepsKey
INVARIANTS  HubMigrationKeepsMeaning HubEveryCallerLimited
CONSTRAINT Scope
CHECK_DEADLOCK FALSE
