SPECIFICATION ServeSpec
CONSTANTS
  Requests = {r1, r2}
  Replicas = {t1, t2}
  Services <- CheckedServices
  Calls = {c1, c2, c3, c4}
  MaxItems = 2
  MaxInflight = 2
  Events = {e1, e2}
  BufferSize = 1
  QueueSize = 1
  MaxRetries = 1
  MaxPasses = 3
  Intervals <- CheckedIntervals
  Ranges <- CheckedRanges
  Filters <- CheckedFilters
  Kinds <- CheckedKinds
  History = 4
  LoadLimit = 3
  RowLimit = 1
  RecentLimit = 2
  MaxEvents = 3
  MaxNow = 3
  MaxRequests = 2
  ProbeLimit = 3
INVARIANTS ServeSlotsBalance  ServeOnlyUpstreamCached ServeReplicasBalance ServeSentOnce
INVARIANTS ServeEveryCallAnswered ServeEventsAccounted 
INVARIANTS    ServePageOfOneMoment
 
CONSTRAINT Scope
CHECK_DEADLOCK FALSE
