------------------------------ MODULE MCServe -------------------------------
(***************************************************************************)
(* What serves and reports traffic, on small instances: a request through  *)
(* the edge (EdgeRequest), the edge's batched lease calls (Batcher), the   *)
(* way of an analytics event (AnalyticsIngest), the answers made from the  *)
(* events (AnalyticsQuery) and the processes' start and stop (Lifecycle).  *)
(* A behaviour explores one of the five; the variables of the others are 0 *)
(* throughout.                                                             *)
(***************************************************************************)
EXTENDS MCEdge, Batcher, AnalyticsIngest, MCQuery, Lifecycle

VARIABLE part   \* the component this behaviour explores

requestOff ==
  /\ svc = 0 /\ req = 0 /\ slots = 0 /\ table = 0 /\ sweep = 0 /\ raced = 0 /\ used = 0
  /\ safe = 0 /\ owed = 0 /\ up = 0 /\ cache = 0
batchOff ==
  /\ waiter = 0 /\ pending = 0 /\ batches = 0 /\ inflight = 0 /\ unbatched = 0
ingestOff ==
  /\ edge = 0 /\ bus = 0 /\ service = 0 /\ stored = 0 /\ answering = 0 /\ watch = 0 /\ fate = 0
queryOff ==
  /\ kinds = 0 /\ log = 0 /\ pushed = 0 /\ now = 0 /\ refresh = 0 /\ agg = 0 /\ summaries = 0
  /\ clearing = 0 /\ page = 0
lifeOff ==
  /\ app = 0 /\ conf = 0 /\ stage = 0 /\ step = 0 /\ open = 0 /\ flight = 0 /\ cancelled = 0
  /\ late = 0 /\ gate = 0 /\ probe = 0 /\ pulled = 0

ServeInit ==
  \/ part = "request" /\ EdgeInit /\ batchOff /\ ingestOff /\ queryOff /\ lifeOff
  \/ part = "batch" /\ BatchInit /\ requestOff /\ ingestOff /\ queryOff /\ lifeOff
  \/ part = "ingest" /\ IngestInit /\ requestOff /\ batchOff /\ queryOff /\ lifeOff
  \/ part = "query" /\ QueryInit /\ requestOff /\ batchOff /\ ingestOff /\ lifeOff
  \/ part = "life" /\ LifeInit /\ requestOff /\ batchOff /\ ingestOff /\ queryOff

OnlyRequest == part = "request" /\ UNCHANGED << part, batchVars, ingestVars, queryVars, lifeVars >>
OnlyBatch == part = "batch" /\ UNCHANGED << part, edgeVars, ingestVars, queryVars, lifeVars >>
OnlyIngest == part = "ingest" /\ UNCHANGED << part, edgeVars, batchVars, queryVars, lifeVars >>
OnlyQuery == part = "query" /\ UNCHANGED << part, edgeVars, batchVars, ingestVars, lifeVars >>
OnlyLife == part = "life" /\ UNCHANGED << part, edgeVars, batchVars, ingestVars, queryVars >>
ServeNext ==
  \/ OnlyRequest /\ (\E r \in Requests, method \in {"GET", "POST", "OPTIONS"}, found \in BOOLEAN, lookup \in {"known", "unknown", "foreign", "failed"}, n \in {0, 2} : Arrive(r, method, found, lookup, n))
  \/ OnlyRequest /\ (\E r \in Requests : serveFromCache(r))
  \/ OnlyRequest /\ (\E r \in Requests : get(r))
  \/ OnlyRequest /\ (\E r \in Requests : Acquire(r))
  \/ OnlyRequest /\ (\E r \in Requests : AcquireFull(r))
  \/ OnlyRequest /\ (\E r \in Requests : AllowPrimary(r))
  \/ OnlyRequest /\ (\E r \in Requests, rejected \in BOOLEAN : AllowFails(r, rejected))
  \/ OnlyRequest /\ (\E r \in Requests : AllowLocal(r))
  \/ OnlyRequest /\ (\E r \in Requests : AllowLocalUndo(r))
  \/ OnlyRequest /\ (\E r \in Requests : Adjust(r))
  \/ OnlyRequest /\ (\E r \in Requests, large \in BOOLEAN : forward(r, large))
  \/ OnlyRequest /\ (\E r \in Requests : StartAttempt(r))
  \/ OnlyRequest /\ (\E r \in Requests, code \in {101, 200, 500} : EndAttempt(r, code))
  \/ OnlyRequest /\ (\E r \in Requests, why \in {"large", "gone", "timeout", "error"} : FailAttempt(r, why))
  \/ OnlyRequest /\ (\E r \in Requests, end \in {"slept", "gone", "timeout"} : Backoff(r, end))
  \/ OnlyRequest /\ (\E r \in Requests, actual \in {-1, 0, 2}, broke \in BOOLEAN : CloseBody(r, actual, broke))
  \/ OnlyRequest /\ (\E r \in Requests : SettleCost(r))
  \/ OnlyRequest /\ (\E r \in Requests : Release(r))
  \/ OnlyRequest /\ (\E r \in Requests, overflow \in BOOLEAN : StoreResponse(r, overflow))
  \/ OnlyRequest /\ SweepSees
  \/ OnlyRequest /\ SweepEvicts
  \/ OnlyRequest /\ (\E t \in Replicas : Cooldown(t))
  \/ OnlyBatch /\ (\E c \in Calls : RequestQuotaLease(c))
  \/ OnlyBatch /\ (\E c \in Calls, kind \in {"granted", "error"} : DirectAnswer(c, kind))
  \/ OnlyBatch /\ (\E b \in batches : exchange(b))
  \/ OnlyBatch /\ (\E b \in batches : exchangeUnimplemented(b))
  \/ OnlyBatch /\ (\E b \in batches : send(b))
  \/ OnlyBatch /\ (\E b \in batches, kind \in {"granted", "error"} : exchangeAlone(b, kind))
  \/ OnlyIngest /\ (\E e \in Events, b \in BOOLEAN : observe(e, b))
  \/ OnlyIngest /\ (\E e \in Events, b \in BOOLEAN : Deliver(e, b))
  \/ OnlyIngest /\ PublisherTakes
  \/ OnlyIngest /\ EdgeStops
  \/ OnlyIngest /\ WorkerTakes
  \/ OnlyIngest /\ Probe
  \/ OnlyIngest /\ ServiceStops
  \/ OnlyIngest /\ (\E b \in BOOLEAN : publish(b))
  \/ OnlyIngest /\ (\E e \in Events : BusLoses(e))
  \/ OnlyIngest /\ (\E ok, applied \in BOOLEAN : storeBatch(ok, applied))
  \/ OnlyIngest /\ (\E i \in DOMAIN Dependencies : DependencyChanges(Dependencies[i]))
  \/ OnlyQuery /\ (\E k \in kinds, t \in {now, now - 2} : InsertEntries(k, t))
  \/ OnlyQuery /\ Tick
  \/ OnlyQuery /\ reloadAggregates
  \/ OnlyQuery /\ ingestEntries
  \/ OnlyQuery /\ refreshSummaryCache
  \/ OnlyQuery /\ ClearStore
  \/ OnlyQuery /\ ClearCaches
  \/ OnlyQuery /\ (\E limit \in 1 .. 2, offset \in 0 .. 1 : ReadLength(limit, offset))
  \/ OnlyQuery /\ ReadRange
  \/ OnlyQuery /\ ReadAgain
  \/ OnlyLife /\ StartStep
  \/ OnlyLife /\ StartFails
  \/ OnlyLife /\ ApplyConfig
  \/ OnlyLife /\ ApplyReady
  \/ OnlyLife /\ PingAnswers
  \/ OnlyLife /\ PingFails
  \/ OnlyLife /\ (\E l \in {"http", "grpc"} : Accept(l))
  \/ OnlyLife /\ (\E l \in {"http", "grpc"} : Finish(l))
  \/ OnlyLife /\ Cancel
  \/ OnlyLife /\ (\E r \in Loops(app) : LoopEnds(r))
  \/ OnlyLife /\ RunStops
  \/ OnlyLife /\ Deadline
  \/ OnlyLife /\ Shutdown

ServeSpec == ServeInit /\ [][ServeNext]_<< part, edgeVars, batchVars, ingestVars, queryVars, lifeVars >>

Scope == part = "query" => QueryScope

----------------------------------------------------------------------------
\* The properties of the component modules, each of the behaviours that explore its component.

\* Concurrency slots are held by the requests in progress and by no other, and stay within
\* the limit (Concurrency.Acquire).
ServeSlotsBalance == part = "request" => SlotsBalance

\* A finished request has cost its caller what it should, whichever limiter charged it, and a
\* denial nothing (Reserve, Settle).
ServeAccountsBalance == part = "request" => AccountsBalance

\* What is cached is an upstream's answer to a request that may be cached (serveFromCache).
ServeOnlyUpstreamCached == part = "request" => OnlyUpstreamCached

\* A replica's load is the requests it is serving (pool.pick, pool.report).
ServeReplicasBalance == part = "request" => ReplicasBalance

\* A request that is not idempotent reaches an upstream once, unless the service allows
\* retries of it (RoundTrip).
ServeSentOnce == part = "request" => SentOnce

\* A lease request is in one place until it is done, and is then done with an answer to
\* itself (Batcher.send, exchange).
ServeEveryCallAnswered == part = "batch" => EveryCallAnswered

\* The counters of the edge and of the service add up to where the events went (Stats,
\* snapshotIngestionMetrics).
ServeEventsAccounted == part = "ingest" => EventsAccounted

\* However often the dependencies come and go there is one subscription and one refresh loop
\* (watchReadiness).
ServeOneOfEach == part = "ingest" => OneOfEach

\* A summary served from the cache says of its window what the events loaded for it say
\* (buildSnapshot).
ServeSnapshotAddsUp == part = "query" => SnapshotAddsUp

\* The dashboard is the same computed in process and in SQL (buildOverview, queryOverview).
ServeStoresAgree == part = "query" => StoresAgree

\* The buckets of a contract summary add up to its totals (QueryContractSummary).
ServeContractAddsUp == part = "query" => ContractAddsUp

\* A page of events is a page of the store as it was at one moment, unless it was cleared
\* (readWindow).
ServePageOfOneMoment == part = "query" => PageOfOneMoment

\* A process leaves nothing behind and pulls nothing from under a request (Start, Shutdown,
\* close).
ServeOrderlyLife == part = "life" => OrderlyLife
=============================================================================
