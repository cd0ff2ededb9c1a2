---------------------------- MODULE ServeProofs ----------------------------
(***************************************************************************)
(* What the run of MCServe checks of a request, of an event, of a lease    *)
(* call and of a process, as theorems for every value of the constants.    *)
(* EdgeProofs and ComponentProofs have the inductive invariants.           *)
(***************************************************************************)
EXTENDS EdgeProofs, ComponentProofs, MCServe

----------------------------------------------------------------------------
(* The edge's requests, in every behaviour that explores them.             *)

\* EdgeInv holds wherever the behaviour is one of the edge.
ServeEdgeInv == part = "request" => EdgeInv

\* A request holds at most one slot and one replica, its charges are where its place in the code says,
\* and what the limiters have taken is what finished requests cost and what is under way.  (ServeHTTP.)
THEOREM ServeEdgeInvariance ==
  ASSUME SafetyAgrees PROVE ServeSpec => []ServeEdgeInv
<1>1. ServeInit => ServeEdgeInv BY EdgeStart, Zenon DEF ServeInit, ServeEdgeInv
<1>2. ServeEdgeInv /\ [ServeNext]_<<part, edgeVars, batchVars, ingestVars, queryVars, lifeVars>>
      => ServeEdgeInv'
  <2> SUFFICES ASSUME part = "request" => EdgeInv, part' = "request",
                      [ServeNext]_<<part, edgeVars, batchVars, ingestVars, queryVars, lifeVars>>
               PROVE  EdgeInv'
    BY DEF ServeEdgeInv
  <2>1. CASE OnlyBatch \/ OnlyIngest \/ OnlyQuery \/ OnlyLife
    BY <2>1 DEF OnlyBatch, OnlyIngest, OnlyQuery, OnlyLife
  <2>2. CASE OnlyRequest
    <3>1. EdgeInv BY <2>2 DEF OnlyRequest
    <3>2. ~OnlyBatch /\ ~OnlyIngest /\ ~OnlyQuery /\ ~OnlyLife
      BY <2>2 DEF OnlyRequest, OnlyBatch, OnlyIngest, OnlyQuery, OnlyLife
    <3>3. ServeNext => EdgeNext
      <4> SUFFICES ASSUME ServeNext, ~EdgeNext PROVE FALSE OBVIOUS
      <4>1. ~(\E r \in Requests, method \in {"GET", "POST", "OPTIONS"},
                 found \in BOOLEAN, lookup \in {"known", "unknown", "foreign", "failed"}, n \in {0, 2} :
                    Arrive(r, method, found, lookup, n)) BY Zenon DEF EdgeNext
      <4>2. ~(\E r \in Requests : serveFromCache(r)) BY Zenon DEF EdgeNext
      <4>3. ~(\E r \in Requests : get(r)) BY Zenon DEF EdgeNext
      <4>4. ~(\E r \in Requests : Acquire(r)) BY Zenon DEF EdgeNext
      <4>5. ~(\E r \in Requests : AcquireFull(r)) BY Zenon DEF EdgeNext
      <4>6. ~(\E r \in Requests : AllowPrimary(r)) BY Zenon DEF EdgeNext
      <4>7. ~(\E r \in Requests, rejected \in BOOLEAN : AllowFails(r, rejected)) BY Zenon DEF EdgeNext
      <4>8. ~(\E r \in Requests : AllowLocal(r)) BY Zenon DEF EdgeNext
      <4>9. ~(\E r \in Requests : AllowLocalUndo(r)) BY Zenon DEF EdgeNext
      <4>10. ~(\E r \in Requests : Adjust(r)) BY Zenon DEF EdgeNext
      <4>11. ~(\E r \in Requests, large \in BOOLEAN : forward(r, large)) BY Zenon DEF EdgeNext
      <4>12. ~(\E r \in Requests : StartAttempt(r)) BY Zenon DEF EdgeNext
      <4>13. ~(\E r \in Requests, code \in {101, 200, 500} : EndAttempt(r, code)) BY Zenon DEF EdgeNext
      <4>14. ~(\E r \in Requests, why \in {"large", "gone", "timeout", "error"} : FailAttempt(r, why))
        BY Zenon DEF EdgeNext
      <4>15. ~(\E r \in Requests, end \in {"slept", "gone", "timeout"} : Backoff(r, end))
        BY Zenon DEF EdgeNext
      <4>16. ~(\E r \in Requests, actual \in {-1, 0, 2}, broke \in BOOLEAN : CloseBody(r, actual, broke))
        BY Zenon DEF EdgeNext
      <4>17. ~(\E r \in Requests : SettleCost(r)) BY Zenon DEF EdgeNext
      <4>18. ~(\E r \in Requests : Release(r)) BY Zenon DEF EdgeNext
      <4>19. ~(\E r \in Requests, overflow \in BOOLEAN : StoreResponse(r, overflow)) BY Zenon DEF EdgeNext
      <4>20. ~SweepSees BY Zenon DEF EdgeNext
      <4>21. ~SweepEvicts BY Zenon DEF EdgeNext
      <4>22. ~(\E t \in Replicas : Cooldown(t)) BY Zenon DEF EdgeNext
      <4> QED
        BY <3>2, <4>1, <4>2, <4>3, <4>4, <4>5, <4>6, <4>7, <4>8, <4>9, <4>10, <4>11, <4>12, <4>13,
           <4>14, <4>15, <4>16, <4>17, <4>18, <4>19, <4>20, <4>21, <4>22, Zenon DEF ServeNext
    <3>4. [EdgeNext]_edgeVars BY <3>3
    <3> QED BY <3>1, <3>4, EdgeStep
  <2>3. CASE UNCHANGED <<part, edgeVars, batchVars, ingestVars, queryVars, lifeVars>>
    <3>1. EdgeInv /\ UNCHANGED edgeVars BY <2>3
    <3> QED BY <3>1, EdgeStep
  <2> QED BY <2>1, <2>2, <2>3, Zenon DEF ServeNext
<1> QED BY <1>1, <1>2, PTL DEF ServeSpec

\* The slots taken are those of the requests that hold one, and are within the limit but for the
\* slots an eviction lost (Concurrency.Acquire, Sweep).
THEOREM SlotsStayBalanced ==
  ASSUME SafetyAgrees PROVE ServeSpec => []ServeSlotsBalance
<1>1. ServeEdgeInv => ServeSlotsBalance BY EdgeConsequences DEF ServeEdgeInv, ServeSlotsBalance
<1> QED BY <1>1, ServeEdgeInvariance, PTL

\* When no request is under way each limiter has taken what the requests it let through cost, with
\* rolled back checks and settled estimates accounted for (Reserve, rollback, Settle).
THEOREM AccountsStayBalanced ==
  ASSUME SafetyAgrees PROVE ServeSpec => []ServeAccountsBalance
<1>1. ServeEdgeInv => ServeAccountsBalance BY EdgeConsequences DEF ServeEdgeInv, ServeAccountsBalance
<1> QED BY <1>1, ServeEdgeInvariance, PTL

\* Nothing but an upstream's answer that may be stored is ever served from the cache (serveFromCache).
THEOREM OnlyUpstreamIsCached ==
  ASSUME SafetyAgrees PROVE ServeSpec => []ServeOnlyUpstreamCached
<1>1. ServeEdgeInv => ServeOnlyUpstreamCached BY EdgeConsequences DEF ServeEdgeInv, ServeOnlyUpstreamCached
<1> QED BY <1>1, ServeEdgeInvariance, PTL

\* A replica's in-flight count is the number of attempts under way at it (pool.pick, pool.report).
THEOREM ReplicasStayBalanced ==
  ASSUME SafetyAgrees PROVE ServeSpec => []ServeReplicasBalance
<1>1. ServeEdgeInv => ServeReplicasBalance BY EdgeConsequences DEF ServeEdgeInv, ServeReplicasBalance
<1> QED BY <1>1, ServeEdgeInvariance, PTL

\* A request that is not idempotent is sent once unless its service lets it be retried (RoundTrip).
THEOREM RequestsSentOnce ==
  ASSUME SafetyAgrees PROVE ServeSpec => []ServeSentOnce
<1>1. ServeEdgeInv => ServeSentOnce BY EdgeConsequences DEF ServeEdgeInv, ServeSentOnce
<1> QED BY <1>1, ServeEdgeInvariance, PTL

----------------------------------------------------------------------------
(* Analytics events, in every behaviour that explores them.                *)

\* IngestInv holds wherever the behaviour is one of an event.
ServeIngestInv == part = "ingest" => IngestInv

\* Every captured event is in one queue or counted in one place, through full queues, failed writes,
\* lost messages, retried inserts and a stop of either side (observe, publish, storeBatch).
THEOREM ServeIngestInvariance == ServeSpec => []ServeIngestInv
<1>1. ServeInit => ServeIngestInv BY IngestStart, Zenon DEF ServeInit, ServeIngestInv
<1>2. ServeIngestInv /\ [ServeNext]_<<part, edgeVars, batchVars, ingestVars, queryVars, lifeVars>>
      => ServeIngestInv'
  <2> SUFFICES ASSUME part = "ingest" => IngestInv, part' = "ingest",
                      [ServeNext]_<<part, edgeVars, batchVars, ingestVars, queryVars, lifeVars>>
               PROVE  IngestInv'
    BY DEF ServeIngestInv
  <2>1. CASE OnlyRequest \/ OnlyBatch \/ OnlyQuery \/ OnlyLife
    BY <2>1 DEF OnlyRequest, OnlyBatch, OnlyQuery, OnlyLife
  <2>2. CASE OnlyIngest
    <3>1. IngestInv BY <2>2 DEF OnlyIngest
    <3>2. ~OnlyRequest /\ ~OnlyBatch /\ ~OnlyQuery /\ ~OnlyLife
      BY <2>2 DEF OnlyRequest, OnlyBatch, OnlyIngest, OnlyQuery, OnlyLife
    <3>3. ServeNext => IngestNext BY <3>2, Zenon DEF ServeNext, IngestNext
    <3>4. [IngestNext]_ingestVars BY <3>3
    <3> QED BY <3>1, <3>4, IngestStep
  <2>3. CASE UNCHANGED <<part, edgeVars, batchVars, ingestVars, queryVars, lifeVars>>
    <3>1. IngestInv /\ UNCHANGED ingestVars BY <2>3
    <3> QED BY <3>1, IngestStep
  <2> QED BY <2>1, <2>2, <2>3, Zenon DEF ServeNext
<1> QED BY <1>1, <1>2, PTL DEF ServeSpec

\* The counters the two metrics endpoints report add up to where the events went (Stats,
\* snapshotIngestionMetrics).
THEOREM EventsAreAccounted == ServeSpec => []ServeEventsAccounted
<1>1. ServeIngestInv => ServeEventsAccounted
  BY IngestConsequences, Zenon DEF ServeIngestInv, ServeEventsAccounted
<1> QED BY <1>1, ServeIngestInvariance, PTL

\* The service never has two subscriptions or two refresh loops (watchReadiness, StartNATSSubscriber).
THEOREM OneSubscription == ServeSpec => []ServeOneOfEach
<1>1. ServeIngestInv => ServeOneOfEach
  BY IngestConsequences, Zenon DEF ServeIngestInv, ServeOneOfEach
<1> QED BY <1>1, ServeIngestInvariance, PTL

----------------------------------------------------------------------------
(* The edge's batched lease calls, in every behaviour that explores them.  *)

\* BatchInv holds wherever the behaviour is one of the batcher.
ServeBatchInv == part = "batch" => BatchInv

\* A lease request that waits is in the queue or in one batch, the slots are the batches there are, and
\* a batch that has answers has an answer to each of its calls at its place (Batcher, RequestQuotaLeases).
THEOREM ServeBatchInvariance == ServeSpec => []ServeBatchInv
<1>1. ServeInit => ServeBatchInv BY BatchStart, Zenon DEF ServeInit, ServeBatchInv
<1>2. ServeBatchInv /\ [ServeNext]_<<part, edgeVars, batchVars, ingestVars, queryVars, lifeVars>>
      => ServeBatchInv'
  <2> SUFFICES ASSUME part = "batch" => BatchInv, part' = "batch",
                      [ServeNext]_<<part, edgeVars, batchVars, ingestVars, queryVars, lifeVars>>
               PROVE  BatchInv'
    BY DEF ServeBatchInv
  <2>1. CASE OnlyRequest \/ OnlyIngest \/ OnlyQuery \/ OnlyLife
    BY <2>1 DEF OnlyRequest, OnlyIngest, OnlyQuery, OnlyLife
  <2>2. CASE OnlyBatch
    <3>1. BatchInv BY <2>2 DEF OnlyBatch
    <3>2. ~OnlyRequest /\ ~OnlyIngest /\ ~OnlyQuery /\ ~OnlyLife
      BY <2>2 DEF OnlyRequest, OnlyBatch, OnlyIngest, OnlyQuery, OnlyLife
    <3>3. ServeNext => BatchNext BY <3>2, Zenon DEF ServeNext, BatchNext
    <3>4. [BatchNext]_batchVars BY <3>3
    <3> QED BY <3>1, <3>4, BatchStep
  <2>3. CASE UNCHANGED <<part, edgeVars, batchVars, ingestVars, queryVars, lifeVars>>
    <3>1. BatchInv /\ UNCHANGED batchVars BY <2>3
    <3> QED BY <3>1, BatchStep
  <2> QED BY <2>1, <2>2, <2>3, Zenon DEF ServeNext
<1> QED BY <1>1, <1>2, PTL DEF ServeSpec

\* No lease request waits on nothing and none gets another's answer, whichever places of its batch the
\* hub refused, answered or left out, and whether or not it knows batches (takeLocked, exchange, send).
THEOREM CallsAreAnswered == ServeSpec => []ServeEveryCallAnswered
<1>1. ServeBatchInv => ServeEveryCallAnswered
  BY BatchConsequences, Zenon DEF ServeBatchInv, ServeEveryCallAnswered
<1> QED BY <1>1, ServeBatchInvariance, PTL

----------------------------------------------------------------------------
(* The start and stop of a process, in every behaviour that explores them. *)

\* LifeInv holds wherever the behaviour is one of a process.
ServeLifeInv == part = "life" => LifeInv

\* What is open was opened by a step of Start, what Shutdown is past is closed, and an edge serves only
\* with a configuration (Start, Shutdown, close).
THEOREM ServeLifeInvariance == ServeSpec => []ServeLifeInv
<1>1. ServeInit => ServeLifeInv BY LifeStart, Zenon DEF ServeInit, ServeLifeInv
<1>2. ServeLifeInv /\ [ServeNext]_<<part, edgeVars, batchVars, ingestVars, queryVars, lifeVars>>
      => ServeLifeInv'
  <2> SUFFICES ASSUME part = "life" => LifeInv, part' = "life",
                      [ServeNext]_<<part, edgeVars, batchVars, ingestVars, queryVars, lifeVars>>
               PROVE  LifeInv'
    BY DEF ServeLifeInv
  <2>1. CASE OnlyRequest \/ OnlyBatch \/ OnlyIngest \/ OnlyQuery
    BY <2>1 DEF OnlyRequest, OnlyBatch, OnlyIngest, OnlyQuery
  <2>2. CASE OnlyLife
    <3>1. LifeInv BY <2>2 DEF OnlyLife
    <3>2. ~OnlyRequest /\ ~OnlyBatch /\ ~OnlyIngest /\ ~OnlyQuery
      BY <2>2 DEF OnlyRequest, OnlyBatch, OnlyIngest, OnlyQuery, OnlyLife
    <3>3. ServeNext => LifeNext BY <3>2, Zenon DEF ServeNext, LifeNext
    <3>4. [LifeNext]_lifeVars BY <3>3
    <3> QED BY <3>1, <3>4, LifeStep
  <2>3. CASE UNCHANGED <<part, edgeVars, batchVars, ingestVars, queryVars, lifeVars>>
    <3>1. LifeInv /\ UNCHANGED lifeVars BY <2>3
    <3> QED BY <3>1, LifeStep
  <2> QED BY <2>1, <2>2, <2>3, Zenon DEF ServeNext
<1> QED BY <1>1, <1>2, PTL DEF ServeSpec

\* A process leaves nothing behind and pulls nothing from under a request, wherever its start failed and
\* whenever it was stopped (Start, Shutdown, close).
THEOREM LivesAreOrderly == ServeSpec => []ServeOrderlyLife
<1>1. ServeLifeInv => ServeOrderlyLife BY LifeConsequences, Zenon DEF ServeLifeInv, ServeOrderlyLife
<1> QED BY <1>1, ServeLifeInvariance, PTL
=============================================================================
