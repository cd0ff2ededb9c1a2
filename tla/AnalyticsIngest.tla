-------------------------- MODULE AnalyticsIngest --------------------------
(***************************************************************************)
(* How an analytics event gets from an edge's request to the store:        *)
(* AnalyticsManager at the edge (a bounded buffer and one publisher), the  *)
(* NATS bus (external: delivers at most once, to one of a queue group),    *)
(* and the analytics service (the subscriber callback, the bounded ingest  *)
(* queue, and one worker that stores with retries).  Every hand-off drops  *)
(* rather than blocks.  The service starts once its dependencies answer.   *)
(***************************************************************************)
EXTENDS Integers, Sequences, FiniteSets

CONSTANTS Events, BufferSize, QueueSize, MaxRetries, MaxPasses

ASSUME IngestSettings == IsFiniteSet(Events) /\ MaxRetries \in Nat

VARIABLES
  edge,    \* its counters, buffer, publisher (the event being written) and NATS connection
  bus,     \* messages published and not yet delivered or lost
  service, \* the service's counters, queue, worker, subscriptions and refresh loops
  stored,  \* stored[e]: how many times event e is in the store
  answering, \* the dependencies that answer
  watch,   \* the readiness watcher: its next check, passes made, whether all succeeded
  fate     \* fate[e]: where event e is, or was lost

ingestVars == <<edge, bus, service, stored, answering, watch, fate>>

Dependencies == <<"hub", "store", "nats">>
IngestInit ==
  /\ edge \in {[captured |-> 0, dropped |-> 0, published |-> 0, failed |-> 0, buffer |-> <<>>,
                writing |-> <<>>, conn |-> c, running |-> TRUE] : c \in {"open", "nil"}}
  /\ bus = {} /\ stored = [e \in Events |-> 0]
  /\ service = [received |-> 0, invalid |-> 0, enqueued |-> 0, dropped |-> 0, persisted |-> 0, failures |-> 0,
            queue |-> <<>>, work |-> <<>>, attempt |-> 0, worker |-> FALSE, subs |-> 0, refreshers |-> 0,
            subscribed |-> FALSE, subscriberUp |-> FALSE, hubReady |-> FALSE, stopping |-> FALSE]
  /\ answering = {} /\ watch = [check |-> 1, passes |-> 0, good |-> TRUE]
  /\ fate = [e \in Events |-> "none"]

----------------------------------------------------------------------------
(* The edge.                                                               *)

Moved(e, to) == fate' = [fate EXCEPT ![e] = to]

\* observe's last step: a request that is not sampled is not captured
observe(e, sampled) ==
  /\ fate[e] = "none"
  /\ IF ~sampled THEN UNCHANGED edge /\ Moved(e, "unsampled")
     ELSE IF Len(edge.buffer) < BufferSize
     THEN /\ edge' = [edge EXCEPT !.captured = @ + 1, !.buffer = Append(@, e)] /\ Moved(e, "buffered")
     ELSE /\ edge' = [edge EXCEPT !.captured = @ + 1, !.dropped = @ + 1] /\ Moved(e, "dropped")
  /\ UNCHANGED <<bus, service, stored, answering, watch>>
PublisherTakes ==
  /\ edge.running /\ edge.writing = <<>> /\ edge.buffer # <<>>
  /\ edge' = [edge EXCEPT !.writing = <<Head(edge.buffer)>>, !.buffer = Tail(@)]
  /\ Moved(Head(edge.buffer), "writing")
  /\ UNCHANGED <<bus, service, stored, answering, watch>>
\* publish: without a connection it returns no error, and the event counts as published
publish(ok) ==
  LET e == edge.writing[1]
  IN  /\ edge.writing # <<>>
      /\ IF edge.conn = "nil" THEN ok /\ Moved(e, "lost") /\ UNCHANGED bus
         ELSE IF ok THEN Moved(e, "bus") /\ bus' = bus \cup {e}
         ELSE Moved(e, "failed") /\ UNCHANGED bus
      /\ edge' = IF ok THEN [edge EXCEPT !.writing = <<>>, !.published = @ + 1]
                 ELSE [edge EXCEPT !.writing = <<>>, !.failed = @ + 1]
      /\ UNCHANGED <<service, stored, answering, watch>>
\* The process is told to stop: the publisher ends between two events, and closes the connection.
EdgeStops ==
  /\ edge.running /\ edge.writing = <<>>
  /\ edge' = [edge EXCEPT !.running = FALSE]
  /\ UNCHANGED <<bus, service, stored, answering, watch, fate>>

BusLoses(e) ==
  /\ e \in bus
  /\ bus' = bus \ {e} /\ Moved(e, "lost")
  /\ UNCHANGED <<edge, service, stored, answering, watch>>

----------------------------------------------------------------------------
(* The service.                                                            *)

\* The callback of StartNATSSubscriber's subscription
Deliver(e, valid) ==
  LET s == [service EXCEPT !.received = @ + 1]
  IN  /\ e \in bus /\ service.subs > 0
      /\ bus' = bus \ {e}
      /\ IF ~valid THEN service' = [s EXCEPT !.invalid = @ + 1] /\ Moved(e, "invalid")
         ELSE IF Len(service.queue) < QueueSize
         THEN service' = [s EXCEPT !.enqueued = @ + 1, !.queue = Append(@, e)] /\ Moved(e, "queued")
         ELSE service' = [s EXCEPT !.dropped = @ + 1] /\ Moved(e, "dropped")
      /\ UNCHANGED <<edge, stored, answering, watch>>
WorkerTakes ==
  /\ service.worker /\ service.work = <<>> /\ service.queue # <<>>
  /\ service' = [service EXCEPT !.work = <<Head(service.queue)>>, !.queue = Tail(@), !.attempt = 0]
  /\ Moved(Head(service.queue), "storing")
  /\ UNCHANGED <<edge, bus, stored, answering, watch>>
\* persistAnalyticsEntry: one attempt of storeBatch.  An insert that failed may have taken effect.
GiveUpAt(attempt) == attempt = MaxRetries \/ service.stopping
AfterFailureCounting(s, e) ==
  IF GiveUpAt(s.attempt) THEN [s EXCEPT !.work = <<>>, !.failures = @ + 1]
  ELSE [s EXCEPT !.attempt = @ + 1, !.failures = @ + 1]
AfterFailure(s, e) ==
  IF GiveUpAt(s.attempt) THEN [s EXCEPT !.work = <<>>, !.failures = @ + 1] ELSE [s EXCEPT !.attempt = @ + 1]
storeBatch(ok, applied) ==
  LET e == service.work[1]
  IN  /\ service.work # <<>> /\ (ok => applied /\ "store" \in answering)
      /\ stored' = [stored EXCEPT ![e] = @ + IF applied THEN 1 ELSE 0]
      /\ IF ok THEN service' = [service EXCEPT !.work = <<>>, !.persisted = @ + 1] /\ Moved(e, "stored")
         ELSE /\ service' = AfterFailure(service, e)
              /\ IF GiveUpAt(service.attempt) THEN Moved(e, "failed") ELSE UNCHANGED fate
      /\ UNCHANGED <<edge, bus, answering, watch>>

\* StartNATSSubscriber: the worker starts once; connecting, subscribing or flushing may fail, and a
\* subscription that was made is undone
ensureIngestionWorker(s) == [s EXCEPT !.worker = TRUE]
SubscribeFailsLeaky(s) == [ensureIngestionWorker(s) EXCEPT !.subscriberUp = FALSE, !.subs = @ + 1]
SubscribeFails(s) == [ensureIngestionWorker(s) EXCEPT !.subscriberUp = FALSE]
Subscribe(s) ==
  [ensureIngestionWorker(s) EXCEPT !.subscriberUp = TRUE, !.subs = @ + 1, !.subscribed = TRUE, !.refreshers = @ + 1]
\* WatchAll over analyticsapp's checks: in order, to the first that fails; then ready or not.
\* The nats check subscribes the first time it is reached.
NextCheck(s, good) ==
  IF good /\ watch.check < Len(Dependencies)
  THEN service' = s /\ watch' = [watch EXCEPT !.check = @ + 1]
  ELSE service' = [s EXCEPT !.hubReady = good] /\ watch' = [check |-> 1, passes |-> watch.passes + 1, good |-> good]
Probe ==
  LET d == Dependencies[watch.check]
  IN  /\ watch.passes < MaxPasses /\ ~service.stopping
      /\ IF d # "nats" THEN NextCheck(service, d \in answering)
         ELSE IF service.subscribed THEN NextCheck(service, TRUE)
         ELSE IF d \in answering THEN NextCheck(Subscribe(service), TRUE) \/ NextCheck(SubscribeFails(service), FALSE)
         ELSE NextCheck(SubscribeFails(service), FALSE)
      /\ UNCHANGED <<edge, bus, stored, answering, fate>>
DependencyChanges(d) ==
  /\ answering' = IF d \in answering THEN answering \ {d} ELSE answering \cup {d}
  /\ UNCHANGED <<edge, bus, service, stored, watch, fate>>
\* The service is told to stop: it unsubscribes, and the worker ends between two events
ServiceStops ==
  /\ ~service.stopping
  /\ service' = [service EXCEPT !.stopping = TRUE, !.subs = 0, !.subscriberUp = FALSE, !.worker = FALSE, !.refreshers = 0]
  /\ UNCHANGED <<edge, bus, stored, answering, watch, fate>>

\* handleReady
handleReady == service.hubReady /\ "store" \in answering /\ service.worker /\ service.subscriberUp

IngestNext ==
  \/ \E e \in Events, b \in BOOLEAN : observe(e, b) \/ Deliver(e, b)
  \/ PublisherTakes \/ EdgeStops \/ WorkerTakes \/ Probe \/ ServiceStops
  \/ \E b \in BOOLEAN : publish(b)
  \/ \E e \in Events : BusLoses(e)
  \/ \E ok, applied \in BOOLEAN : storeBatch(ok, applied)
  \/ \E i \in DOMAIN Dependencies : DependencyChanges(Dependencies[i])

IngestSpec == IngestInit /\ [][IngestNext]_ingestVars

----------------------------------------------------------------------------
(* Properties.                                                             *)

In(places) == Cardinality({e \in Events : fate[e] \in places})

\* What the two metrics endpoints report adds up to where the events went (Stats,
\* snapshotIngestionMetrics): every captured event is counted in one place and counted once, through
\* full buffers, failed publishes, retried inserts and a stop of either side; an event that was given
\* up on is never counted as stored, and one counted as stored is in the store.  An event may be in
\* the store more than once, when an insert failed after it took effect, but no more often than it
\* was tried.
EventsAccounted ==
  /\ edge.captured = edge.dropped + edge.published + edge.failed + Len(edge.buffer) + Len(edge.writing)
  /\ edge.published = In({"bus", "lost", "queued", "storing", "stored", "invalid"})
                      + (service.dropped + service.failures)
  /\ service.received = service.invalid + service.enqueued + service.dropped
  /\ service.enqueued = service.persisted + service.failures + Len(service.queue) + Len(service.work)
  /\ service.persisted = In({"stored"})
  /\ \A e \in Events : /\ fate[e] = "stored" => stored[e] >= 1
                       /\ stored[e] <= MaxRetries + 1
                       /\ stored[e] > 0 => fate[e] \in {"storing", "stored", "failed"}

\* However often the dependencies come and go and a subscription half succeeds, the service holds at
\* most one live subscription and runs at most one refresh loop (watchReadiness's subscribed,
\* StartNATSSubscriber): the refresh rebuilds the shared aggregates without a lock and is only safe
\* alone.  A service that says it is ready is subscribed and has its worker.
OneOfEach ==
  /\ service.subs <= 1 /\ service.refreshers <= 1
  /\ handleReady => service.subs = 1 /\ service.refreshers = 1
=============================================================================
