---------------------------- MODULE ControlPlane ----------------------------
(***************************************************************************)
(* How configuration and tier changes travel: hub replicas that share one  *)
(* Redis (packages/hub) and an edge that watches one of them               *)
(* (packages/edge: FollowHub, HubClient.Watch, TierCache).                 *)
(*                                                                         *)
(* One API key and one service stand for all: caches are per key, and a    *)
(* configuration is the number of the reload that made it.  Publishing,    *)
(* the hub-to-hub channel, the watch stream, lookups and the edge's single *)
(* flight are separate steps; publishing may fail, a subscription may lose *)
(* messages, the stream may break.                                         *)
(***************************************************************************)
EXTENDS Integers, Sequences, FiniteSets

CONSTANTS
  Replicas,    \* hub replicas
  Tiers,       \* tiers a key may have
  Buffer,      \* watcherBuffer: events queued for one edge
  MaxConfigs,  \* bound: configuration reloads
  MaxChanges,  \* bound: tier changes
  MaxBreaks    \* bound: broken streams

VARIABLES
  cfg,      \* cfg[h]: the configuration hub h has active
  store,    \* the key's tier in Redis
  cached,   \* cached[h]: the tier in the cache of hub h
  gen,      \* gen[h]: its count of invalidations
  look,     \* look[h]: the lookup hub h runs for an edge
  op,       \* op[h]: the admin request hub h is handling
  queue,    \* queue[h]: control messages Redis has for hub h
  relayed,  \* relayed[h]: the event the relay is about to forward
  watch,    \* the edge's stream: [hub, pc, open]
  stream,   \* events on their way to the edge
  edge,     \* the edge: [cfg, entry, gen, ready]
  kept,     \* its response cache for the service: [cfg, late]
  fill,     \* the configuration a request that missed it is served under
  gap,      \* the edge has reconnected after a break
  flight,   \* the edge's lookup of the key
  missed,   \* hubs that a tier change may not reach
  calm,     \* nothing published or relayed has been lost so far
  done      \* [reloads, changes, breaks]

hubSide == <<cfg, store, cached, gen, look, op, queue, relayed>>
edgeSide == <<watch, stream, edge, flight, kept, fill, gap>>
controlVars == <<hubSide, edgeSide, missed, calm, done>>

None == "none"
Nobody == [pc |-> "none"]
NoHub == [hub |-> Nobody, pc |-> "off", open |-> FALSE]
NoEvent == [kind |-> "none"]
Quiet == [pc |-> "idle"]
NoConfig == -1
NoResponse == [cfg |-> NoConfig, late |-> FALSE]
NoEntry == [tier |-> None, gen |-> -1]

ControlInit ==
  /\ cfg = [h \in Replicas |-> 0] /\ store \in Tiers
  /\ cached = [h \in Replicas |-> None] /\ gen = [h \in Replicas |-> 0]
  /\ look = [h \in Replicas |-> Quiet] /\ op = [h \in Replicas |-> Quiet]
  /\ queue = [h \in Replicas |-> <<>>] /\ relayed = [h \in Replicas |-> NoEvent]
  /\ watch = NoHub /\ stream = <<>>
  /\ edge = [cfg |-> NoConfig, entry |-> NoEntry, gen |-> 0, ready |-> FALSE]
  /\ flight = Quiet
  /\ kept = NoResponse /\ fill = NoConfig /\ gap = FALSE
  /\ missed = {} /\ calm = TRUE
  /\ done = [reloads |-> 0, changes |-> 0, breaks |-> 0]

----------------------------------------------------------------------------
\* Admin requests at one hub.  A reload makes the configuration active here
\* and then announces whatever is active; invalid ones change nothing.
Reload(h) ==
  /\ op[h] = Quiet /\ done.reloads < MaxConfigs
  /\ cfg' = [cfg EXCEPT ![h] = done.reloads + 1]
  /\ op' = [op EXCEPT ![h] = [pc |-> "publish", kind |-> "config"]]
  /\ done' = [done EXCEPT !.reloads = @ + 1]
  /\ UNCHANGED <<store, cached, gen, look, queue, relayed, edgeSide, missed, calm>>

\* assign: the tier is written to Redis.  The write may fail, with or without
\* effect, and is then not announced.
Assign(h, t, effect, ok) ==
  /\ op[h] = Quiet /\ done.changes < MaxChanges /\ t # store /\ (ok => effect)
  /\ store' = IF effect THEN t ELSE store
  /\ op' = [op EXCEPT ![h] = [pc |-> "written", kind |-> "tier", tier |-> t, ok |-> ok]]
  /\ missed' = IF effect /\ ~ok THEN Replicas \ {h} ELSE missed
  /\ done' = [done EXCEPT !.changes = @ + 1]
  /\ UNCHANGED <<cfg, cached, gen, look, queue, relayed, edgeSide, calm>>

\* The write's deferred invalidation of this hub's own cache.
Forget(h) ==
  /\ cached' = [cached EXCEPT ![h] = None]
  /\ gen' = [gen EXCEPT ![h] = @ + 1]
Invalidate(h) ==
  /\ op[h].pc = "written"
  /\ Forget(h)
  /\ op' = [op EXCEPT ![h] = IF @.ok THEN [pc |-> "publish", kind |-> "tier", tier |-> @.tier]
                                     ELSE Quiet]
  /\ UNCHANGED <<cfg, store, look, queue, relayed, edgeSide, missed, calm, done>>

\* What a message does at hub h before it is forwarded: another hub's
\* configuration becomes active, a tier change empties the cache entry.
Applied(h, m) ==
  IF m.kind = "config" /\ m.from # h THEN [cfg EXCEPT ![h] = m.cfg] ELSE cfg
EventOf(h, m) ==
  IF m.kind = "config" THEN [kind |-> "config", cfg |-> Applied(h, m)[h], reset |-> FALSE]
                       ELSE [kind |-> "tier", tier |-> m.tier]

\* publish: through Redis to every hub, this one included; when Redis answers
\* with an error (whether or not it took the message) to this hub's own edges.
Publish(h, sent, ok) ==
  LET m == IF op[h].kind = "config" THEN [kind |-> "config", cfg |-> cfg[h], from |-> h]
                                    ELSE [kind |-> "tier", tier |-> op[h].tier, from |-> h]
  IN  /\ op[h].pc = "publish" /\ (ok => sent)
      /\ queue' = IF sent THEN [x \in Replicas |-> Append(queue[x], m)] ELSE queue
      /\ op' = [op EXCEPT ![h] = IF ok THEN Quiet ELSE [pc |-> "deliver", event |-> EventOf(h, m)]]
      /\ IF ~ok /\ m.kind = "tier" THEN Forget(h) ELSE UNCHANGED <<cached, gen>>
      /\ missed' = IF ~sent /\ m.kind = "tier" THEN missed \cup (Replicas \ {h}) ELSE missed
      /\ calm' = (calm /\ ok)
      /\ UNCHANGED <<cfg, store, look, relayed, edgeSide, done>>

\* Events are queued for the watching edge; one too far behind is dropped.
PushSkip(h, e) ==
  /\ stream' = IF watch.hub = h /\ watch.open /\ Len(stream) < Buffer THEN Append(stream, e) ELSE stream
  /\ UNCHANGED watch
Push(h, e) ==
  IF watch.hub # h \/ ~watch.open THEN UNCHANGED <<watch, stream>>
  ELSE IF Len(stream) < Buffer THEN stream' = Append(stream, e) /\ UNCHANGED watch
  ELSE watch' = [watch EXCEPT !.open = FALSE] /\ UNCHANGED stream
Deliver(h) ==
  /\ op[h].pc = "deliver"
  /\ Push(h, op[h].event)
  /\ op' = [op EXCEPT ![h] = Quiet]
  /\ UNCHANGED <<cfg, store, cached, gen, look, queue, relayed, edge, flight, kept, fill, gap, missed, calm, done>>

\* The relay takes the next message off the subscription, applies it and
\* builds the event; forwarding it takes the lock and is a step of its own.
Relay(h) ==
  LET m == Head(queue[h])
  IN  /\ queue[h] # <<>> /\ relayed[h] = NoEvent
      /\ queue' = [queue EXCEPT ![h] = Tail(@)]
      /\ cfg' = Applied(h, m)
      /\ relayed' = [relayed EXCEPT ![h] = EventOf(h, m)]
      /\ IF m.kind = "tier" THEN Forget(h) ELSE UNCHANGED <<cached, gen>>
      /\ UNCHANGED <<store, look, op, edgeSide, missed, calm, done>>
Forward(h) ==
  /\ relayed[h] # NoEvent
  /\ Push(h, relayed[h])
  /\ relayed' = [relayed EXCEPT ![h] = NoEvent]
  /\ UNCHANGED <<cfg, store, cached, gen, look, op, queue, edge, flight, kept, fill, gap, missed, calm, done>>

\* The subscription closes and the relay subscribes again: what Redis had for
\* this hub is gone.
Resubscribe(h) ==
  /\ queue[h] # <<>> /\ done.breaks < MaxBreaks
  /\ queue' = [queue EXCEPT ![h] = <<>>]
  /\ missed' = missed \cup {h} /\ calm' = FALSE
  /\ done' = [done EXCEPT !.breaks = @ + 1]
  /\ UNCHANGED <<cfg, store, cached, gen, look, op, relayed, edgeSide>>

----------------------------------------------------------------------------
\* The edge's watch stream: the hub registers the watcher before it takes the
\* first snapshot, which also makes the edge revalidate its tiers.
Connect(h) ==
  /\ watch.pc = "off"
  /\ watch' = [hub |-> h, pc |-> "registered", open |-> TRUE]
  /\ UNCHANGED <<hubSide, stream, edge, flight, kept, fill, gap, missed, calm, done>>
Snapshot ==
  /\ watch.pc = "registered"
  /\ stream' = <<[kind |-> "config", cfg |-> cfg[watch.hub], reset |-> TRUE]>> \o stream
  /\ watch' = [watch EXCEPT !.pc = "live"]
  /\ UNCHANGED <<hubSide, edge, flight, kept, fill, gap, missed, calm, done>>

\* The stream ends: the edge was dropped and has read what was queued, or the
\* connection broke.
End ==
  /\ watch.pc = "live"
  /\ \/ ~watch.open /\ stream = <<>> /\ UNCHANGED done
     \/ done.breaks < MaxBreaks /\ done' = [done EXCEPT !.breaks = @ + 1]
  /\ watch' = NoHub /\ stream' = <<>>
  /\ UNCHANGED <<hubSide, edge, flight, kept, fill, gap, missed, calm>>

\* Apply: a snapshot replaces the configuration, opens the edge and may reset
\* its tiers; one sent for a reload also names the cached responses to drop,
\* the first one of a stream does not.  A pushed tier replaces the entry.
DroppedNone(e) == UNCHANGED kept
Dropped(e) == IF e.kind = "config" /\ ~e.reset THEN kept' = NoResponse ELSE UNCHANGED kept
Receive ==
  LET e == Head(stream)
  IN  /\ watch.pc = "live" /\ stream # <<>>
      /\ stream' = Tail(stream)
      /\ edge' = IF e.kind = "config"
                 THEN [edge EXCEPT !.cfg = e.cfg, !.ready = TRUE, !.gen = IF e.reset THEN @ + 1 ELSE @]
                 ELSE [edge EXCEPT !.entry = [tier |-> e.tier, gen |-> edge.gen]]
      /\ Dropped(e)
      /\ gap' = (gap \/ (e.kind = "config" /\ e.reset /\ edge.ready))
      /\ UNCHANGED <<hubSide, watch, flight, fill, missed, calm, done>>

\* serveFromCache: a miss is served by the configuration of its request and
\* stored when the response ends.
Miss ==
  /\ edge.ready /\ kept = NoResponse /\ fill = NoConfig
  /\ fill' = edge.cfg
  /\ UNCHANGED <<hubSide, watch, stream, edge, flight, kept, gap, missed, calm, done>>
Fill ==
  /\ fill # NoConfig
  /\ kept' = [cfg |-> fill, late |-> fill # edge.cfg] /\ fill' = NoConfig
  /\ UNCHANGED <<hubSide, watch, stream, edge, flight, gap, missed, calm, done>>

\* A request finds no usable entry: one lookup for all of them, sent to any
\* hub, remembers the generation it started in.
Fresh == edge.entry.gen = edge.gen
AskHub(h) ==
  /\ edge.ready /\ ~Fresh /\ flight = Quiet /\ look[h] = Quiet
  /\ flight' = [pc |-> "asked", gen |-> edge.gen]
  /\ look' = [look EXCEPT ![h] = [pc |-> "start"]]
  /\ UNCHANGED <<cfg, store, cached, gen, op, queue, relayed, watch, stream, edge, kept, fill, gap, missed, calm, done>>

\* The hub: its cached tier, or Redis's, which it stores unless something was
\* invalidated since.  Unknown keys are not cached.
Lookup(h) ==
  /\ look[h].pc = "start"
  /\ look' = [look EXCEPT ![h] = IF cached[h] # None
                                 THEN [pc |-> "answer", tier |-> cached[h]]
                                 ELSE [pc |-> "read", tier |-> store, gen |-> gen[h]]]
  /\ UNCHANGED <<cfg, store, cached, gen, op, queue, relayed, edgeSide, missed, calm, done>>
KeepAnyway(h) ==
  /\ look[h].pc = "read"
  /\ cached' = IF look[h].tier # None THEN [cached EXCEPT ![h] = look[h].tier] ELSE cached
  /\ look' = [look EXCEPT ![h] = [pc |-> "answer", tier |-> @.tier]]
  /\ UNCHANGED <<cfg, store, gen, op, queue, relayed, edgeSide, missed, calm, done>>
Keep(h) ==
  /\ look[h].pc = "read"
  /\ cached' = IF look[h].tier # None /\ look[h].gen = gen[h]
               THEN [cached EXCEPT ![h] = look[h].tier] ELSE cached
  /\ look' = [look EXCEPT ![h] = [pc |-> "answer", tier |-> @.tier]]
  /\ UNCHANGED <<cfg, store, gen, op, queue, relayed, edgeSide, missed, calm, done>>

\* The answer reaches the edge, or is lost and the lookup fails.
Answer(h, arrives) ==
  /\ look[h].pc = "answer" /\ flight # Quiet
  /\ edge' = IF arrives THEN [edge EXCEPT !.entry = [tier |-> look[h].tier, gen |-> flight.gen]]
                        ELSE edge
  /\ look' = [look EXCEPT ![h] = Quiet] /\ flight' = Quiet
  /\ UNCHANGED <<cfg, store, cached, gen, op, queue, relayed, watch, stream, kept, fill, gap, missed, calm, done>>

\* Lifetimes end: a tier or a response at the edge, a tier at a hub.
Lapse ==
  /\ edge.entry # NoEntry
  /\ edge' = [edge EXCEPT !.entry = NoEntry]
  /\ UNCHANGED <<hubSide, watch, stream, flight, kept, fill, gap, missed, calm, done>>
LapseResponse ==
  /\ kept # NoResponse
  /\ kept' = NoResponse
  /\ UNCHANGED <<hubSide, watch, stream, edge, flight, fill, gap, missed, calm, done>>
LapseAt(h) ==
  /\ cached[h] # None
  /\ cached' = [cached EXCEPT ![h] = None]
  /\ UNCHANGED <<cfg, store, gen, look, op, queue, relayed, edgeSide, missed, calm, done>>

ControlNext ==
  \/ \E h \in Replicas : Reload(h)
  \/ \E h \in Replicas : \E t \in Tiers \cup {None}, effect, ok \in BOOLEAN : Assign(h, t, effect, ok)
  \/ \E h \in Replicas : Invalidate(h)
  \/ \E h \in Replicas : \E sent, ok \in BOOLEAN : Publish(h, sent, ok)
  \/ \E h \in Replicas : Deliver(h)
  \/ \E h \in Replicas : Relay(h)
  \/ \E h \in Replicas : Forward(h)
  \/ \E h \in Replicas : Resubscribe(h)
  \/ \E h \in Replicas : Connect(h)
  \/ Snapshot
  \/ End
  \/ Receive
  \/ Miss
  \/ Fill
  \/ \E h \in Replicas : AskHub(h)
  \/ \E h \in Replicas : Lookup(h)
  \/ \E h \in Replicas : Keep(h)
  \/ \E h \in Replicas : \E arrives \in BOOLEAN : Answer(h, arrives)
  \/ Lapse
  \/ LapseResponse
  \/ \E h \in Replicas : LapseAt(h)

ControlSpec == ControlInit /\ [][ControlNext]_controlVars

----------------------------------------------------------------------------
\* Nothing is under way at hub h: no admin request, no message, no event.
AtRest(h) == op[h] = Quiet /\ queue[h] = <<>> /\ relayed[h] = NoEvent

\* A hub's cached tier is the one in Redis unless a change is still on its way
\* to it or never will be (CachedTiers: "a lookup that started before one does
\* not store its (possibly stale) answer").
CacheCoherent ==
  \A h \in Replicas : AtRest(h) /\ (\A x \in Replicas : op[x] = Quiet) /\ h \notin missed
                   => cached[h] \in {None, store}

\* An edge that has read its stream has its hub's configuration, however
\* connecting, reloading and relaying interleave, as long as Redis keeps its
\* messages (Watch: "nothing missed while disconnected stays missed").
EdgeFollowsHub ==
  calm /\ watch.pc = "live" /\ watch.open /\ stream = <<>> /\ AtRest(watch.hub)
    => edge.cfg = cfg[watch.hub]

\* While the stream holds, the edge serves a cached response of an older
\* configuration only when its request was under way as the new one arrived
\* (Apply: the responses of every changed service are dropped with it).
ResponsesFollow == ~gap /\ kept # NoResponse /\ ~kept.late => kept.cfg = edge.cfg

\* Once a tier change has been pushed and nothing is under way, no edge serves
\* the old tier (TierCache: "revocations apply without waiting for expiry").
EdgeTierCurrent ==
  calm /\ missed = {} /\ (\A h \in Replicas : AtRest(h) /\ look[h] = Quiet) /\ flight = Quiet
  /\ watch.pc = "live" /\ watch.open /\ stream = <<>> /\ Fresh
    => edge.entry.tier = store

=============================================================================
