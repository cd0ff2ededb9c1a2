-------------------------- MODULE ComponentProofs --------------------------
(***************************************************************************)
(* Proofs about the components around the edge's requests, each for any    *)
(* value of its constants: AnalyticsIngest (IngestInv), Batcher (BatchInv) *)
(* and Lifecycle (LifeInv).  For each, the inductive invariant holds at    *)
(* the start, every step keeps it, and it implies the component's          *)
(* properties.  ServeProofs states what follows for every behaviour.       *)
(***************************************************************************)
EXTENDS AnalyticsIngest, Batcher, Lifecycle, FiniteSetTheorems, TLAPS

----------------------------------------------------------------------------
(* Analytics: where the events are.                                        *)

Conns == {"open", "nil"}
EdgeRec ==
  [captured : Nat, dropped : Nat, published : Nat, failed : Nat, buffer : Seq(Events),
   writing : Seq(Events), conn : Conns, running : BOOLEAN]
ServiceRec ==
  [received : Nat, invalid : Nat, enqueued : Nat, dropped : Nat, persisted : Nat, failures : Nat,
   queue : Seq(Events), work : Seq(Events), attempt : Nat, worker : BOOLEAN, subs : Nat, refreshers : Nat,
   subscribed : BOOLEAN, subscriberUp : BOOLEAN, hubReady : BOOLEAN, stopping : BOOLEAN]
Fates ==
  {"none", "unsampled", "buffered", "dropped", "writing", "bus", "lost", "failed", "queued", "invalid",
   "storing", "stored"}
IngestTyped(ed, sv, b, st, f) ==
  /\ ed \in EdgeRec /\ sv \in ServiceRec /\ b \subseteq Events
  /\ st \in [Events -> Nat] /\ f \in [Events -> Fates]

\* The events of a queue are where it says, each once.
Line(q, f, place) ==
  /\ q \in Seq(Events)
  /\ \A i \in 1 .. Len(q) : f[q[i]] = place
  /\ \A i, j \in 1 .. Len(q) : q[i] = q[j] => i = j
Lines(ed, sv, b, f) ==
  /\ Line(ed.buffer, f, "buffered") /\ Line(ed.writing, f, "writing")
  /\ Line(sv.queue, f, "queued") /\ Line(sv.work, f, "storing")
  /\ Len(ed.writing) <= 1 /\ Len(sv.work) <= 1
  /\ \A e \in b : f[e] = "bus"

\* An event is in the store at most once for each attempt made.
Tries(w, n, st, f) ==
  /\ n <= MaxRetries
  /\ \A e \in Events : /\ st[e] <= MaxRetries + 1
                       /\ f[e] = "stored" => st[e] >= 1
                       /\ st[e] > 0 => f[e] \in {"storing", "stored", "failed"}
  /\ \A i \in 1 .. Len(w) : st[w[i]] <= n

\* How many events are at the places P.
Count(f, P) == Cardinality({e \in Events : f[e] \in P})

\* The counters of the edge and of the service, and the subscriptions.
Published == {"bus", "lost", "queued", "storing", "stored", "invalid"}
InStore == {"stored"}
EdgeCounts(ed, sv, f) ==
  /\ ed.captured = ed.dropped + ed.published + ed.failed + Len(ed.buffer) + Len(ed.writing)
  /\ ed.published = Count(f, Published) + (sv.dropped + sv.failures)
ServiceCounts(sv, f) ==
  /\ sv.received = sv.invalid + sv.enqueued + sv.dropped
  /\ sv.enqueued = sv.persisted + sv.failures + Len(sv.queue) + Len(sv.work)
  /\ sv.persisted = Count(f, InStore)
Subscriptions(sv) ==
  /\ sv.subs <= 1 /\ sv.refreshers <= 1
  /\ ~sv.subscribed => sv.subs = 0 /\ sv.refreshers = 0
  /\ sv.subscriberUp => sv.subs = 1 /\ sv.refreshers = 1

\* Event e is now at place to.
Moves(f, g, e, to) == f \in [Events -> Fates] /\ e \in Events /\ g = [f EXCEPT ![e] = to]

Accounted(ed, sv, b, st, f) ==
  /\ IngestTyped(ed, sv, b, st, f) /\ Lines(ed, sv, b, f) /\ Tries(sv.work, sv.attempt, st, f)
  /\ EdgeCounts(ed, sv, f) /\ ServiceCounts(sv, f) /\ Subscriptions(sv)
IngestInv == Accounted(edge, service, bus, stored, fate)

\* What the metrics say and the one subscription follow from it.
LEMMA IngestConsequences ==
  ASSUME IngestInv
  PROVE  EventsAccounted /\ OneOfEach
<1>1. EventsAccounted
  <2>1. EdgeCounts(edge, service, fate) /\ ServiceCounts(service, fate)
          /\ Tries(service.work, service.attempt, stored, fate)
    BY Zenon DEF IngestInv, Accounted
  <2>2. \A P : In(P) = Count(fate, P) BY Zenon DEF In, Count
  <2> QED BY <2>1, <2>2, Zenon DEF EventsAccounted, EdgeCounts, ServiceCounts, Tries, Published, InStore
<1>2. OneOfEach
  <2>1. Subscriptions(service) BY Zenon DEF IngestInv, Accounted
  <2> QED BY <2>1, Zenon DEF Subscriptions, OneOfEach, handleReady
<1> QED BY <1>1, <1>2, Zenon

\* One event changes place: the places it left and reached count one less and one more.
LEMMA CountMoved ==
  ASSUME IsFiniteSet(Events), NEW f, NEW g, NEW e, NEW to, NEW P, Moves(f, g, e, to)
  PROVE  Count(g, P) + (IF f[e] \in P THEN 1 ELSE 0) = Count(f, P) + (IF to \in P THEN 1 ELSE 0)
<1> DEFINE A == {x \in Events : f[x] \in P}
           B == {x \in Events : g[x] \in P}
           C == A \ {e}
<1>1. IsFiniteSet(A) /\ IsFiniteSet(B) /\ IsFiniteSet(C) BY FS_Subset, Zenon
<1>2. e \in Events /\ g[e] = to /\ \A x \in Events \ {e} : g[x] = f[x] BY Zenon DEF Moves
<1>3. Cardinality(A) \in Nat /\ Cardinality(B) \in Nat /\ Cardinality(C) \in Nat
  BY <1>1, FS_CardinalityType, Zenon
<1>4. Cardinality(A) = Cardinality(C) + (IF f[e] \in P THEN 1 ELSE 0)
  <2>1. CASE f[e] \in P
    <3>1. A = C \cup {e} /\ e \notin C BY <1>2, <2>1, Zenon
    <3> HIDE DEF A, B, C
    <3>2. Cardinality(C \cup {e}) = Cardinality(C) + 1 BY <1>1, <3>1, FS_AddElement, Zenon
    <3> QED BY <2>1, <3>1, <3>2, Zenon
  <2>2. CASE f[e] \notin P
    <3>1. A = C BY <2>2, Zenon
    <3> HIDE DEF A, B, C
    <3> QED BY <1>3, <2>2, <3>1
  <2> QED BY <2>1, <2>2, Zenon
<1>5. Cardinality(B) = Cardinality(C) + (IF to \in P THEN 1 ELSE 0)
  <2>1. CASE to \in P
    <3>1. B = C \cup {e} /\ e \notin C BY <1>2, <2>1
    <3> HIDE DEF A, B, C
    <3>2. Cardinality(C \cup {e}) = Cardinality(C) + 1 BY <1>1, <3>1, FS_AddElement, Zenon
    <3> QED BY <2>1, <3>1, <3>2, Zenon
  <2>2. CASE to \notin P
    <3>1. B = C BY <1>2, <2>2
    <3> HIDE DEF A, B, C
    <3> QED BY <1>3, <2>2, <3>1
  <2> QED BY <2>1, <2>2, Zenon
<1>6. Count(f, P) = Cardinality(A) /\ Count(g, P) = Cardinality(B) BY Zenon DEF Count
<1> HIDE DEF A, B, C
<1> QED BY <1>3, <1>4, <1>5, <1>6

\* The events at some places are finitely many.
LEMMA CountNat ==
  ASSUME IsFiniteSet(Events), NEW f, NEW P
  PROVE  Count(f, P) \in Nat
<1>1. IsFiniteSet({e \in Events : f[e] \in P}) BY FS_Subset, Zenon
<1> QED BY <1>1, FS_CardinalityType, Zenon DEF Count

\* An event that moves between places that are not counted leaves the count.
LEMMA CountAside ==
  ASSUME NEW f, NEW g, NEW e, NEW to, NEW P, Moves(f, g, e, to), f[e] \notin P, to \notin P
  PROVE  Count(g, P) = Count(f, P)
<1>1. Count(f, P) \in Nat /\ Count(g, P) \in Nat BY IngestSettings, CountNat, Zenon
<1>2. Count(g, P) + (IF f[e] \in P THEN 1 ELSE 0) = Count(f, P) + (IF to \in P THEN 1 ELSE 0)
  BY IngestSettings, CountMoved
<1> QED BY <1>1, <1>2

\* An event that moves between places that are counted leaves the count.
LEMMA CountWithin ==
  ASSUME NEW f, NEW g, NEW e, NEW to, NEW P, Moves(f, g, e, to), f[e] \in P, to \in P
  PROVE  Count(g, P) = Count(f, P)
<1>1. Count(f, P) \in Nat /\ Count(g, P) \in Nat BY IngestSettings, CountNat, Zenon
<1>2. Count(g, P) + (IF f[e] \in P THEN 1 ELSE 0) = Count(f, P) + (IF to \in P THEN 1 ELSE 0)
  BY IngestSettings, CountMoved
<1> QED BY <1>1, <1>2

\* An event that moves to a place that is counted adds one.
LEMMA CountGains ==
  ASSUME NEW f, NEW g, NEW e, NEW to, NEW P, Moves(f, g, e, to), f[e] \notin P, to \in P
  PROVE  Count(g, P) = Count(f, P) + 1
<1>1. Count(f, P) \in Nat /\ Count(g, P) \in Nat BY IngestSettings, CountNat, Zenon
<1>2. Count(g, P) + (IF f[e] \in P THEN 1 ELSE 0) = Count(f, P) + (IF to \in P THEN 1 ELSE 0)
  BY IngestSettings, CountMoved
<1> QED BY <1>1, <1>2

\* An event that moves from a place that is counted takes one.
LEMMA CountLoses ==
  ASSUME NEW f, NEW g, NEW e, NEW to, NEW P, Moves(f, g, e, to), f[e] \in P, to \notin P
  PROVE  Count(g, P) = Count(f, P) - 1
<1>1. Count(f, P) \in Nat /\ Count(g, P) \in Nat BY IngestSettings, CountNat, Zenon
<1>2. Count(g, P) + (IF f[e] \in P THEN 1 ELSE 0) = Count(f, P) + (IF to \in P THEN 1 ELSE 0)
  BY IngestSettings, CountMoved, Zenon
<1> QED BY <1>1, <1>2

\* A queue takes in an event from elsewhere, gives up its first, or is not concerned.
LEMMA LineAppend ==
  ASSUME NEW q, NEW f, NEW g, NEW e, NEW place, Line(q, f, place), f[e] # place, Moves(f, g, e, place)
  PROVE  Line(Append(q, e), g, place) /\ Len(Append(q, e)) = Len(q) + 1
<1> USE DEF Moves
<1>1. q \in Seq(Events) /\ Append(q, e) \in Seq(Events) /\ Len(q) \in Nat BY DEF Line
<1>2. Len(Append(q, e)) = Len(q) + 1 /\ Append(q, e)[Len(q) + 1] = e BY <1>1
<1>3. \A i \in 1 .. Len(q) : Append(q, e)[i] = q[i] /\ q[i] \in Events /\ q[i] # e BY <1>1 DEF Line
<1>4. \A i \in 1 .. Len(q) + 1 : i \in 1 .. Len(q) \/ i = Len(q) + 1 BY <1>1
<1>5. ASSUME NEW i \in 1 .. Len(q) + 1 PROVE g[Append(q, e)[i]] = place
  <2>1. CASE i = Len(q) + 1 BY <1>2, <2>1, Zenon
  <2>2. CASE i \in 1 .. Len(q) BY <1>3, <2>2, Zenon DEF Line
  <2> QED BY <1>4, <2>1, <2>2, Zenon
<1>6. ASSUME NEW i \in 1 .. Len(q) + 1, NEW j \in 1 .. Len(q) + 1,
             Append(q, e)[i] = Append(q, e)[j] PROVE i = j
  <2>1. CASE i = Len(q) + 1 BY <1>2, <1>3, <1>4, <1>6, <2>1, Zenon
  <2>2. CASE j = Len(q) + 1 BY <1>2, <1>3, <1>4, <1>6, <2>2, Zenon
  <2>3. CASE i \in 1 .. Len(q) /\ j \in 1 .. Len(q) BY <1>3, <1>6, <2>3, Zenon DEF Line
  <2> QED BY <1>4, <2>1, <2>2, <2>3, Zenon
<1> QED BY <1>1, <1>2, <1>5, <1>6, Zenon DEF Line

\* A queue whose first event is taken out holds the events still in its place.
LEMMA LineTail ==
  ASSUME NEW q, NEW f, NEW g, NEW to, NEW place, Line(q, f, place), q # <<>>, Moves(f, g, Head(q), to)
  PROVE  /\ Line(Tail(q), g, place) /\ Len(Tail(q)) = Len(q) - 1 /\ Len(q) \in Nat /\ Len(q) > 0
         /\ Head(q) \in Events /\ f[Head(q)] = place
<1> USE DEF Moves
<1>1. q \in Seq(Events) /\ Tail(q) \in Seq(Events) /\ Len(q) \in Nat /\ Len(q) > 0
        /\ Len(Tail(q)) = Len(q) - 1
  BY DEF Line
<1>2. Head(q) = q[1] /\ 1 \in 1 .. Len(q) /\ q[1] \in Events /\ f[q[1]] = place BY <1>1 DEF Line
<1>3. ASSUME NEW i \in 1 .. Len(q) - 1 PROVE Tail(q)[i] = q[i + 1] /\ i + 1 \in 1 .. Len(q) /\ i + 1 # 1
  BY <1>1
<1>4. ASSUME NEW i \in 1 .. Len(q) - 1 PROVE g[Tail(q)[i]] = place
  <2>1. q[i + 1] # q[1] BY <1>2, <1>3, Zenon DEF Line
  <2>2. q[i + 1] \in Events /\ f[q[i + 1]] = place BY <1>1, <1>3 DEF Line
  <2> QED BY <1>2, <1>3, <2>1, <2>2, Zenon
<1>5. ASSUME NEW i \in 1 .. Len(q) - 1, NEW j \in 1 .. Len(q) - 1, Tail(q)[i] = Tail(q)[j] PROVE i = j
  <2>1. i + 1 = j + 1 BY <1>3, <1>5 DEF Line
  <2> QED BY <1>1, <2>1
<1> QED BY <1>1, <1>2, <1>4, <1>5, Zenon DEF Line

\* A queue of one event.
LEMMA LineOne ==
  ASSUME NEW f, NEW g, NEW e, NEW place, Moves(f, g, e, place)
  PROVE  Line(<<e>>, g, place) /\ Len(<<e>>) = 1
<1>1. <<e>> \in Seq(Events) /\ Len(<<e>>) = 1 /\ <<e>>[1] = e /\ g[e] = place BY DEF Moves
<1>2. \A i \in 1 .. 1 : i = 1 OBVIOUS
<1> QED BY <1>1, <1>2, Zenon DEF Line

\* An empty queue.
LEMMA LineNone ==
  ASSUME NEW f, NEW place
  PROVE  Line(<<>>, f, place) /\ Len(<<>>) = 0
BY DEF Line

\* A queue keeps its events when one that is elsewhere moves.
LEMMA LineKept ==
  ASSUME NEW q, NEW f, NEW g, NEW e, NEW to, NEW place, Line(q, f, place), f[e] # place, Moves(f, g, e, to)
  PROVE  Line(q, g, place)
<1>1. \A i \in 1 .. Len(q) : q[i] \in Events /\ q[i] # e BY DEF Line
<1> QED BY <1>1, Zenon DEF Line, Moves

\* At most one and not none.
LEMMA ExactlyOne ==
  ASSUME NEW k \in Nat, k <= 1, k > 0
  PROVE  k = 1
OBVIOUS

\* The length of a queue.
LEMMA LenNat == \A q \in Seq(Events) : Len(q) \in Nat
OBVIOUS

\* Outside the worker, a move leaves the record of inserts alone.
LEMMA TriesMoved ==
  ASSUME NEW w, NEW n, NEW st \in [Events -> Nat], NEW f, NEW g, NEW e, NEW to, Tries(w, n, st, f),
         Moves(f, g, e, to), to # "stored", f[e] \notin {"storing", "stored", "failed"}
  PROVE  Tries(w, n, st, g)
<1>1. st[e] = 0 BY DEF Tries, Moves
<1>2. \A x \in Events : g[x] = IF x = e THEN to ELSE f[x] BY Zenon DEF Moves
<1> QED BY <1>1, <1>2, Zenon DEF Tries

\* The worker starts on an event that was never tried.
LEMMA TriesTaken ==
  ASSUME NEW w, NEW n, NEW st \in [Events -> Nat], NEW f, NEW g, NEW e, Tries(w, n, st, f),
         Moves(f, g, e, "storing"), f[e] = "queued"
  PROVE  Tries(<<e>>, 0, st, g)
<1>1. st[e] = 0 BY DEF Tries, Moves
<1>2. \A x \in Events : g[x] = IF x = e THEN "storing" ELSE f[x] BY Zenon DEF Moves
<1>3. 0 <= MaxRetries BY IngestSettings
<1>4. \A i \in 1 .. Len(<<e>>) : st[<<e>>[i]] <= 0 BY <1>1
<1>5. \A x \in Events : /\ st[x] <= MaxRetries + 1
                        /\ g[x] = "stored" => st[x] >= 1
                        /\ st[x] > 0 => g[x] \in {"storing", "stored", "failed"}
  BY <1>1, <1>2, Zenon DEF Tries
<1> QED BY <1>3, <1>4, <1>5, Zenon DEF Tries

\* One attempt to insert event e: it takes effect or not.
Tried(st, m, e) == m = [st EXCEPT ![e] = st[e] + 1] \/ m = st

\* The attempt was the last: the event is stored, or the worker gives up.
LEMMA TriesEnded ==
  ASSUME NEW w, NEW n \in Nat, NEW st \in [Events -> Nat], NEW m, NEW f, NEW g, NEW e, NEW to,
         Tries(w, n, st, f),
         Moves(f, g, e, to), to \in {"stored", "failed"}, to = "stored" => m[e] = st[e] + 1,
         Tried(st, m, e), Len(w) = 1, e = w[1]
  PROVE  Tries(<<>>, n, m, g)
<1>1. e \in Events /\ st[e] \in Nat BY Zenon DEF Moves
<1>2. st[e] <= n /\ n <= MaxRetries BY DEF Tries
<1>3. (m[e] = st[e] + 1 \/ m[e] = st[e]) /\ \A x \in Events \ {e} : m[x] = st[x] BY <1>1, Zenon DEF Tried
<1>4. \A x \in Events : g[x] = IF x = e THEN to ELSE f[x] BY Zenon DEF Moves
<1>5. \A x \in Events \ {e} : /\ m[x] <= MaxRetries + 1
                              /\ g[x] = "stored" => m[x] >= 1
                              /\ m[x] > 0 => g[x] \in {"storing", "stored", "failed"}
  BY <1>3, <1>4, Zenon DEF Tries
<1>6. m[e] <= MaxRetries + 1 BY <1>1, <1>2, <1>3, IngestSettings
<1>7. g[e] = to BY <1>1, <1>4, Zenon
<1>8. g[e] = "stored" => m[e] >= 1 BY <1>1, <1>7
<1> QED BY <1>2, <1>5, <1>6, <1>7, <1>8 DEF Tries

\* The attempt failed and there is another.
LEMMA TriesAgain ==
  ASSUME NEW w, NEW n \in Nat, NEW st \in [Events -> Nat], NEW m, NEW f, Tries(w, n, st, f), n # MaxRetries,
         Tried(st, m, w[1]), Len(w) = 1, w[1] \in Events, f[w[1]] = "storing"
  PROVE  Tries(w, n + 1, m, f)
<1>1. PICK e \in Events : e = w[1] BY Zenon
<1>2. st[e] \in Nat /\ st[e] <= n /\ n <= MaxRetries BY <1>1 DEF Tries
<1>3. (m[e] = st[e] + 1 \/ m[e] = st[e]) /\ \A x \in Events \ {e} : m[x] = st[x] BY <1>1, Zenon DEF Tried
<1>4. n + 1 <= MaxRetries BY <1>2, IngestSettings
<1>5. m[e] <= n + 1 BY <1>2, <1>3
<1>6. m[e] <= MaxRetries + 1 BY <1>2, <1>3, IngestSettings
<1>7. \A x \in Events : /\ m[x] <= MaxRetries + 1
                        /\ f[x] = "stored" => m[x] >= 1
                        /\ m[x] > 0 => f[x] \in {"storing", "stored", "failed"}
  BY <1>1, <1>3, <1>6, Zenon DEF Tries
<1>8. \A i \in 1 .. Len(w) : m[w[i]] <= n + 1 BY <1>1, <1>5
<1> QED BY <1>4, <1>7, <1>8, Zenon DEF Tries


\* Initially nothing has been captured.
LEMMA IngestStart ==
  ASSUME IngestInit
  PROVE  IngestInv
<1>1. IngestTyped(edge, service, bus, stored, fate)
  <2>1. edge \in EdgeRec
    <3>1. PICK c \in {"open", "nil"} :
            edge = [captured |-> 0, dropped |-> 0, published |-> 0, failed |-> 0, buffer |-> <<>>,
                    writing |-> <<>>, conn |-> c, running |-> TRUE]
      BY Zenon DEF IngestInit
    <3> QED BY <3>1 DEF EdgeRec, Conns
  <2>2. service \in ServiceRec BY DEF IngestInit, ServiceRec
  <2>3. bus \subseteq Events /\ stored \in [Events -> Nat] BY Zenon DEF IngestInit
  <2>4. fate \in [Events -> Fates] BY Zenon DEF IngestInit, Fates
  <2> QED BY <2>1, <2>2, <2>3, <2>4, Zenon DEF IngestTyped
<1>2. Lines(edge, service, bus, fate)
  <2>1. edge.buffer = <<>> /\ edge.writing = <<>> /\ service.queue = <<>> /\ service.work = <<>> /\ bus = {}
    BY DEF IngestInit
  <2>2. \A place : Line(<<>>, fate, place) BY LineNone, Zenon
  <2>3. Len(edge.writing) <= 1 /\ Len(service.work) <= 1 BY <2>1
  <2> QED BY <2>1, <2>2, <2>3, Zenon DEF Lines
<1>3. Tries(service.work, service.attempt, stored, fate)
  <2>1. service.attempt = 0 /\ service.work = <<>> BY Zenon DEF IngestInit
  <2>2. \A e \in Events : stored[e] = 0 /\ fate[e] = "none" BY Zenon DEF IngestInit
  <2> QED BY <2>1, <2>2, IngestSettings DEF Tries
<1>4. Count(fate, Published) = 0 /\ Count(fate, InStore) = 0
  <2>1. {e \in Events : fate[e] \in Published} = {} BY Zenon DEF IngestInit, Published
  <2>2. {e \in Events : fate[e] \in InStore} = {} BY Zenon DEF IngestInit, InStore
  <2>3. Cardinality({}) = 0 BY FS_EmptySet, Zenon
  <2> QED BY <2>1, <2>2, <2>3, Zenon DEF Count
<1>5. EdgeCounts(edge, service, fate) BY <1>4 DEF IngestInit, EdgeCounts
<1>6. ServiceCounts(service, fate) BY <1>4 DEF IngestInit, ServiceCounts
<1>7. Subscriptions(service) BY DEF IngestInit, Subscriptions
<1> QED BY <1>1, <1>2, <1>3, <1>5, <1>6, <1>7, Zenon DEF IngestInv, Accounted

\* A request that is not sampled is not captured (observe).
LEMMA Unsampled ==
  ASSUME NEW ed, NEW sv, NEW b, NEW st, NEW f, NEW g, NEW e,
         Accounted(ed, sv, b, st, f), f[e] = "none", Moves(f, g, e, "unsampled")
  PROVE  Accounted(ed,
                   sv, b, st, g)
<1>1. ed \in EdgeRec BY Zenon DEF Accounted, IngestTyped
<1>2. sv \in ServiceRec BY Zenon DEF Accounted, IngestTyped
<1>3. b \in SUBSET Events /\ st \in [Events -> Nat] /\ f \in [Events -> Fates]
  BY Zenon DEF Accounted, IngestTyped
<1>4. /\ Line(ed.buffer, f, "buffered") /\ Line(ed.writing, f, "writing")
      /\ Line(sv.queue, f, "queued") /\ Line(sv.work, f, "storing")
      /\ Len(ed.writing) <= 1 /\ Len(sv.work) <= 1 /\ \A x \in b : f[x] = "bus"
  BY Zenon DEF Accounted, Lines
<1>5. Tries(sv.work, sv.attempt, st, f) BY Zenon DEF Accounted
<1>6. Subscriptions(sv) BY Zenon DEF Accounted
<1>7. EdgeCounts(ed, sv, f) BY Zenon DEF Accounted
<1>8. ServiceCounts(sv, f) BY Zenon DEF Accounted
<1>9. /\ ed.captured \in Nat /\ ed.dropped \in Nat /\ ed.published \in Nat /\ ed.failed \in Nat
      /\ ed.buffer \in Seq(Events) /\ ed.writing \in Seq(Events)
  BY <1>1, Zenon DEF EdgeRec
<1>10. /\ sv.received \in Nat /\ sv.invalid \in Nat /\ sv.enqueued \in Nat /\ sv.dropped \in Nat
      /\ sv.persisted \in Nat /\ sv.failures \in Nat /\ sv.attempt \in Nat
      /\ sv.queue \in Seq(Events) /\ sv.work \in Seq(Events)
  BY <1>2, Zenon DEF ServiceRec
<1>11. g \in [Events -> Fates] BY Zenon DEF Moves, Fates
<1>12. e \in Events BY Zenon DEF Moves
<1>13. Line(ed.buffer, g, "buffered") BY <1>4, LineKept, Zenon
<1>14. Line(ed.writing, g, "writing") BY <1>4, LineKept, Zenon
<1>15. Line(sv.queue, g, "queued") BY <1>4, LineKept, Zenon
<1>16. Line(sv.work, g, "storing") BY <1>4, LineKept, Zenon
<1>17. b \in SUBSET Events /\ \A x \in b : g[x] = "bus" BY <1>3, <1>4, <1>12, Zenon DEF Moves
<1>18. Lines(ed, sv, b, g) BY <1>4, <1>13, <1>14, <1>15, <1>16, <1>17, Zenon DEF Lines
<1>19. Tries(sv.work, sv.attempt, st, g) BY <1>3, <1>5, TriesMoved, Zenon
<1>20. f[e] \notin Published /\ "unsampled" \notin Published BY Zenon DEF Published
<1>21. Count(g, Published) = Count(f, Published) BY ONLY Moves(f, g, e, "unsampled"), <1>20, CountAside
<1>22. f[e] \notin InStore /\ "unsampled" \notin InStore BY Zenon DEF InStore
<1>23. Count(g, InStore) = Count(f, InStore) BY ONLY Moves(f, g, e, "unsampled"), <1>22, CountAside
<1>24. Count(f, Published) \in Nat /\ Count(f, InStore) \in Nat BY IngestSettings, CountNat, Zenon
<1>25. ed.captured \in Nat /\ ed.dropped \in Nat /\ ed.published \in Nat /\ ed.failed \in Nat BY <1>9, Zenon
<1>26. /\ sv.received \in Nat /\ sv.invalid \in Nat /\ sv.enqueued \in Nat /\ sv.dropped \in Nat
       /\ sv.persisted \in Nat /\ sv.failures \in Nat
  BY <1>10, Zenon
<1>27. EdgeCounts(ed, sv, g)
  <2>1. ed.captured = ed.dropped + ed.published + ed.failed + Len(ed.buffer) + Len(ed.writing)
    BY <1>7, Zenon DEF EdgeCounts
  <2>2. ed.published = Count(f, Published) + (sv.dropped + sv.failures) BY <1>7, Zenon DEF EdgeCounts
  <2>3. ed.published = Count(g, Published) + (sv.dropped + sv.failures) BY <2>2, <1>21, Zenon
  <2> QED BY <2>1, <2>3, Zenon DEF EdgeCounts
<1>28. ServiceCounts(sv, g) BY <1>8, <1>23, Zenon DEF ServiceCounts
<1>29. Accounted(ed, sv, b, st, g)
  BY <1>3, <1>1, <1>2, <1>18, <1>19, <1>27, <1>28, <1>6, <1>11, <1>17, Zenon DEF Accounted, IngestTyped
<1> QED BY <1>29, Zenon
\* A captured event is buffered (observe).
LEMMA Buffered ==
  ASSUME NEW ed, NEW sv, NEW b, NEW st, NEW f, NEW g, NEW e,
         Accounted(ed, sv, b, st, f), f[e] = "none", Moves(f, g, e, "buffered")
  PROVE  Accounted([ed EXCEPT !.captured = ed.captured + 1, !.buffer = Append(ed.buffer, e)],
                   sv, b, st, g)
<1>1. ed \in EdgeRec BY Zenon DEF Accounted, IngestTyped
<1>2. sv \in ServiceRec BY Zenon DEF Accounted, IngestTyped
<1>3. b \in SUBSET Events /\ st \in [Events -> Nat] /\ f \in [Events -> Fates]
  BY Zenon DEF Accounted, IngestTyped
<1>4. /\ Line(ed.buffer, f, "buffered") /\ Line(ed.writing, f, "writing")
      /\ Line(sv.queue, f, "queued") /\ Line(sv.work, f, "storing")
      /\ Len(ed.writing) <= 1 /\ Len(sv.work) <= 1 /\ \A x \in b : f[x] = "bus"
  BY Zenon DEF Accounted, Lines
<1>5. Tries(sv.work, sv.attempt, st, f) BY Zenon DEF Accounted
<1>6. Subscriptions(sv) BY Zenon DEF Accounted
<1>7. EdgeCounts(ed, sv, f) BY Zenon DEF Accounted
<1>8. ServiceCounts(sv, f) BY Zenon DEF Accounted
<1>9. /\ ed.captured \in Nat /\ ed.dropped \in Nat /\ ed.published \in Nat /\ ed.failed \in Nat
      /\ ed.buffer \in Seq(Events) /\ ed.writing \in Seq(Events)
  BY <1>1, Zenon DEF EdgeRec
<1>10. /\ sv.received \in Nat /\ sv.invalid \in Nat /\ sv.enqueued \in Nat /\ sv.dropped \in Nat
      /\ sv.persisted \in Nat /\ sv.failures \in Nat /\ sv.attempt \in Nat
      /\ sv.queue \in Seq(Events) /\ sv.work \in Seq(Events)
  BY <1>2, Zenon DEF ServiceRec
<1>11. g \in [Events -> Fates] BY Zenon DEF Moves, Fates
<1>12. e \in Events BY Zenon DEF Moves
<1> DEFINE d == [ed EXCEPT !.captured = ed.captured + 1, !.buffer = Append(ed.buffer, e)]
<1>13. ed.captured + 1 \in Nat /\ Append(ed.buffer, e) \in Seq(Events) BY <1>9, <1>12
<1>14. d \in EdgeRec BY <1>1, <1>13, Zenon DEF EdgeRec
<1>15. d.captured = ed.captured + 1 /\ d.dropped = ed.dropped /\ d.published = ed.published
         /\ d.failed = ed.failed
  BY <1>1, Zenon DEF EdgeRec
<1>16. d.buffer = Append(ed.buffer, e) /\ d.writing = ed.writing BY <1>1, Zenon DEF EdgeRec
<1> HIDE DEF d
<1>17. Line(d.buffer, g, "buffered") /\ Len(d.buffer) = Len(ed.buffer) + 1 BY <1>4, <1>16, LineAppend
<1>18. Line(d.writing, g, "writing") /\ Len(d.writing) = Len(ed.writing) BY <1>4, <1>16, LineKept, Zenon
<1>19. Line(sv.queue, g, "queued") BY <1>4, LineKept, Zenon
<1>20. Line(sv.work, g, "storing") BY <1>4, LineKept, Zenon
<1>21. b \in SUBSET Events /\ \A x \in b : g[x] = "bus" BY <1>3, <1>4, <1>12, Zenon DEF Moves
<1>22. Lines(d, sv, b, g) BY <1>4, <1>16, <1>17, <1>18, <1>19, <1>20, <1>21, Zenon DEF Lines
<1>23. Tries(sv.work, sv.attempt, st, g) BY <1>3, <1>5, TriesMoved, Zenon
<1>24. f[e] \notin Published /\ "buffered" \notin Published BY Zenon DEF Published
<1>25. Count(g, Published) = Count(f, Published) BY ONLY Moves(f, g, e, "buffered"), <1>24, CountAside
<1>26. f[e] \notin InStore /\ "buffered" \notin InStore BY Zenon DEF InStore
<1>27. Count(g, InStore) = Count(f, InStore) BY ONLY Moves(f, g, e, "buffered"), <1>26, CountAside
<1>28. Count(f, Published) \in Nat /\ Count(f, InStore) \in Nat BY IngestSettings, CountNat, Zenon
<1>29. /\ Len(ed.buffer) \in Nat /\ Len(ed.writing) \in Nat
       /\ Len(sv.queue) \in Nat /\ Len(sv.work) \in Nat
  BY <1>9, <1>10, LenNat, Zenon
<1>30. Len(d.buffer) = Len(ed.buffer) + 1 /\ Len(d.writing) = Len(ed.writing) /\ Len(ed.buffer) \in Nat
         /\ Len(ed.writing) \in Nat
  BY <1>29, <1>16, <1>17, <1>18, Zenon
<1>31. ed.captured \in Nat /\ ed.dropped \in Nat /\ ed.published \in Nat /\ ed.failed \in Nat BY <1>9, Zenon
<1>32. /\ sv.received \in Nat /\ sv.invalid \in Nat /\ sv.enqueued \in Nat /\ sv.dropped \in Nat
       /\ sv.persisted \in Nat /\ sv.failures \in Nat
  BY <1>10, Zenon
<1>33. EdgeCounts(d, sv, g)
  <2>1. ed.captured = ed.dropped + ed.published + ed.failed + Len(ed.buffer) + Len(ed.writing)
    BY <1>7, Zenon DEF EdgeCounts
  <2>2. d.captured = d.dropped + d.published + d.failed + Len(d.buffer) + Len(d.writing)
    <3>1. PICK c \in Nat, r \in Nat, p \in Nat, x \in Nat, y \in Nat, z \in Nat :
            c = ed.captured /\ r = ed.dropped /\ p = ed.published /\ x = ed.failed /\ y = Len(ed.buffer)
              /\ z = Len(ed.writing)
      BY <1>31, <1>29, Zenon
    <3>2. c = r + p + x + y + z BY <3>1, <2>1, Zenon
    <3>3. c + 1 = r + p + x + (y + 1) + z
      BY ONLY <3>2, c \in Nat, r \in Nat, p \in Nat, x \in Nat, y \in Nat, z \in Nat
    <3> QED BY <3>1, <3>3, <1>15, <1>30, Zenon
  <2>3. ed.published = Count(f, Published) + (sv.dropped + sv.failures) BY <1>7, Zenon DEF EdgeCounts
  <2>4. d.published = Count(g, Published) + (sv.dropped + sv.failures) BY <2>3, <1>15, <1>25, Zenon
  <2> QED BY <2>2, <2>4, Zenon DEF EdgeCounts
<1>34. ServiceCounts(sv, g) BY <1>8, <1>27, Zenon DEF ServiceCounts
<1>35. Accounted(d, sv, b, st, g)
  BY <1>3, <1>14, <1>2, <1>22, <1>23, <1>33, <1>34, <1>6, <1>11, <1>21, Zenon DEF Accounted, IngestTyped
<1> QED BY <1>35, Zenon DEF d
\* A captured event is dropped (observe).
LEMMA BufferFull ==
  ASSUME NEW ed, NEW sv, NEW b, NEW st, NEW f, NEW g, NEW e,
         Accounted(ed, sv, b, st, f), f[e] = "none", Moves(f, g, e, "dropped")
  PROVE  Accounted([ed EXCEPT !.captured = ed.captured + 1, !.dropped = ed.dropped + 1],
                   sv, b, st, g)
<1>1. ed \in EdgeRec BY Zenon DEF Accounted, IngestTyped
<1>2. sv \in ServiceRec BY Zenon DEF Accounted, IngestTyped
<1>3. b \in SUBSET Events /\ st \in [Events -> Nat] /\ f \in [Events -> Fates]
  BY Zenon DEF Accounted, IngestTyped
<1>4. /\ Line(ed.buffer, f, "buffered") /\ Line(ed.writing, f, "writing")
      /\ Line(sv.queue, f, "queued") /\ Line(sv.work, f, "storing")
      /\ Len(ed.writing) <= 1 /\ Len(sv.work) <= 1 /\ \A x \in b : f[x] = "bus"
  BY Zenon DEF Accounted, Lines
<1>5. Tries(sv.work, sv.attempt, st, f) BY Zenon DEF Accounted
<1>6. Subscriptions(sv) BY Zenon DEF Accounted
<1>7. EdgeCounts(ed, sv, f) BY Zenon DEF Accounted
<1>8. ServiceCounts(sv, f) BY Zenon DEF Accounted
<1>9. /\ ed.captured \in Nat /\ ed.dropped \in Nat /\ ed.published \in Nat /\ ed.failed \in Nat
      /\ ed.buffer \in Seq(Events) /\ ed.writing \in Seq(Events)
  BY <1>1, Zenon DEF EdgeRec
<1>10. /\ sv.received \in Nat /\ sv.invalid \in Nat /\ sv.enqueued \in Nat /\ sv.dropped \in Nat
      /\ sv.persisted \in Nat /\ sv.failures \in Nat /\ sv.attempt \in Nat
      /\ sv.queue \in Seq(Events) /\ sv.work \in Seq(Events)
  BY <1>2, Zenon DEF ServiceRec
<1>11. g \in [Events -> Fates] BY Zenon DEF Moves, Fates
<1>12. e \in Events BY Zenon DEF Moves
<1> DEFINE d == [ed EXCEPT !.captured = ed.captured + 1, !.dropped = ed.dropped + 1]
<1>13. ed.captured + 1 \in Nat /\ ed.dropped + 1 \in Nat BY <1>9, <1>12
<1>14. d \in EdgeRec BY <1>1, <1>13, Zenon DEF EdgeRec
<1>15. d.captured = ed.captured + 1 /\ d.dropped = ed.dropped + 1 /\ d.published = ed.published
         /\ d.failed = ed.failed
  BY <1>1, Zenon DEF EdgeRec
<1>16. d.buffer = ed.buffer /\ d.writing = ed.writing BY <1>1, Zenon DEF EdgeRec
<1> HIDE DEF d
<1>17. Line(d.buffer, g, "buffered") /\ Len(d.buffer) = Len(ed.buffer) BY <1>4, <1>16, LineKept, Zenon
<1>18. Line(d.writing, g, "writing") /\ Len(d.writing) = Len(ed.writing) BY <1>4, <1>16, LineKept, Zenon
<1>19. Line(sv.queue, g, "queued") BY <1>4, LineKept, Zenon
<1>20. Line(sv.work, g, "storing") BY <1>4, LineKept, Zenon
<1>21. b \in SUBSET Events /\ \A x \in b : g[x] = "bus" BY <1>3, <1>4, <1>12, Zenon DEF Moves
<1>22. Lines(d, sv, b, g) BY <1>4, <1>16, <1>17, <1>18, <1>19, <1>20, <1>21, Zenon DEF Lines
<1>23. Tries(sv.work, sv.attempt, st, g) BY <1>3, <1>5, TriesMoved, Zenon
<1>24. f[e] \notin Published /\ "dropped" \notin Published BY Zenon DEF Published
<1>25. Count(g, Published) = Count(f, Published) BY ONLY Moves(f, g, e, "dropped"), <1>24, CountAside
<1>26. f[e] \notin InStore /\ "dropped" \notin InStore BY Zenon DEF InStore
<1>27. Count(g, InStore) = Count(f, InStore) BY ONLY Moves(f, g, e, "dropped"), <1>26, CountAside
<1>28. Count(f, Published) \in Nat /\ Count(f, InStore) \in Nat BY IngestSettings, CountNat, Zenon
<1>29. /\ Len(ed.buffer) \in Nat /\ Len(ed.writing) \in Nat
       /\ Len(sv.queue) \in Nat /\ Len(sv.work) \in Nat
  BY <1>9, <1>10, LenNat, Zenon
<1>30. Len(d.buffer) = Len(ed.buffer) /\ Len(d.writing) = Len(ed.writing) /\ Len(ed.buffer) \in Nat
         /\ Len(ed.writing) \in Nat
  BY <1>29, <1>16, <1>17, <1>18, Zenon
<1>31. ed.captured \in Nat /\ ed.dropped \in Nat /\ ed.published \in Nat /\ ed.failed \in Nat BY <1>9, Zenon
<1>32. /\ sv.received \in Nat /\ sv.invalid \in Nat /\ sv.enqueued \in Nat /\ sv.dropped \in Nat
       /\ sv.persisted \in Nat /\ sv.failures \in Nat
  BY <1>10, Zenon
<1>33. EdgeCounts(d, sv, g)
  <2>1. ed.captured = ed.dropped + ed.published + ed.failed + Len(ed.buffer) + Len(ed.writing)
    BY <1>7, Zenon DEF EdgeCounts
  <2>2. d.captured = d.dropped + d.published + d.failed + Len(d.buffer) + Len(d.writing)
    <3>1. PICK c \in Nat, r \in Nat, p \in Nat, x \in Nat, y \in Nat, z \in Nat :
            c = ed.captured /\ r = ed.dropped /\ p = ed.published /\ x = ed.failed /\ y = Len(ed.buffer)
              /\ z = Len(ed.writing)
      BY <1>31, <1>29, Zenon
    <3>2. c = r + p + x + y + z BY <3>1, <2>1, Zenon
    <3>3. c + 1 = (r + 1) + p + x + y + z
      BY ONLY <3>2, c \in Nat, r \in Nat, p \in Nat, x \in Nat, y \in Nat, z \in Nat
    <3> QED BY <3>1, <3>3, <1>15, <1>30, Zenon
  <2>3. ed.published = Count(f, Published) + (sv.dropped + sv.failures) BY <1>7, Zenon DEF EdgeCounts
  <2>4. d.published = Count(g, Published) + (sv.dropped + sv.failures) BY <2>3, <1>15, <1>25, Zenon
  <2> QED BY <2>2, <2>4, Zenon DEF EdgeCounts
<1>34. ServiceCounts(sv, g) BY <1>8, <1>27, Zenon DEF ServiceCounts
<1>35. Accounted(d, sv, b, st, g)
  BY <1>3, <1>14, <1>2, <1>22, <1>23, <1>33, <1>34, <1>6, <1>11, <1>21, Zenon DEF Accounted, IngestTyped
<1> QED BY <1>35, Zenon DEF d
\* The publisher takes the oldest (PublisherTakes).
LEMMA Fetched ==
  ASSUME NEW ed, NEW sv, NEW b, NEW st, NEW f, NEW g,
         Accounted(ed, sv, b, st, f), Moves(f, g, Head(ed.buffer), "writing"), ed.buffer # <<>>, ed.writing
           = <<>>
  PROVE  Accounted([ed EXCEPT !.writing = <<Head(ed.buffer)>>, !.buffer = Tail(ed.buffer)],
                   sv, b, st, g)
<1>0. PICK h : h = Head(ed.buffer) BY Zenon
<1>1. ed \in EdgeRec BY Zenon DEF Accounted, IngestTyped
<1>2. sv \in ServiceRec BY Zenon DEF Accounted, IngestTyped
<1>3. b \in SUBSET Events /\ st \in [Events -> Nat] /\ f \in [Events -> Fates]
  BY Zenon DEF Accounted, IngestTyped
<1>4. /\ Line(ed.buffer, f, "buffered") /\ Line(ed.writing, f, "writing")
      /\ Line(sv.queue, f, "queued") /\ Line(sv.work, f, "storing")
      /\ Len(ed.writing) <= 1 /\ Len(sv.work) <= 1 /\ \A x \in b : f[x] = "bus"
  BY Zenon DEF Accounted, Lines
<1>5. Tries(sv.work, sv.attempt, st, f) BY Zenon DEF Accounted
<1>6. Subscriptions(sv) BY Zenon DEF Accounted
<1>7. EdgeCounts(ed, sv, f) BY Zenon DEF Accounted
<1>8. ServiceCounts(sv, f) BY Zenon DEF Accounted
<1>9. /\ ed.captured \in Nat /\ ed.dropped \in Nat /\ ed.published \in Nat /\ ed.failed \in Nat
      /\ ed.buffer \in Seq(Events) /\ ed.writing \in Seq(Events)
  BY <1>1, Zenon DEF EdgeRec
<1>10. /\ sv.received \in Nat /\ sv.invalid \in Nat /\ sv.enqueued \in Nat /\ sv.dropped \in Nat
      /\ sv.persisted \in Nat /\ sv.failures \in Nat /\ sv.attempt \in Nat
      /\ sv.queue \in Seq(Events) /\ sv.work \in Seq(Events)
  BY <1>2, Zenon DEF ServiceRec
<1>11. h \in Events /\ f[h] = "buffered" /\ Len(ed.buffer) > 0 BY <1>0, <1>4, <1>9 DEF Line
<1>12. Moves(f, g, h, "writing") BY <1>0, Zenon
<1>13. g \in [Events -> Fates] BY <1>12, Zenon DEF Moves, Fates
<1> DEFINE d == [ed EXCEPT !.writing = <<Head(ed.buffer)>>, !.buffer = Tail(ed.buffer)]
<1>14. <<Head(ed.buffer)>> \in Seq(Events) /\ Tail(ed.buffer) \in Seq(Events) BY <1>9, <1>11, <1>0
<1>15. d \in EdgeRec BY <1>1, <1>14, Zenon DEF EdgeRec
<1>16. d.captured = ed.captured /\ d.dropped = ed.dropped /\ d.published = ed.published
         /\ d.failed = ed.failed
  BY <1>1, Zenon DEF EdgeRec
<1>17. d.buffer = Tail(ed.buffer) /\ d.writing = <<Head(ed.buffer)>> BY <1>1, Zenon DEF EdgeRec
<1> HIDE DEF d
<1>18. Line(ed.buffer, f, "buffered") /\ ed.buffer # <<>> BY <1>4, Zenon
<1>19. Line(Tail(ed.buffer), g, "buffered") /\ Len(Tail(ed.buffer)) = Len(ed.buffer) - 1
  BY ONLY <1>18, Moves(f, g, Head(ed.buffer), "writing"), LineTail, Zenon
<1>20. Line(d.buffer, g, "buffered") /\ Len(d.buffer) = Len(ed.buffer) - 1 BY <1>19, <1>17, Zenon
<1>21. Line(d.writing, g, "writing") /\ Len(d.writing) = 1 BY <1>0, <1>12, <1>17, LineOne, Zenon
<1>22. Line(sv.queue, g, "queued") BY <1>4, <1>11, <1>12, LineKept, Zenon
<1>23. Line(sv.work, g, "storing") BY <1>4, <1>11, <1>12, LineKept, Zenon
<1>24. b \in SUBSET Events /\ \A x \in b : g[x] = "bus" BY <1>3, <1>4, <1>11, <1>12, <1>0, Zenon DEF Moves
<1>25. Lines(d, sv, b, g) BY <1>4, <1>17, <1>20, <1>21, <1>22, <1>23, <1>24 DEF Lines
<1>26. Tries(sv.work, sv.attempt, st, g) BY <1>3, <1>5, <1>11, <1>12, TriesMoved, Zenon
<1>27. f[h] \notin Published /\ "writing" \notin Published BY <1>11, Zenon DEF Published
<1>28. Count(g, Published) = Count(f, Published) BY ONLY <1>12, <1>27, CountAside
<1>29. f[h] \notin InStore /\ "writing" \notin InStore BY <1>11, Zenon DEF InStore
<1>30. Count(g, InStore) = Count(f, InStore) BY ONLY <1>12, <1>29, CountAside
<1>31. Count(f, Published) \in Nat /\ Count(f, InStore) \in Nat BY IngestSettings, CountNat, Zenon
<1>32. /\ Len(ed.buffer) \in Nat /\ Len(ed.writing) \in Nat
       /\ Len(sv.queue) \in Nat /\ Len(sv.work) \in Nat
  BY <1>9, <1>10, LenNat, Zenon
<1>33. Len(ed.writing) = 0 OBVIOUS
<1>34. Len(d.buffer) = Len(ed.buffer) - 1 /\ Len(d.writing) = 1 /\ Len(ed.writing) = 0
         /\ Len(ed.buffer) \in Nat /\ Len(ed.writing) \in Nat
  BY <1>32, <1>17, <1>20, <1>21, <1>33, Zenon
<1>35. ed.captured \in Nat /\ ed.dropped \in Nat /\ ed.published \in Nat /\ ed.failed \in Nat BY <1>9, Zenon
<1>36. /\ sv.received \in Nat /\ sv.invalid \in Nat /\ sv.enqueued \in Nat /\ sv.dropped \in Nat
       /\ sv.persisted \in Nat /\ sv.failures \in Nat
  BY <1>10, Zenon
<1>37. EdgeCounts(d, sv, g)
  <2>1. ed.captured = ed.dropped + ed.published + ed.failed + Len(ed.buffer) + Len(ed.writing)
    BY <1>7, Zenon DEF EdgeCounts
  <2>2. d.captured = d.dropped + d.published + d.failed + Len(d.buffer) + Len(d.writing)
    <3>1. PICK c \in Nat, r \in Nat, p \in Nat, x \in Nat, y \in Nat, z \in Nat :
            c = ed.captured /\ r = ed.dropped /\ p = ed.published /\ x = ed.failed /\ y = Len(ed.buffer)
              /\ z = Len(ed.writing)
      BY <1>35, <1>32, Zenon
    <3>2. c = r + p + x + y + z BY <3>1, <2>1, Zenon
    <3>3. z = 0 BY <3>1, <1>16, <1>34, Zenon
    <3>4. c = r + p + x + (y - 1) + 1
      BY ONLY <3>2, <3>3, c \in Nat, r \in Nat, p \in Nat, x \in Nat, y \in Nat, z \in Nat
    <3> QED BY <3>1, <3>4, <1>16, <1>34, Zenon
  <2>3. ed.published = Count(f, Published) + (sv.dropped + sv.failures) BY <1>7, Zenon DEF EdgeCounts
  <2>4. d.published = Count(g, Published) + (sv.dropped + sv.failures) BY <2>3, <1>16, <1>28, Zenon
  <2> QED BY <2>2, <2>4, Zenon DEF EdgeCounts
<1>38. ServiceCounts(sv, g) BY <1>8, <1>30, Zenon DEF ServiceCounts
<1>39. Accounted(d, sv, b, st, g)
  BY <1>3, <1>15, <1>2, <1>25, <1>26, <1>37, <1>38, <1>6, <1>13, <1>24, Zenon DEF Accounted, IngestTyped
<1> QED BY <1>39, Zenon DEF d
\* Without a connection it is lost (publish).
LEMMA WrittenNowhere ==
  ASSUME NEW ed, NEW sv, NEW b, NEW st, NEW f, NEW g,
         Accounted(ed, sv, b, st, f), Moves(f, g, ed.writing[1], "lost"), ed.writing # <<>>
  PROVE  Accounted([ed EXCEPT !.writing = <<>>, !.published = ed.published + 1],
                   sv, b, st, g)
<1>0. PICK h : h = ed.writing[1] BY Zenon
<1>1. ed \in EdgeRec BY Zenon DEF Accounted, IngestTyped
<1>2. sv \in ServiceRec BY Zenon DEF Accounted, IngestTyped
<1>3. b \in SUBSET Events /\ st \in [Events -> Nat] /\ f \in [Events -> Fates]
  BY Zenon DEF Accounted, IngestTyped
<1>4. /\ Line(ed.buffer, f, "buffered") /\ Line(ed.writing, f, "writing")
      /\ Line(sv.queue, f, "queued") /\ Line(sv.work, f, "storing")
      /\ Len(ed.writing) <= 1 /\ Len(sv.work) <= 1 /\ \A x \in b : f[x] = "bus"
  BY Zenon DEF Accounted, Lines
<1>5. Tries(sv.work, sv.attempt, st, f) BY Zenon DEF Accounted
<1>6. Subscriptions(sv) BY Zenon DEF Accounted
<1>7. EdgeCounts(ed, sv, f) BY Zenon DEF Accounted
<1>8. ServiceCounts(sv, f) BY Zenon DEF Accounted
<1>9. /\ ed.captured \in Nat /\ ed.dropped \in Nat /\ ed.published \in Nat /\ ed.failed \in Nat
      /\ ed.buffer \in Seq(Events) /\ ed.writing \in Seq(Events)
  BY <1>1, Zenon DEF EdgeRec
<1>10. /\ sv.received \in Nat /\ sv.invalid \in Nat /\ sv.enqueued \in Nat /\ sv.dropped \in Nat
      /\ sv.persisted \in Nat /\ sv.failures \in Nat /\ sv.attempt \in Nat
      /\ sv.queue \in Seq(Events) /\ sv.work \in Seq(Events)
  BY <1>2, Zenon DEF ServiceRec
<1>11. h \in Events /\ f[h] = "writing" /\ Len(ed.writing) > 0 BY <1>0, <1>4, <1>9 DEF Line
<1>12. Moves(f, g, h, "lost") BY <1>0, Zenon
<1>13. g \in [Events -> Fates] BY <1>12, Zenon DEF Moves, Fates
<1> DEFINE d == [ed EXCEPT !.writing = <<>>, !.published = ed.published + 1]
<1>14. <<>> \in Seq(Events) /\ ed.published + 1 \in Nat BY <1>9, <1>11, <1>0
<1>15. d \in EdgeRec BY <1>1, <1>14, Zenon DEF EdgeRec
<1>16. d.captured = ed.captured /\ d.dropped = ed.dropped /\ d.published = ed.published + 1
         /\ d.failed = ed.failed
  BY <1>1, Zenon DEF EdgeRec
<1>17. d.buffer = ed.buffer /\ d.writing = <<>> BY <1>1, Zenon DEF EdgeRec
<1> HIDE DEF d
<1>18. Line(d.buffer, g, "buffered") /\ Len(d.buffer) = Len(ed.buffer)
  BY <1>4, <1>17, <1>11, <1>12, LineKept, Zenon
<1>19. Line(d.writing, g, "writing") /\ Len(d.writing) = 0 BY <1>17, LineNone, Zenon
<1>20. Line(sv.queue, g, "queued") BY <1>4, <1>11, <1>12, LineKept, Zenon
<1>21. Line(sv.work, g, "storing") BY <1>4, <1>11, <1>12, LineKept, Zenon
<1>22. b \in SUBSET Events /\ \A x \in b : g[x] = "bus" BY <1>3, <1>4, <1>11, <1>12, <1>0, Zenon DEF Moves
<1>23. Lines(d, sv, b, g) BY <1>4, <1>17, <1>18, <1>19, <1>20, <1>21, <1>22 DEF Lines
<1>24. Tries(sv.work, sv.attempt, st, g) BY <1>3, <1>5, <1>11, <1>12, TriesMoved, Zenon
<1>25. f[h] \notin Published /\ "lost" \in Published BY <1>11, Zenon DEF Published
<1>26. Count(g, Published) = Count(f, Published) + 1 BY ONLY <1>12, <1>25, CountGains
<1>27. f[h] \notin InStore /\ "lost" \notin InStore BY <1>11, Zenon DEF InStore
<1>28. Count(g, InStore) = Count(f, InStore) BY ONLY <1>12, <1>27, CountAside
<1>29. Count(f, Published) \in Nat /\ Count(f, InStore) \in Nat BY IngestSettings, CountNat, Zenon
<1>30. /\ Len(ed.buffer) \in Nat /\ Len(ed.writing) \in Nat
       /\ Len(sv.queue) \in Nat /\ Len(sv.work) \in Nat
  BY <1>9, <1>10, LenNat, Zenon
<1>31. PICK k \in Nat : k = Len(ed.writing) /\ k <= 1 /\ k > 0 BY <1>30, <1>4, <1>11, Zenon
<1>32. k = 1 BY <1>31, ExactlyOne, Zenon
<1>33. Len(ed.writing) = 1 BY <1>31, <1>32, Zenon
<1>34. Len(d.buffer) = Len(ed.buffer) /\ Len(d.writing) = 0 /\ Len(ed.writing) = 1 /\ Len(ed.buffer) \in Nat
         /\ Len(ed.writing) \in Nat
  BY <1>30, <1>17, <1>18, <1>19, <1>33, Zenon
<1>35. ed.captured \in Nat /\ ed.dropped \in Nat /\ ed.published \in Nat /\ ed.failed \in Nat BY <1>9, Zenon
<1>36. /\ sv.received \in Nat /\ sv.invalid \in Nat /\ sv.enqueued \in Nat /\ sv.dropped \in Nat
       /\ sv.persisted \in Nat /\ sv.failures \in Nat
  BY <1>10, Zenon
<1>37. EdgeCounts(d, sv, g)
  <2>1. ed.captured = ed.dropped + ed.published + ed.failed + Len(ed.buffer) + Len(ed.writing)
    BY <1>7, Zenon DEF EdgeCounts
  <2>2. d.captured = d.dropped + d.published + d.failed + Len(d.buffer) + Len(d.writing)
    <3>1. PICK c \in Nat, r \in Nat, p \in Nat, x \in Nat, y \in Nat, z \in Nat :
            c = ed.captured /\ r = ed.dropped /\ p = ed.published /\ x = ed.failed /\ y = Len(ed.buffer)
              /\ z = Len(ed.writing)
      BY <1>35, <1>30, Zenon
    <3>2. c = r + p + x + y + z BY <3>1, <2>1, Zenon
    <3>3. z = 1 BY <3>1, <1>16, <1>34, Zenon
    <3>4. c = r + (p + 1) + x + y + 0
      BY ONLY <3>2, <3>3, c \in Nat, r \in Nat, p \in Nat, x \in Nat, y \in Nat, z \in Nat
    <3> QED BY <3>1, <3>4, <1>16, <1>34, Zenon
  <2>3. ed.published = Count(f, Published) + (sv.dropped + sv.failures) BY <1>7, Zenon DEF EdgeCounts
  <2>4. d.published = Count(g, Published) + (sv.dropped + sv.failures)
    <3>1. PICK p \in Nat, c \in Nat, r \in Nat, x \in Nat :
            p = ed.published /\ c = Count(f, Published) /\ r = sv.dropped /\ x = sv.failures
      BY <1>35, <1>36, <1>29, Zenon
    <3>2. p = c + (r + x) BY <3>1, <2>3, Zenon
    <3>3. p + 1 = (c + 1) + (r + x)
      BY ONLY <3>2, p \in Nat, c \in Nat, r \in Nat, x \in Nat
    <3> QED BY <3>1, <3>3, <1>16, <1>26, Zenon
  <2> QED BY <2>2, <2>4, Zenon DEF EdgeCounts
<1>38. ServiceCounts(sv, g) BY <1>8, <1>28, Zenon DEF ServiceCounts
<1>39. Accounted(d, sv, b, st, g)
  BY <1>3, <1>15, <1>2, <1>23, <1>24, <1>37, <1>38, <1>6, <1>13, <1>22, Zenon DEF Accounted, IngestTyped
<1> QED BY <1>39, Zenon DEF d
\* It is on the bus (publish).
LEMMA Written ==
  ASSUME NEW ed, NEW sv, NEW b, NEW st, NEW f, NEW g,
         Accounted(ed, sv, b, st, f), Moves(f, g, ed.writing[1], "bus"), ed.writing # <<>>
  PROVE  Accounted([ed EXCEPT !.writing = <<>>, !.published = ed.published + 1],
                   sv, b \cup {ed.writing[1]}, st, g)
<1>0. PICK h : h = ed.writing[1] BY Zenon
<1>1. ed \in EdgeRec BY Zenon DEF Accounted, IngestTyped
<1>2. sv \in ServiceRec BY Zenon DEF Accounted, IngestTyped
<1>3. b \in SUBSET Events /\ st \in [Events -> Nat] /\ f \in [Events -> Fates]
  BY Zenon DEF Accounted, IngestTyped
<1>4. /\ Line(ed.buffer, f, "buffered") /\ Line(ed.writing, f, "writing")
      /\ Line(sv.queue, f, "queued") /\ Line(sv.work, f, "storing")
      /\ Len(ed.writing) <= 1 /\ Len(sv.work) <= 1 /\ \A x \in b : f[x] = "bus"
  BY Zenon DEF Accounted, Lines
<1>5. Tries(sv.work, sv.attempt, st, f) BY Zenon DEF Accounted
<1>6. Subscriptions(sv) BY Zenon DEF Accounted
<1>7. EdgeCounts(ed, sv, f) BY Zenon DEF Accounted
<1>8. ServiceCounts(sv, f) BY Zenon DEF Accounted
<1>9. /\ ed.captured \in Nat /\ ed.dropped \in Nat /\ ed.published \in Nat /\ ed.failed \in Nat
      /\ ed.buffer \in Seq(Events) /\ ed.writing \in Seq(Events)
  BY <1>1, Zenon DEF EdgeRec
<1>10. /\ sv.received \in Nat /\ sv.invalid \in Nat /\ sv.enqueued \in Nat /\ sv.dropped \in Nat
      /\ sv.persisted \in Nat /\ sv.failures \in Nat /\ sv.attempt \in Nat
      /\ sv.queue \in Seq(Events) /\ sv.work \in Seq(Events)
  BY <1>2, Zenon DEF ServiceRec
<1>11. h \in Events /\ f[h] = "writing" /\ Len(ed.writing) > 0 BY <1>0, <1>4, <1>9 DEF Line
<1>12. Moves(f, g, h, "bus") BY <1>0, Zenon
<1>13. g \in [Events -> Fates] BY <1>12, Zenon DEF Moves, Fates
<1> DEFINE d == [ed EXCEPT !.writing = <<>>, !.published = ed.published + 1]
<1>14. <<>> \in Seq(Events) /\ ed.published + 1 \in Nat BY <1>9, <1>11, <1>0
<1>15. d \in EdgeRec BY <1>1, <1>14, Zenon DEF EdgeRec
<1>16. d.captured = ed.captured /\ d.dropped = ed.dropped /\ d.published = ed.published + 1
         /\ d.failed = ed.failed
  BY <1>1, Zenon DEF EdgeRec
<1>17. d.buffer = ed.buffer /\ d.writing = <<>> BY <1>1, Zenon DEF EdgeRec
<1> HIDE DEF d
<1>18. Line(d.buffer, g, "buffered") /\ Len(d.buffer) = Len(ed.buffer)
  BY <1>4, <1>17, <1>11, <1>12, LineKept, Zenon
<1>19. Line(d.writing, g, "writing") /\ Len(d.writing) = 0 BY <1>17, LineNone, Zenon
<1>20. Line(sv.queue, g, "queued") BY <1>4, <1>11, <1>12, LineKept, Zenon
<1>21. Line(sv.work, g, "storing") BY <1>4, <1>11, <1>12, LineKept, Zenon
<1>22. b \cup {ed.writing[1]} \in SUBSET Events /\ \A x \in b \cup {ed.writing[1]} : g[x] = "bus"
  BY <1>3, <1>4, <1>11, <1>12, <1>0 DEF Moves
<1>23. Lines(d, sv, b \cup {ed.writing[1]}, g) BY <1>4, <1>17, <1>18, <1>19, <1>20, <1>21, <1>22 DEF Lines
<1>24. Tries(sv.work, sv.attempt, st, g) BY <1>3, <1>5, <1>11, <1>12, TriesMoved, Zenon
<1>25. f[h] \notin Published /\ "bus" \in Published BY <1>11, Zenon DEF Published
<1>26. Count(g, Published) = Count(f, Published) + 1 BY ONLY <1>12, <1>25, CountGains
<1>27. f[h] \notin InStore /\ "bus" \notin InStore BY <1>11, Zenon DEF InStore
<1>28. Count(g, InStore) = Count(f, InStore) BY ONLY <1>12, <1>27, CountAside
<1>29. Count(f, Published) \in Nat /\ Count(f, InStore) \in Nat BY IngestSettings, CountNat, Zenon
<1>30. /\ Len(ed.buffer) \in Nat /\ Len(ed.writing) \in Nat
       /\ Len(sv.queue) \in Nat /\ Len(sv.work) \in Nat
  BY <1>9, <1>10, LenNat, Zenon
<1>31. PICK k \in Nat : k = Len(ed.writing) /\ k <= 1 /\ k > 0 BY <1>30, <1>4, <1>11, Zenon
<1>32. k = 1 BY <1>31, ExactlyOne, Zenon
<1>33. Len(ed.writing) = 1 BY <1>31, <1>32, Zenon
<1>34. Len(d.buffer) = Len(ed.buffer) /\ Len(d.writing) = 0 /\ Len(ed.writing) = 1 /\ Len(ed.buffer) \in Nat
         /\ Len(ed.writing) \in Nat
  BY <1>30, <1>17, <1>18, <1>19, <1>33, Zenon
<1>35. ed.captured \in Nat /\ ed.dropped \in Nat /\ ed.published \in Nat /\ ed.failed \in Nat BY <1>9, Zenon
<1>36. /\ sv.received \in Nat /\ sv.invalid \in Nat /\ sv.enqueued \in Nat /\ sv.dropped \in Nat
       /\ sv.persisted \in Nat /\ sv.failures \in Nat
  BY <1>10, Zenon
<1>37. EdgeCounts(d, sv, g)
  <2>1. ed.captured = ed.dropped + ed.published + ed.failed + Len(ed.buffer) + Len(ed.writing)
    BY <1>7, Zenon DEF EdgeCounts
  <2>2. d.captured = d.dropped + d.published + d.failed + Len(d.buffer) + Len(d.writing)
    <3>1. PICK c \in Nat, r \in Nat, p \in Nat, x \in Nat, y \in Nat, z \in Nat :
            c = ed.captured /\ r = ed.dropped /\ p = ed.published /\ x = ed.failed /\ y = Len(ed.buffer)
              /\ z = Len(ed.writing)
      BY <1>35, <1>30, Zenon
    <3>2. c = r + p + x + y + z BY <3>1, <2>1, Zenon
    <3>3. z = 1 BY <3>1, <1>16, <1>34, Zenon
    <3>4. c = r + (p + 1) + x + y + 0
      BY ONLY <3>2, <3>3, c \in Nat, r \in Nat, p \in Nat, x \in Nat, y \in Nat, z \in Nat
    <3> QED BY <3>1, <3>4, <1>16, <1>34, Zenon
  <2>3. ed.published = Count(f, Published) + (sv.dropped + sv.failures) BY <1>7, Zenon DEF EdgeCounts
  <2>4. d.published = Count(g, Published) + (sv.dropped + sv.failures)
    <3>1. PICK p \in Nat, c \in Nat, r \in Nat, x \in Nat :
            p = ed.published /\ c = Count(f, Published) /\ r = sv.dropped /\ x = sv.failures
      BY <1>35, <1>36, <1>29, Zenon
    <3>2. p = c + (r + x) BY <3>1, <2>3, Zenon
    <3>3. p + 1 = (c + 1) + (r + x)
      BY ONLY <3>2, p \in Nat, c \in Nat, r \in Nat, x \in Nat
    <3> QED BY <3>1, <3>3, <1>16, <1>26, Zenon
  <2> QED BY <2>2, <2>4, Zenon DEF EdgeCounts
<1>38. ServiceCounts(sv, g) BY <1>8, <1>28, Zenon DEF ServiceCounts
<1>39. Accounted(d, sv, b \cup {ed.writing[1]}, st, g)
  BY <1>3, <1>15, <1>2, <1>23, <1>24, <1>37, <1>38, <1>6, <1>13, <1>22, Zenon DEF Accounted, IngestTyped
<1> QED BY <1>39, Zenon DEF d
\* The write fails (publish).
LEMMA NotWritten ==
  ASSUME NEW ed, NEW sv, NEW b, NEW st, NEW f, NEW g,
         Accounted(ed, sv, b, st, f), Moves(f, g, ed.writing[1], "failed"), ed.writing # <<>>
  PROVE  Accounted([ed EXCEPT !.writing = <<>>, !.failed = ed.failed + 1],
                   sv, b, st, g)
<1>0. PICK h : h = ed.writing[1] BY Zenon
<1>1. ed \in EdgeRec BY Zenon DEF Accounted, IngestTyped
<1>2. sv \in ServiceRec BY Zenon DEF Accounted, IngestTyped
<1>3. b \in SUBSET Events /\ st \in [Events -> Nat] /\ f \in [Events -> Fates]
  BY Zenon DEF Accounted, IngestTyped
<1>4. /\ Line(ed.buffer, f, "buffered") /\ Line(ed.writing, f, "writing")
      /\ Line(sv.queue, f, "queued") /\ Line(sv.work, f, "storing")
      /\ Len(ed.writing) <= 1 /\ Len(sv.work) <= 1 /\ \A x \in b : f[x] = "bus"
  BY Zenon DEF Accounted, Lines
<1>5. Tries(sv.work, sv.attempt, st, f) BY Zenon DEF Accounted
<1>6. Subscriptions(sv) BY Zenon DEF Accounted
<1>7. EdgeCounts(ed, sv, f) BY Zenon DEF Accounted
<1>8. ServiceCounts(sv, f) BY Zenon DEF Accounted
<1>9. /\ ed.captured \in Nat /\ ed.dropped \in Nat /\ ed.published \in Nat /\ ed.failed \in Nat
      /\ ed.buffer \in Seq(Events) /\ ed.writing \in Seq(Events)
  BY <1>1, Zenon DEF EdgeRec
<1>10. /\ sv.received \in Nat /\ sv.invalid \in Nat /\ sv.enqueued \in Nat /\ sv.dropped \in Nat
      /\ sv.persisted \in Nat /\ sv.failures \in Nat /\ sv.attempt \in Nat
      /\ sv.queue \in Seq(Events) /\ sv.work \in Seq(Events)
  BY <1>2, Zenon DEF ServiceRec
<1>11. h \in Events /\ f[h] = "writing" /\ Len(ed.writing) > 0 BY <1>0, <1>4, <1>9 DEF Line
<1>12. Moves(f, g, h, "failed") BY <1>0, Zenon
<1>13. g \in [Events -> Fates] BY <1>12, Zenon DEF Moves, Fates
<1> DEFINE d == [ed EXCEPT !.writing = <<>>, !.failed = ed.failed + 1]
<1>14. <<>> \in Seq(Events) /\ ed.failed + 1 \in Nat BY <1>9, <1>11, <1>0
<1>15. d \in EdgeRec BY <1>1, <1>14, Zenon DEF EdgeRec
<1>16. d.captured = ed.captured /\ d.dropped = ed.dropped /\ d.published = ed.published
         /\ d.failed = ed.failed + 1
  BY <1>1, Zenon DEF EdgeRec
<1>17. d.buffer = ed.buffer /\ d.writing = <<>> BY <1>1, Zenon DEF EdgeRec
<1> HIDE DEF d
<1>18. Line(d.buffer, g, "buffered") /\ Len(d.buffer) = Len(ed.buffer)
  BY <1>4, <1>17, <1>11, <1>12, LineKept, Zenon
<1>19. Line(d.writing, g, "writing") /\ Len(d.writing) = 0 BY <1>17, LineNone, Zenon
<1>20. Line(sv.queue, g, "queued") BY <1>4, <1>11, <1>12, LineKept, Zenon
<1>21. Line(sv.work, g, "storing") BY <1>4, <1>11, <1>12, LineKept, Zenon
<1>22. b \in SUBSET Events /\ \A x \in b : g[x] = "bus" BY <1>3, <1>4, <1>11, <1>12, <1>0, Zenon DEF Moves
<1>23. Lines(d, sv, b, g) BY <1>4, <1>17, <1>18, <1>19, <1>20, <1>21, <1>22 DEF Lines
<1>24. Tries(sv.work, sv.attempt, st, g) BY <1>3, <1>5, <1>11, <1>12, TriesMoved, Zenon
<1>25. f[h] \notin Published /\ "failed" \notin Published BY <1>11, Zenon DEF Published
<1>26. Count(g, Published) = Count(f, Published) BY ONLY <1>12, <1>25, CountAside
<1>27. f[h] \notin InStore /\ "failed" \notin InStore BY <1>11, Zenon DEF InStore
<1>28. Count(g, InStore) = Count(f, InStore) BY ONLY <1>12, <1>27, CountAside
<1>29. Count(f, Published) \in Nat /\ Count(f, InStore) \in Nat BY IngestSettings, CountNat, Zenon
<1>30. /\ Len(ed.buffer) \in Nat /\ Len(ed.writing) \in Nat
       /\ Len(sv.queue) \in Nat /\ Len(sv.work) \in Nat
  BY <1>9, <1>10, LenNat, Zenon
<1>31. PICK k \in Nat : k = Len(ed.writing) /\ k <= 1 /\ k > 0 BY <1>30, <1>4, <1>11, Zenon
<1>32. k = 1 BY <1>31, ExactlyOne, Zenon
<1>33. Len(ed.writing) = 1 BY <1>31, <1>32, Zenon
<1>34. Len(d.buffer) = Len(ed.buffer) /\ Len(d.writing) = 0 /\ Len(ed.writing) = 1 /\ Len(ed.buffer) \in Nat
         /\ Len(ed.writing) \in Nat
  BY <1>30, <1>17, <1>18, <1>19, <1>33, Zenon
<1>35. ed.captured \in Nat /\ ed.dropped \in Nat /\ ed.published \in Nat /\ ed.failed \in Nat BY <1>9, Zenon
<1>36. /\ sv.received \in Nat /\ sv.invalid \in Nat /\ sv.enqueued \in Nat /\ sv.dropped \in Nat
       /\ sv.persisted \in Nat /\ sv.failures \in Nat
  BY <1>10, Zenon
<1>37. EdgeCounts(d, sv, g)
  <2>1. ed.captured = ed.dropped + ed.published + ed.failed + Len(ed.buffer) + Len(ed.writing)
    BY <1>7, Zenon DEF EdgeCounts
  <2>2. d.captured = d.dropped + d.published + d.failed + Len(d.buffer) + Len(d.writing)
    <3>1. PICK c \in Nat, r \in Nat, p \in Nat, x \in Nat, y \in Nat, z \in Nat :
            c = ed.captured /\ r = ed.dropped /\ p = ed.published /\ x = ed.failed /\ y = Len(ed.buffer)
              /\ z = Len(ed.writing)
      BY <1>35, <1>30, Zenon
    <3>2. c = r + p + x + y + z BY <3>1, <2>1, Zenon
    <3>3. z = 1 BY <3>1, <1>16, <1>34, Zenon
    <3>4. c = r + p + (x + 1) + y + 0
      BY ONLY <3>2, <3>3, c \in Nat, r \in Nat, p \in Nat, x \in Nat, y \in Nat, z \in Nat
    <3> QED BY <3>1, <3>4, <1>16, <1>34, Zenon
  <2>3. ed.published = Count(f, Published) + (sv.dropped + sv.failures) BY <1>7, Zenon DEF EdgeCounts
  <2>4. d.published = Count(g, Published) + (sv.dropped + sv.failures) BY <2>3, <1>16, <1>26, Zenon
  <2> QED BY <2>2, <2>4, Zenon DEF EdgeCounts
<1>38. ServiceCounts(sv, g) BY <1>8, <1>28, Zenon DEF ServiceCounts
<1>39. Accounted(d, sv, b, st, g)
  BY <1>3, <1>15, <1>2, <1>23, <1>24, <1>37, <1>38, <1>6, <1>13, <1>22, Zenon DEF Accounted, IngestTyped
<1> QED BY <1>39, Zenon DEF d
\* The bus loses a message (BusLoses).
LEMMA BusLost ==
  ASSUME NEW ed, NEW sv, NEW b, NEW st, NEW f, NEW g, NEW e,
         Accounted(ed, sv, b, st, f), f[e] = "bus", Moves(f, g, e, "lost")
  PROVE  Accounted(ed,
                   sv, b \ {e}, st, g)
<1>1. ed \in EdgeRec BY Zenon DEF Accounted, IngestTyped
<1>2. sv \in ServiceRec BY Zenon DEF Accounted, IngestTyped
<1>3. b \in SUBSET Events /\ st \in [Events -> Nat] /\ f \in [Events -> Fates]
  BY Zenon DEF Accounted, IngestTyped
<1>4. /\ Line(ed.buffer, f, "buffered") /\ Line(ed.writing, f, "writing")
      /\ Line(sv.queue, f, "queued") /\ Line(sv.work, f, "storing")
      /\ Len(ed.writing) <= 1 /\ Len(sv.work) <= 1 /\ \A x \in b : f[x] = "bus"
  BY Zenon DEF Accounted, Lines
<1>5. Tries(sv.work, sv.attempt, st, f) BY Zenon DEF Accounted
<1>6. Subscriptions(sv) BY Zenon DEF Accounted
<1>7. EdgeCounts(ed, sv, f) BY Zenon DEF Accounted
<1>8. ServiceCounts(sv, f) BY Zenon DEF Accounted
<1>9. /\ ed.captured \in Nat /\ ed.dropped \in Nat /\ ed.published \in Nat /\ ed.failed \in Nat
      /\ ed.buffer \in Seq(Events) /\ ed.writing \in Seq(Events)
  BY <1>1, Zenon DEF EdgeRec
<1>10. /\ sv.received \in Nat /\ sv.invalid \in Nat /\ sv.enqueued \in Nat /\ sv.dropped \in Nat
      /\ sv.persisted \in Nat /\ sv.failures \in Nat /\ sv.attempt \in Nat
      /\ sv.queue \in Seq(Events) /\ sv.work \in Seq(Events)
  BY <1>2, Zenon DEF ServiceRec
<1>11. g \in [Events -> Fates] BY Zenon DEF Moves, Fates
<1>12. e \in Events BY Zenon DEF Moves
<1>13. Line(ed.buffer, g, "buffered") BY <1>4, LineKept, Zenon
<1>14. Line(ed.writing, g, "writing") BY <1>4, LineKept, Zenon
<1>15. Line(sv.queue, g, "queued") BY <1>4, LineKept, Zenon
<1>16. Line(sv.work, g, "storing") BY <1>4, LineKept, Zenon
<1>17. b \ {e} \in SUBSET Events /\ \A x \in b \ {e} : g[x] = "bus" BY <1>3, <1>4, <1>12, Zenon DEF Moves
<1>18. Lines(ed, sv, b \ {e}, g) BY <1>4, <1>13, <1>14, <1>15, <1>16, <1>17, Zenon DEF Lines
<1>19. Tries(sv.work, sv.attempt, st, g) BY <1>3, <1>5, TriesMoved, Zenon
<1>20. f[e] \in Published /\ "lost" \in Published BY Zenon DEF Published
<1>21. Count(g, Published) = Count(f, Published) BY ONLY Moves(f, g, e, "lost"), <1>20, CountWithin
<1>22. f[e] \notin InStore /\ "lost" \notin InStore BY Zenon DEF InStore
<1>23. Count(g, InStore) = Count(f, InStore) BY ONLY Moves(f, g, e, "lost"), <1>22, CountAside
<1>24. Count(f, Published) \in Nat /\ Count(f, InStore) \in Nat BY IngestSettings, CountNat, Zenon
<1>25. ed.captured \in Nat /\ ed.dropped \in Nat /\ ed.published \in Nat /\ ed.failed \in Nat BY <1>9, Zenon
<1>26. /\ sv.received \in Nat /\ sv.invalid \in Nat /\ sv.enqueued \in Nat /\ sv.dropped \in Nat
       /\ sv.persisted \in Nat /\ sv.failures \in Nat
  BY <1>10, Zenon
<1>27. EdgeCounts(ed, sv, g)
  <2>1. ed.captured = ed.dropped + ed.published + ed.failed + Len(ed.buffer) + Len(ed.writing)
    BY <1>7, Zenon DEF EdgeCounts
  <2>2. ed.published = Count(f, Published) + (sv.dropped + sv.failures) BY <1>7, Zenon DEF EdgeCounts
  <2>3. ed.published = Count(g, Published) + (sv.dropped + sv.failures) BY <2>2, <1>21, Zenon
  <2> QED BY <2>1, <2>3, Zenon DEF EdgeCounts
<1>28. ServiceCounts(sv, g) BY <1>8, <1>23, Zenon DEF ServiceCounts
<1>29. Accounted(ed, sv, b \ {e}, st, g)
  BY <1>3, <1>1, <1>2, <1>18, <1>19, <1>27, <1>28, <1>6, <1>11, <1>17, Zenon DEF Accounted, IngestTyped
<1> QED BY <1>29, Zenon
\* The service cannot decode it (Deliver).
LEMMA Undecodable ==
  ASSUME NEW ed, NEW sv, NEW b, NEW st, NEW f, NEW g, NEW e,
         Accounted(ed, sv, b, st, f), f[e] = "bus", Moves(f, g, e, "invalid")
  PROVE  Accounted(ed,
                   [sv EXCEPT !.received = sv.received + 1, !.invalid = sv.invalid + 1], b \ {e}, st, g)
<1>1. ed \in EdgeRec BY Zenon DEF Accounted, IngestTyped
<1>2. sv \in ServiceRec BY Zenon DEF Accounted, IngestTyped
<1>3. b \in SUBSET Events /\ st \in [Events -> Nat] /\ f \in [Events -> Fates]
  BY Zenon DEF Accounted, IngestTyped
<1>4. /\ Line(ed.buffer, f, "buffered") /\ Line(ed.writing, f, "writing")
      /\ Line(sv.queue, f, "queued") /\ Line(sv.work, f, "storing")
      /\ Len(ed.writing) <= 1 /\ Len(sv.work) <= 1 /\ \A x \in b : f[x] = "bus"
  BY Zenon DEF Accounted, Lines
<1>5. Tries(sv.work, sv.attempt, st, f) BY Zenon DEF Accounted
<1>6. Subscriptions(sv) BY Zenon DEF Accounted
<1>7. EdgeCounts(ed, sv, f) BY Zenon DEF Accounted
<1>8. ServiceCounts(sv, f) BY Zenon DEF Accounted
<1>9. /\ ed.captured \in Nat /\ ed.dropped \in Nat /\ ed.published \in Nat /\ ed.failed \in Nat
      /\ ed.buffer \in Seq(Events) /\ ed.writing \in Seq(Events)
  BY <1>1, Zenon DEF EdgeRec
<1>10. /\ sv.received \in Nat /\ sv.invalid \in Nat /\ sv.enqueued \in Nat /\ sv.dropped \in Nat
      /\ sv.persisted \in Nat /\ sv.failures \in Nat /\ sv.attempt \in Nat
      /\ sv.queue \in Seq(Events) /\ sv.work \in Seq(Events)
  BY <1>2, Zenon DEF ServiceRec
<1>11. g \in [Events -> Fates] BY Zenon DEF Moves, Fates
<1>12. e \in Events BY Zenon DEF Moves
<1> DEFINE t == [sv EXCEPT !.received = sv.received + 1, !.invalid = sv.invalid + 1]
<1>13. sv.received + 1 \in Nat /\ sv.invalid + 1 \in Nat BY <1>10, <1>12
<1>14. t \in ServiceRec BY <1>2, <1>13, Zenon DEF ServiceRec
<1>15. t.received = sv.received + 1 /\ t.invalid = sv.invalid + 1 /\ t.enqueued = sv.enqueued
  BY <1>2, Zenon DEF ServiceRec
<1>16. t.dropped = sv.dropped /\ t.persisted = sv.persisted /\ t.failures = sv.failures
  BY <1>2, Zenon DEF ServiceRec
<1>17. t.queue = sv.queue /\ t.work = sv.work /\ t.attempt = sv.attempt BY <1>2, Zenon DEF ServiceRec
<1>18. t.subs = sv.subs /\ t.refreshers = sv.refreshers /\ t.subscribed = sv.subscribed
         /\ t.subscriberUp = sv.subscriberUp
  BY <1>2, Zenon DEF ServiceRec
<1> HIDE DEF t
<1>19. Line(ed.buffer, g, "buffered") BY <1>4, LineKept, Zenon
<1>20. Line(ed.writing, g, "writing") BY <1>4, LineKept, Zenon
<1>21. Line(t.queue, g, "queued") /\ Len(t.queue) = Len(sv.queue) BY <1>4, <1>17, LineKept, Zenon
<1>22. Line(t.work, g, "storing") /\ Len(t.work) = Len(sv.work) BY <1>4, <1>17, LineKept, Zenon
<1>23. b \ {e} \in SUBSET Events /\ \A x \in b \ {e} : g[x] = "bus" BY <1>3, <1>4, <1>12, Zenon DEF Moves
<1>24. Lines(ed, t, b \ {e}, g) BY <1>4, <1>17, <1>19, <1>20, <1>21, <1>22, <1>23, Zenon DEF Lines
<1>25. Tries(sv.work, sv.attempt, st, g) BY <1>3, <1>5, TriesMoved, Zenon
<1>26. Tries(t.work, t.attempt, st, g) BY <1>25, <1>17, Zenon
<1>27. f[e] \in Published /\ "invalid" \in Published BY Zenon DEF Published
<1>28. Count(g, Published) = Count(f, Published) BY ONLY Moves(f, g, e, "invalid"), <1>27, CountWithin
<1>29. f[e] \notin InStore /\ "invalid" \notin InStore BY Zenon DEF InStore
<1>30. Count(g, InStore) = Count(f, InStore) BY ONLY Moves(f, g, e, "invalid"), <1>29, CountAside
<1>31. Count(f, Published) \in Nat /\ Count(f, InStore) \in Nat BY IngestSettings, CountNat, Zenon
<1>32. /\ Len(ed.buffer) \in Nat /\ Len(ed.writing) \in Nat
       /\ Len(sv.queue) \in Nat /\ Len(sv.work) \in Nat
  BY <1>9, <1>10, LenNat, Zenon
<1>33. Len(t.queue) = Len(sv.queue) /\ Len(t.work) = Len(sv.work) /\ Len(sv.queue) \in Nat
         /\ Len(sv.work) \in Nat
  BY <1>32, <1>17, <1>21, <1>22, Zenon
<1>34. ed.captured \in Nat /\ ed.dropped \in Nat /\ ed.published \in Nat /\ ed.failed \in Nat BY <1>9, Zenon
<1>35. /\ sv.received \in Nat /\ sv.invalid \in Nat /\ sv.enqueued \in Nat /\ sv.dropped \in Nat
       /\ sv.persisted \in Nat /\ sv.failures \in Nat
  BY <1>10, Zenon
<1>36. EdgeCounts(ed, t, g)
  <2>1. ed.captured = ed.dropped + ed.published + ed.failed + Len(ed.buffer) + Len(ed.writing)
    BY <1>7, Zenon DEF EdgeCounts
  <2>2. ed.published = Count(f, Published) + (sv.dropped + sv.failures) BY <1>7, Zenon DEF EdgeCounts
  <2>3. ed.published = Count(g, Published) + (t.dropped + t.failures) BY <2>2, <1>15, <1>16, <1>28, Zenon
  <2> QED BY <2>1, <2>3, Zenon DEF EdgeCounts
<1>37. ServiceCounts(t, g)
  <2>1. sv.received = sv.invalid + sv.enqueued + sv.dropped BY <1>8, Zenon DEF ServiceCounts
  <2>2. t.received = t.invalid + t.enqueued + t.dropped
    <3>1. PICK c \in Nat, r \in Nat, p \in Nat, x \in Nat :
            c = sv.received /\ r = sv.invalid /\ p = sv.enqueued /\ x = sv.dropped
      BY <1>35, Zenon
    <3>2. c = r + p + x BY <3>1, <2>1, Zenon
    <3>3. c + 1 = (r + 1) + p + x
      BY ONLY <3>2, c \in Nat, r \in Nat, p \in Nat, x \in Nat
    <3> QED BY <3>1, <3>3, <1>15, <1>16, Zenon
  <2>3. sv.enqueued = sv.persisted + sv.failures + Len(sv.queue) + Len(sv.work)
    BY <1>8, Zenon DEF ServiceCounts
  <2>4. t.enqueued = t.persisted + t.failures + Len(t.queue) + Len(t.work)
    <3>1. PICK c \in Nat, r \in Nat, p \in Nat, y \in Nat, z \in Nat :
            c = sv.enqueued /\ r = sv.persisted /\ p = sv.failures /\ y = Len(sv.queue) /\ z = Len(sv.work)
      BY <1>35, <1>32, Zenon
    <3>2. c = r + p + y + z BY <3>1, <2>3, Zenon
    <3>3. c = r + p + y + z
      BY ONLY <3>2, c \in Nat, r \in Nat, p \in Nat, y \in Nat, z \in Nat, Zenon
    <3> QED BY <3>1, <3>3, <1>15, <1>16, <1>33, Zenon
  <2>5. sv.persisted = Count(f, InStore) BY <1>8, Zenon DEF ServiceCounts
  <2>6. t.persisted = Count(g, InStore) BY <2>5, <1>15, <1>16, <1>30, Zenon
  <2> QED BY <2>2, <2>4, <2>6, Zenon DEF ServiceCounts
<1>38. Subscriptions(t) BY <1>6, <1>18, Zenon DEF Subscriptions
<1>39. Accounted(ed, t, b \ {e}, st, g)
  BY <1>3, <1>1, <1>14, <1>24, <1>26, <1>36, <1>37, <1>38, <1>11, <1>23, Zenon DEF Accounted, IngestTyped
<1> QED BY <1>39, Zenon DEF t
\* The service queues it (Deliver).
LEMMA Enqueued ==
  ASSUME NEW ed, NEW sv, NEW b, NEW st, NEW f, NEW g, NEW e,
         Accounted(ed, sv, b, st, f), f[e] = "bus", Moves(f, g, e, "queued")
  PROVE  Accounted(ed,
                   [sv EXCEPT !.received = sv.received + 1, !.enqueued = sv.enqueued + 1,
                     !.queue = Append(sv.queue, e)], b \ {e}, st, g)
<1>1. ed \in EdgeRec BY Zenon DEF Accounted, IngestTyped
<1>2. sv \in ServiceRec BY Zenon DEF Accounted, IngestTyped
<1>3. b \in SUBSET Events /\ st \in [Events -> Nat] /\ f \in [Events -> Fates]
  BY Zenon DEF Accounted, IngestTyped
<1>4. /\ Line(ed.buffer, f, "buffered") /\ Line(ed.writing, f, "writing")
      /\ Line(sv.queue, f, "queued") /\ Line(sv.work, f, "storing")
      /\ Len(ed.writing) <= 1 /\ Len(sv.work) <= 1 /\ \A x \in b : f[x] = "bus"
  BY Zenon DEF Accounted, Lines
<1>5. Tries(sv.work, sv.attempt, st, f) BY Zenon DEF Accounted
<1>6. Subscriptions(sv) BY Zenon DEF Accounted
<1>7. EdgeCounts(ed, sv, f) BY Zenon DEF Accounted
<1>8. ServiceCounts(sv, f) BY Zenon DEF Accounted
<1>9. /\ ed.captured \in Nat /\ ed.dropped \in Nat /\ ed.published \in Nat /\ ed.failed \in Nat
      /\ ed.buffer \in Seq(Events) /\ ed.writing \in Seq(Events)
  BY <1>1, Zenon DEF EdgeRec
<1>10. /\ sv.received \in Nat /\ sv.invalid \in Nat /\ sv.enqueued \in Nat /\ sv.dropped \in Nat
      /\ sv.persisted \in Nat /\ sv.failures \in Nat /\ sv.attempt \in Nat
      /\ sv.queue \in Seq(Events) /\ sv.work \in Seq(Events)
  BY <1>2, Zenon DEF ServiceRec
<1>11. g \in [Events -> Fates] BY Zenon DEF Moves, Fates
<1>12. e \in Events BY Zenon DEF Moves
<1> DEFINE t == [sv EXCEPT !.received = sv.received + 1, !.enqueued = sv.enqueued + 1,
      !.queue = Append(sv.queue, e)]
<1>13. sv.received + 1 \in Nat /\ sv.enqueued + 1 \in Nat /\ Append(sv.queue, e) \in Seq(Events)
  BY <1>10, <1>12
<1>14. t \in ServiceRec BY <1>2, <1>13, Zenon DEF ServiceRec
<1>15. t.received = sv.received + 1 /\ t.invalid = sv.invalid /\ t.enqueued = sv.enqueued + 1
  BY <1>2, Zenon DEF ServiceRec
<1>16. t.dropped = sv.dropped /\ t.persisted = sv.persisted /\ t.failures = sv.failures
  BY <1>2, Zenon DEF ServiceRec
<1>17. t.queue = Append(sv.queue, e) /\ t.work = sv.work /\ t.attempt = sv.attempt
  BY <1>2, Zenon DEF ServiceRec
<1>18. t.subs = sv.subs /\ t.refreshers = sv.refreshers /\ t.subscribed = sv.subscribed
         /\ t.subscriberUp = sv.subscriberUp
  BY <1>2, Zenon DEF ServiceRec
<1> HIDE DEF t
<1>19. Line(ed.buffer, g, "buffered") BY <1>4, LineKept, Zenon
<1>20. Line(ed.writing, g, "writing") BY <1>4, LineKept, Zenon
<1>21. Line(t.queue, g, "queued") /\ Len(t.queue) = Len(sv.queue) + 1 BY <1>4, <1>17, LineAppend
<1>22. Line(t.work, g, "storing") /\ Len(t.work) = Len(sv.work) BY <1>4, <1>17, LineKept, Zenon
<1>23. b \ {e} \in SUBSET Events /\ \A x \in b \ {e} : g[x] = "bus" BY <1>3, <1>4, <1>12, Zenon DEF Moves
<1>24. Lines(ed, t, b \ {e}, g) BY <1>4, <1>17, <1>19, <1>20, <1>21, <1>22, <1>23, Zenon DEF Lines
<1>25. Tries(sv.work, sv.attempt, st, g) BY <1>3, <1>5, TriesMoved, Zenon
<1>26. Tries(t.work, t.attempt, st, g) BY <1>25, <1>17, Zenon
<1>27. f[e] \in Published /\ "queued" \in Published BY Zenon DEF Published
<1>28. Count(g, Published) = Count(f, Published) BY ONLY Moves(f, g, e, "queued"), <1>27, CountWithin
<1>29. f[e] \notin InStore /\ "queued" \notin InStore BY Zenon DEF InStore
<1>30. Count(g, InStore) = Count(f, InStore) BY ONLY Moves(f, g, e, "queued"), <1>29, CountAside
<1>31. Count(f, Published) \in Nat /\ Count(f, InStore) \in Nat BY IngestSettings, CountNat, Zenon
<1>32. /\ Len(ed.buffer) \in Nat /\ Len(ed.writing) \in Nat
       /\ Len(sv.queue) \in Nat /\ Len(sv.work) \in Nat
  BY <1>9, <1>10, LenNat, Zenon
<1>33. Len(t.queue) = Len(sv.queue) + 1 /\ Len(t.work) = Len(sv.work) /\ Len(sv.queue) \in Nat
         /\ Len(sv.work) \in Nat
  BY <1>32, <1>17, <1>21, <1>22, Zenon
<1>34. ed.captured \in Nat /\ ed.dropped \in Nat /\ ed.published \in Nat /\ ed.failed \in Nat BY <1>9, Zenon
<1>35. /\ sv.received \in Nat /\ sv.invalid \in Nat /\ sv.enqueued \in Nat /\ sv.dropped \in Nat
       /\ sv.persisted \in Nat /\ sv.failures \in Nat
  BY <1>10, Zenon
<1>36. EdgeCounts(ed, t, g)
  <2>1. ed.captured = ed.dropped + ed.published + ed.failed + Len(ed.buffer) + Len(ed.writing)
    BY <1>7, Zenon DEF EdgeCounts
  <2>2. ed.published = Count(f, Published) + (sv.dropped + sv.failures) BY <1>7, Zenon DEF EdgeCounts
  <2>3. ed.published = Count(g, Published) + (t.dropped + t.failures) BY <2>2, <1>15, <1>16, <1>28, Zenon
  <2> QED BY <2>1, <2>3, Zenon DEF EdgeCounts
<1>37. ServiceCounts(t, g)
  <2>1. sv.received = sv.invalid + sv.enqueued + sv.dropped BY <1>8, Zenon DEF ServiceCounts
  <2>2. t.received = t.invalid + t.enqueued + t.dropped
    <3>1. PICK c \in Nat, r \in Nat, p \in Nat, x \in Nat :
            c = sv.received /\ r = sv.invalid /\ p = sv.enqueued /\ x = sv.dropped
      BY <1>35, Zenon
    <3>2. c = r + p + x BY <3>1, <2>1, Zenon
    <3>3. c + 1 = r + (p + 1) + x
      BY ONLY <3>2, c \in Nat, r \in Nat, p \in Nat, x \in Nat
    <3> QED BY <3>1, <3>3, <1>15, <1>16, Zenon
  <2>3. sv.enqueued = sv.persisted + sv.failures + Len(sv.queue) + Len(sv.work)
    BY <1>8, Zenon DEF ServiceCounts
  <2>4. t.enqueued = t.persisted + t.failures + Len(t.queue) + Len(t.work)
    <3>1. PICK c \in Nat, r \in Nat, p \in Nat, y \in Nat, z \in Nat :
            c = sv.enqueued /\ r = sv.persisted /\ p = sv.failures /\ y = Len(sv.queue) /\ z = Len(sv.work)
      BY <1>35, <1>32, Zenon
    <3>2. c = r + p + y + z BY <3>1, <2>3, Zenon
    <3>3. c + 1 = r + p + (y + 1) + z
      BY ONLY <3>2, c \in Nat, r \in Nat, p \in Nat, y \in Nat, z \in Nat
    <3> QED BY <3>1, <3>3, <1>15, <1>16, <1>33, Zenon
  <2>5. sv.persisted = Count(f, InStore) BY <1>8, Zenon DEF ServiceCounts
  <2>6. t.persisted = Count(g, InStore) BY <2>5, <1>15, <1>16, <1>30, Zenon
  <2> QED BY <2>2, <2>4, <2>6, Zenon DEF ServiceCounts
<1>38. Subscriptions(t) BY <1>6, <1>18, Zenon DEF Subscriptions
<1>39. Accounted(ed, t, b \ {e}, st, g)
  BY <1>3, <1>1, <1>14, <1>24, <1>26, <1>36, <1>37, <1>38, <1>11, <1>23, Zenon DEF Accounted, IngestTyped
<1> QED BY <1>39, Zenon DEF t
\* The service has no room for it (Deliver).
LEMMA QueueFull ==
  ASSUME NEW ed, NEW sv, NEW b, NEW st, NEW f, NEW g, NEW e,
         Accounted(ed, sv, b, st, f), f[e] = "bus", Moves(f, g, e, "dropped")
  PROVE  Accounted(ed,
                   [sv EXCEPT !.received = sv.received + 1, !.dropped = sv.dropped + 1], b \ {e}, st, g)
<1>1. ed \in EdgeRec BY Zenon DEF Accounted, IngestTyped
<1>2. sv \in ServiceRec BY Zenon DEF Accounted, IngestTyped
<1>3. b \in SUBSET Events /\ st \in [Events -> Nat] /\ f \in [Events -> Fates]
  BY Zenon DEF Accounted, IngestTyped
<1>4. /\ Line(ed.buffer, f, "buffered") /\ Line(ed.writing, f, "writing")
      /\ Line(sv.queue, f, "queued") /\ Line(sv.work, f, "storing")
      /\ Len(ed.writing) <= 1 /\ Len(sv.work) <= 1 /\ \A x \in b : f[x] = "bus"
  BY Zenon DEF Accounted, Lines
<1>5. Tries(sv.work, sv.attempt, st, f) BY Zenon DEF Accounted
<1>6. Subscriptions(sv) BY Zenon DEF Accounted
<1>7. EdgeCounts(ed, sv, f) BY Zenon DEF Accounted
<1>8. ServiceCounts(sv, f) BY Zenon DEF Accounted
<1>9. /\ ed.captured \in Nat /\ ed.dropped \in Nat /\ ed.published \in Nat /\ ed.failed \in Nat
      /\ ed.buffer \in Seq(Events) /\ ed.writing \in Seq(Events)
  BY <1>1, Zenon DEF EdgeRec
<1>10. /\ sv.received \in Nat /\ sv.invalid \in Nat /\ sv.enqueued \in Nat /\ sv.dropped \in Nat
      /\ sv.persisted \in Nat /\ sv.failures \in Nat /\ sv.attempt \in Nat
      /\ sv.queue \in Seq(Events) /\ sv.work \in Seq(Events)
  BY <1>2, Zenon DEF ServiceRec
<1>11. g \in [Events -> Fates] BY Zenon DEF Moves, Fates
<1>12. e \in Events BY Zenon DEF Moves
<1> DEFINE t == [sv EXCEPT !.received = sv.received + 1, !.dropped = sv.dropped + 1]
<1>13. sv.received + 1 \in Nat /\ sv.dropped + 1 \in Nat BY <1>10, <1>12
<1>14. t \in ServiceRec BY <1>2, <1>13, Zenon DEF ServiceRec
<1>15. t.received = sv.received + 1 /\ t.invalid = sv.invalid /\ t.enqueued = sv.enqueued
  BY <1>2, Zenon DEF ServiceRec
<1>16. t.dropped = sv.dropped + 1 /\ t.persisted = sv.persisted /\ t.failures = sv.failures
  BY <1>2, Zenon DEF ServiceRec
<1>17. t.queue = sv.queue /\ t.work = sv.work /\ t.attempt = sv.attempt BY <1>2, Zenon DEF ServiceRec
<1>18. t.subs = sv.subs /\ t.refreshers = sv.refreshers /\ t.subscribed = sv.subscribed
         /\ t.subscriberUp = sv.subscriberUp
  BY <1>2, Zenon DEF ServiceRec
<1> HIDE DEF t
<1>19. Line(ed.buffer, g, "buffered") BY <1>4, LineKept, Zenon
<1>20. Line(ed.writing, g, "writing") BY <1>4, LineKept, Zenon
<1>21. Line(t.queue, g, "queued") /\ Len(t.queue) = Len(sv.queue) BY <1>4, <1>17, LineKept, Zenon
<1>22. Line(t.work, g, "storing") /\ Len(t.work) = Len(sv.work) BY <1>4, <1>17, LineKept, Zenon
<1>23. b \ {e} \in SUBSET Events /\ \A x \in b \ {e} : g[x] = "bus" BY <1>3, <1>4, <1>12, Zenon DEF Moves
<1>24. Lines(ed, t, b \ {e}, g) BY <1>4, <1>17, <1>19, <1>20, <1>21, <1>22, <1>23, Zenon DEF Lines
<1>25. Tries(sv.work, sv.attempt, st, g) BY <1>3, <1>5, TriesMoved, Zenon
<1>26. Tries(t.work, t.attempt, st, g) BY <1>25, <1>17, Zenon
<1>27. f[e] \in Published /\ "dropped" \notin Published BY Zenon DEF Published
<1>28. Count(g, Published) = Count(f, Published) - 1 BY ONLY Moves(f, g, e, "dropped"), <1>27, CountLoses
<1>29. f[e] \notin InStore /\ "dropped" \notin InStore BY Zenon DEF InStore
<1>30. Count(g, InStore) = Count(f, InStore) BY ONLY Moves(f, g, e, "dropped"), <1>29, CountAside
<1>31. Count(f, Published) \in Nat /\ Count(f, InStore) \in Nat BY IngestSettings, CountNat, Zenon
<1>32. /\ Len(ed.buffer) \in Nat /\ Len(ed.writing) \in Nat
       /\ Len(sv.queue) \in Nat /\ Len(sv.work) \in Nat
  BY <1>9, <1>10, LenNat, Zenon
<1>33. Len(t.queue) = Len(sv.queue) /\ Len(t.work) = Len(sv.work) /\ Len(sv.queue) \in Nat
         /\ Len(sv.work) \in Nat
  BY <1>32, <1>17, <1>21, <1>22, Zenon
<1>34. ed.captured \in Nat /\ ed.dropped \in Nat /\ ed.published \in Nat /\ ed.failed \in Nat BY <1>9, Zenon
<1>35. /\ sv.received \in Nat /\ sv.invalid \in Nat /\ sv.enqueued \in Nat /\ sv.dropped \in Nat
       /\ sv.persisted \in Nat /\ sv.failures \in Nat
  BY <1>10, Zenon
<1>36. EdgeCounts(ed, t, g)
  <2>1. ed.captured = ed.dropped + ed.published + ed.failed + Len(ed.buffer) + Len(ed.writing)
    BY <1>7, Zenon DEF EdgeCounts
  <2>2. ed.published = Count(f, Published) + (sv.dropped + sv.failures) BY <1>7, Zenon DEF EdgeCounts
  <2>3. ed.published = Count(g, Published) + (t.dropped + t.failures)
    <3>1. PICK p \in Nat, c \in Nat, r \in Nat, x \in Nat :
            p = ed.published /\ c = Count(f, Published) /\ r = sv.dropped /\ x = sv.failures
      BY <1>34, <1>35, <1>31, Zenon
    <3>2. p = c + (r + x) BY <3>1, <2>2, Zenon
    <3>3. p = (c - 1) + ((r + 1) + x)
      BY ONLY <3>2, p \in Nat, c \in Nat, r \in Nat, x \in Nat
    <3> QED BY <3>1, <3>3, <1>15, <1>16, <1>28, Zenon
  <2> QED BY <2>1, <2>3, Zenon DEF EdgeCounts
<1>37. ServiceCounts(t, g)
  <2>1. sv.received = sv.invalid + sv.enqueued + sv.dropped BY <1>8, Zenon DEF ServiceCounts
  <2>2. t.received = t.invalid + t.enqueued + t.dropped
    <3>1. PICK c \in Nat, r \in Nat, p \in Nat, x \in Nat :
            c = sv.received /\ r = sv.invalid /\ p = sv.enqueued /\ x = sv.dropped
      BY <1>35, Zenon
    <3>2. c = r + p + x BY <3>1, <2>1, Zenon
    <3>3. c + 1 = r + p + (x + 1)
      BY ONLY <3>2, c \in Nat, r \in Nat, p \in Nat, x \in Nat
    <3> QED BY <3>1, <3>3, <1>15, <1>16, Zenon
  <2>3. sv.enqueued = sv.persisted + sv.failures + Len(sv.queue) + Len(sv.work)
    BY <1>8, Zenon DEF ServiceCounts
  <2>4. t.enqueued = t.persisted + t.failures + Len(t.queue) + Len(t.work)
    <3>1. PICK c \in Nat, r \in Nat, p \in Nat, y \in Nat, z \in Nat :
            c = sv.enqueued /\ r = sv.persisted /\ p = sv.failures /\ y = Len(sv.queue) /\ z = Len(sv.work)
      BY <1>35, <1>32, Zenon
    <3>2. c = r + p + y + z BY <3>1, <2>3, Zenon
    <3>3. c = r + p + y + z
      BY ONLY <3>2, c \in Nat, r \in Nat, p \in Nat, y \in Nat, z \in Nat, Zenon
    <3> QED BY <3>1, <3>3, <1>15, <1>16, <1>33, Zenon
  <2>5. sv.persisted = Count(f, InStore) BY <1>8, Zenon DEF ServiceCounts
  <2>6. t.persisted = Count(g, InStore) BY <2>5, <1>15, <1>16, <1>30, Zenon
  <2> QED BY <2>2, <2>4, <2>6, Zenon DEF ServiceCounts
<1>38. Subscriptions(t) BY <1>6, <1>18, Zenon DEF Subscriptions
<1>39. Accounted(ed, t, b \ {e}, st, g)
  BY <1>3, <1>1, <1>14, <1>24, <1>26, <1>36, <1>37, <1>38, <1>11, <1>23, Zenon DEF Accounted, IngestTyped
<1> QED BY <1>39, Zenon DEF t
\* The worker takes the oldest (WorkerTakes).
LEMMA WorkTaken ==
  ASSUME NEW ed, NEW sv, NEW b, NEW st, NEW f, NEW g,
         Accounted(ed, sv, b, st, f), Moves(f, g, Head(sv.queue), "storing"), sv.queue # <<>>, sv.work
           = <<>>
  PROVE  Accounted(ed,
                   [sv EXCEPT !.work = <<Head(sv.queue)>>, !.queue = Tail(sv.queue), !.attempt = 0], b, st,
                     g)
<1>0. PICK h : h = Head(sv.queue) BY Zenon
<1>1. ed \in EdgeRec BY Zenon DEF Accounted, IngestTyped
<1>2. sv \in ServiceRec BY Zenon DEF Accounted, IngestTyped
<1>3. b \in SUBSET Events /\ st \in [Events -> Nat] /\ f \in [Events -> Fates]
  BY Zenon DEF Accounted, IngestTyped
<1>4. /\ Line(ed.buffer, f, "buffered") /\ Line(ed.writing, f, "writing")
      /\ Line(sv.queue, f, "queued") /\ Line(sv.work, f, "storing")
      /\ Len(ed.writing) <= 1 /\ Len(sv.work) <= 1 /\ \A x \in b : f[x] = "bus"
  BY Zenon DEF Accounted, Lines
<1>5. Tries(sv.work, sv.attempt, st, f) BY Zenon DEF Accounted
<1>6. Subscriptions(sv) BY Zenon DEF Accounted
<1>7. EdgeCounts(ed, sv, f) BY Zenon DEF Accounted
<1>8. ServiceCounts(sv, f) BY Zenon DEF Accounted
<1>9. /\ ed.captured \in Nat /\ ed.dropped \in Nat /\ ed.published \in Nat /\ ed.failed \in Nat
      /\ ed.buffer \in Seq(Events) /\ ed.writing \in Seq(Events)
  BY <1>1, Zenon DEF EdgeRec
<1>10. /\ sv.received \in Nat /\ sv.invalid \in Nat /\ sv.enqueued \in Nat /\ sv.dropped \in Nat
      /\ sv.persisted \in Nat /\ sv.failures \in Nat /\ sv.attempt \in Nat
      /\ sv.queue \in Seq(Events) /\ sv.work \in Seq(Events)
  BY <1>2, Zenon DEF ServiceRec
<1>11. h \in Events /\ f[h] = "queued" /\ Len(sv.queue) > 0 BY <1>0, <1>4, <1>10 DEF Line
<1>12. Moves(f, g, h, "storing") BY <1>0, Zenon
<1>13. g \in [Events -> Fates] BY <1>12, Zenon DEF Moves, Fates
<1> DEFINE t == [sv EXCEPT !.work = <<Head(sv.queue)>>, !.queue = Tail(sv.queue), !.attempt = 0]
<1>14. <<Head(sv.queue)>> \in Seq(Events) /\ Tail(sv.queue) \in Seq(Events) /\ 0 \in Nat
  BY <1>10, <1>11, <1>0
<1>15. t \in ServiceRec BY <1>2, <1>14, Zenon DEF ServiceRec
<1>16. t.received = sv.received /\ t.invalid = sv.invalid /\ t.enqueued = sv.enqueued
  BY <1>2, Zenon DEF ServiceRec
<1>17. t.dropped = sv.dropped /\ t.persisted = sv.persisted /\ t.failures = sv.failures
  BY <1>2, Zenon DEF ServiceRec
<1>18. t.queue = Tail(sv.queue) /\ t.work = <<Head(sv.queue)>> /\ t.attempt = 0
  BY <1>2, Zenon DEF ServiceRec
<1>19. t.subs = sv.subs /\ t.refreshers = sv.refreshers /\ t.subscribed = sv.subscribed
         /\ t.subscriberUp = sv.subscriberUp
  BY <1>2, Zenon DEF ServiceRec
<1> HIDE DEF t
<1>20. Line(ed.buffer, g, "buffered") BY <1>4, <1>11, <1>12, LineKept, Zenon
<1>21. Line(ed.writing, g, "writing") BY <1>4, <1>11, <1>12, LineKept, Zenon
<1>22. Line(sv.queue, f, "queued") /\ sv.queue # <<>> BY <1>4, Zenon
<1>23. Line(Tail(sv.queue), g, "queued") /\ Len(Tail(sv.queue)) = Len(sv.queue) - 1
  BY ONLY <1>22, Moves(f, g, Head(sv.queue), "storing"), LineTail, Zenon
<1>24. Line(t.queue, g, "queued") /\ Len(t.queue) = Len(sv.queue) - 1 BY <1>23, <1>18, Zenon
<1>25. Line(t.work, g, "storing") /\ Len(t.work) = 1 BY <1>0, <1>12, <1>18, LineOne, Zenon
<1>26. b \in SUBSET Events /\ \A x \in b : g[x] = "bus" BY <1>3, <1>4, <1>11, <1>12, <1>0, Zenon DEF Moves
<1>27. Lines(ed, t, b, g) BY <1>4, <1>18, <1>20, <1>21, <1>24, <1>25, <1>26 DEF Lines
<1>28. Tries(<<h>>, 0, st, g) BY <1>3, <1>5, <1>11, <1>12, TriesTaken, Zenon
<1>29. Tries(t.work, t.attempt, st, g) BY <1>0, <1>28, <1>18, Zenon
<1>30. f[h] \in Published /\ "storing" \in Published BY <1>11, Zenon DEF Published
<1>31. Count(g, Published) = Count(f, Published) BY ONLY <1>12, <1>30, CountWithin
<1>32. f[h] \notin InStore /\ "storing" \notin InStore BY <1>11, Zenon DEF InStore
<1>33. Count(g, InStore) = Count(f, InStore) BY ONLY <1>12, <1>32, CountAside
<1>34. Count(f, Published) \in Nat /\ Count(f, InStore) \in Nat BY IngestSettings, CountNat, Zenon
<1>35. /\ Len(ed.buffer) \in Nat /\ Len(ed.writing) \in Nat
       /\ Len(sv.queue) \in Nat /\ Len(sv.work) \in Nat
  BY <1>9, <1>10, LenNat, Zenon
<1>36. Len(sv.work) = 0 OBVIOUS
<1>37. Len(t.queue) = Len(sv.queue) - 1 /\ Len(t.work) = 1 /\ Len(sv.work) = 0 /\ Len(sv.queue) \in Nat
         /\ Len(sv.work) \in Nat
  BY <1>35, <1>18, <1>24, <1>25, <1>36, Zenon
<1>38. ed.captured \in Nat /\ ed.dropped \in Nat /\ ed.published \in Nat /\ ed.failed \in Nat BY <1>9, Zenon
<1>39. /\ sv.received \in Nat /\ sv.invalid \in Nat /\ sv.enqueued \in Nat /\ sv.dropped \in Nat
       /\ sv.persisted \in Nat /\ sv.failures \in Nat
  BY <1>10, Zenon
<1>40. EdgeCounts(ed, t, g)
  <2>1. ed.captured = ed.dropped + ed.published + ed.failed + Len(ed.buffer) + Len(ed.writing)
    BY <1>7, Zenon DEF EdgeCounts
  <2>2. ed.published = Count(f, Published) + (sv.dropped + sv.failures) BY <1>7, Zenon DEF EdgeCounts
  <2>3. ed.published = Count(g, Published) + (t.dropped + t.failures) BY <2>2, <1>16, <1>17, <1>31, Zenon
  <2> QED BY <2>1, <2>3, Zenon DEF EdgeCounts
<1>41. ServiceCounts(t, g)
  <2>1. sv.received = sv.invalid + sv.enqueued + sv.dropped BY <1>8, Zenon DEF ServiceCounts
  <2>2. t.received = t.invalid + t.enqueued + t.dropped BY <2>1, <1>16, <1>17, Zenon
  <2>3. sv.enqueued = sv.persisted + sv.failures + Len(sv.queue) + Len(sv.work)
    BY <1>8, Zenon DEF ServiceCounts
  <2>4. t.enqueued = t.persisted + t.failures + Len(t.queue) + Len(t.work)
    <3>1. PICK c \in Nat, r \in Nat, p \in Nat, y \in Nat, z \in Nat :
            c = sv.enqueued /\ r = sv.persisted /\ p = sv.failures /\ y = Len(sv.queue) /\ z = Len(sv.work)
      BY <1>39, <1>35, Zenon
    <3>2. c = r + p + y + z BY <3>1, <2>3, Zenon
    <3>3. z = 0 BY <3>1, <1>16, <1>17, <1>37, Zenon
    <3>4. c = r + p + (y - 1) + 1
      BY ONLY <3>2, <3>3, c \in Nat, r \in Nat, p \in Nat, y \in Nat, z \in Nat
    <3> QED BY <3>1, <3>4, <1>16, <1>17, <1>37, Zenon
  <2>5. sv.persisted = Count(f, InStore) BY <1>8, Zenon DEF ServiceCounts
  <2>6. t.persisted = Count(g, InStore) BY <2>5, <1>16, <1>17, <1>33, Zenon
  <2> QED BY <2>2, <2>4, <2>6, Zenon DEF ServiceCounts
<1>42. Subscriptions(t) BY <1>6, <1>19, Zenon DEF Subscriptions
<1>43. Accounted(ed, t, b, st, g)
  BY <1>3, <1>1, <1>15, <1>27, <1>29, <1>40, <1>41, <1>42, <1>13, <1>26, Zenon DEF Accounted, IngestTyped
<1> QED BY <1>43, Zenon DEF t
\* The insert succeeds (storeBatch).
LEMMA Stored ==
  ASSUME NEW ed, NEW sv, NEW b, NEW st, NEW f, NEW g, NEW m,
         Accounted(ed, sv, b, st, f), Moves(f, g, sv.work[1], "stored"), sv.work # <<>>, m
           = [st EXCEPT ![sv.work[1]] = st[sv.work[1]] + 1]
  PROVE  Accounted(ed,
                   [sv EXCEPT !.work = <<>>, !.persisted = sv.persisted + 1], b, m, g)
<1>0. PICK h : h = sv.work[1] BY Zenon
<1>1. ed \in EdgeRec BY Zenon DEF Accounted, IngestTyped
<1>2. sv \in ServiceRec BY Zenon DEF Accounted, IngestTyped
<1>3. b \in SUBSET Events /\ st \in [Events -> Nat] /\ f \in [Events -> Fates]
  BY Zenon DEF Accounted, IngestTyped
<1>4. /\ Line(ed.buffer, f, "buffered") /\ Line(ed.writing, f, "writing")
      /\ Line(sv.queue, f, "queued") /\ Line(sv.work, f, "storing")
      /\ Len(ed.writing) <= 1 /\ Len(sv.work) <= 1 /\ \A x \in b : f[x] = "bus"
  BY Zenon DEF Accounted, Lines
<1>5. Tries(sv.work, sv.attempt, st, f) BY Zenon DEF Accounted
<1>6. Subscriptions(sv) BY Zenon DEF Accounted
<1>7. EdgeCounts(ed, sv, f) BY Zenon DEF Accounted
<1>8. ServiceCounts(sv, f) BY Zenon DEF Accounted
<1>9. /\ ed.captured \in Nat /\ ed.dropped \in Nat /\ ed.published \in Nat /\ ed.failed \in Nat
      /\ ed.buffer \in Seq(Events) /\ ed.writing \in Seq(Events)
  BY <1>1, Zenon DEF EdgeRec
<1>10. /\ sv.received \in Nat /\ sv.invalid \in Nat /\ sv.enqueued \in Nat /\ sv.dropped \in Nat
      /\ sv.persisted \in Nat /\ sv.failures \in Nat /\ sv.attempt \in Nat
      /\ sv.queue \in Seq(Events) /\ sv.work \in Seq(Events)
  BY <1>2, Zenon DEF ServiceRec
<1>11. h \in Events /\ f[h] = "storing" /\ Len(sv.work) > 0 BY <1>0, <1>4, <1>10 DEF Line
<1>12. Moves(f, g, h, "stored") BY <1>0, Zenon
<1>13. g \in [Events -> Fates] BY <1>12, Zenon DEF Moves, Fates
<1> DEFINE t == [sv EXCEPT !.work = <<>>, !.persisted = sv.persisted + 1]
<1>14. <<>> \in Seq(Events) /\ sv.persisted + 1 \in Nat BY <1>10, <1>11, <1>0
<1>15. t \in ServiceRec BY <1>2, <1>14, Zenon DEF ServiceRec
<1>16. t.received = sv.received /\ t.invalid = sv.invalid /\ t.enqueued = sv.enqueued
  BY <1>2, Zenon DEF ServiceRec
<1>17. t.dropped = sv.dropped /\ t.persisted = sv.persisted + 1 /\ t.failures = sv.failures
  BY <1>2, Zenon DEF ServiceRec
<1>18. t.queue = sv.queue /\ t.work = <<>> /\ t.attempt = sv.attempt BY <1>2, Zenon DEF ServiceRec
<1>19. t.subs = sv.subs /\ t.refreshers = sv.refreshers /\ t.subscribed = sv.subscribed
         /\ t.subscriberUp = sv.subscriberUp
  BY <1>2, Zenon DEF ServiceRec
<1> HIDE DEF t
<1>20. m \in [Events -> Nat] BY <1>3, <1>11, <1>0 DEF Tried
<1>21. Line(ed.buffer, g, "buffered") BY <1>4, <1>11, <1>12, LineKept, Zenon
<1>22. Line(ed.writing, g, "writing") BY <1>4, <1>11, <1>12, LineKept, Zenon
<1>23. Line(t.queue, g, "queued") /\ Len(t.queue) = Len(sv.queue)
  BY <1>4, <1>18, <1>11, <1>12, LineKept, Zenon
<1>24. Line(t.work, g, "storing") /\ Len(t.work) = 0 BY <1>18, LineNone, Zenon
<1>25. b \in SUBSET Events /\ \A x \in b : g[x] = "bus" BY <1>3, <1>4, <1>11, <1>12, <1>0, Zenon DEF Moves
<1>26. Lines(ed, t, b, g) BY <1>4, <1>18, <1>21, <1>22, <1>23, <1>24, <1>25 DEF Lines
<1>27. Tried(st, m, h) /\ ("stored" = "stored" => m[h] = st[h] + 1) BY <1>0, <1>3, <1>11, Zenon DEF Tried
<1>28. Len(sv.work) \in Nat BY <1>10, LenNat, Zenon
<1>29. Len(sv.work) = 1 BY <1>4, <1>11, <1>28, ExactlyOne, Zenon
<1>30. Tries(<<>>, sv.attempt, m, g) BY <1>0, <1>3, <1>5, <1>12, <1>10, <1>27, <1>29, TriesEnded, Zenon
<1>31. Tries(t.work, t.attempt, m, g) BY <1>30, <1>18, Zenon
<1>32. f[h] \in Published /\ "stored" \in Published BY <1>11, Zenon DEF Published
<1>33. Count(g, Published) = Count(f, Published) BY ONLY <1>12, <1>32, CountWithin
<1>34. f[h] \notin InStore /\ "stored" \in InStore BY <1>11, Zenon DEF InStore
<1>35. Count(g, InStore) = Count(f, InStore) + 1 BY ONLY <1>12, <1>34, CountGains
<1>36. Count(f, Published) \in Nat /\ Count(f, InStore) \in Nat BY IngestSettings, CountNat, Zenon
<1>37. /\ Len(ed.buffer) \in Nat /\ Len(ed.writing) \in Nat
       /\ Len(sv.queue) \in Nat /\ Len(sv.work) \in Nat
  BY <1>9, <1>10, LenNat, Zenon
<1>38. PICK k \in Nat : k = Len(sv.work) /\ k <= 1 /\ k > 0 BY <1>37, <1>4, <1>11, Zenon
<1>39. k = 1 BY <1>38, ExactlyOne, Zenon
<1>40. Len(sv.work) = 1 BY <1>38, <1>39, Zenon
<1>41. Len(t.queue) = Len(sv.queue) /\ Len(t.work) = 0 /\ Len(sv.work) = 1 /\ Len(sv.queue) \in Nat
         /\ Len(sv.work) \in Nat
  BY <1>37, <1>18, <1>23, <1>24, <1>40, Zenon
<1>42. ed.captured \in Nat /\ ed.dropped \in Nat /\ ed.published \in Nat /\ ed.failed \in Nat BY <1>9, Zenon
<1>43. /\ sv.received \in Nat /\ sv.invalid \in Nat /\ sv.enqueued \in Nat /\ sv.dropped \in Nat
       /\ sv.persisted \in Nat /\ sv.failures \in Nat
  BY <1>10, Zenon
<1>44. EdgeCounts(ed, t, g)
  <2>1. ed.captured = ed.dropped + ed.published + ed.failed + Len(ed.buffer) + Len(ed.writing)
    BY <1>7, Zenon DEF EdgeCounts
  <2>2. ed.published = Count(f, Published) + (sv.dropped + sv.failures) BY <1>7, Zenon DEF EdgeCounts
  <2>3. ed.published = Count(g, Published) + (t.dropped + t.failures) BY <2>2, <1>16, <1>17, <1>33, Zenon
  <2> QED BY <2>1, <2>3, Zenon DEF EdgeCounts
<1>45. ServiceCounts(t, g)
  <2>1. sv.received = sv.invalid + sv.enqueued + sv.dropped BY <1>8, Zenon DEF ServiceCounts
  <2>2. t.received = t.invalid + t.enqueued + t.dropped BY <2>1, <1>16, <1>17, Zenon
  <2>3. sv.enqueued = sv.persisted + sv.failures + Len(sv.queue) + Len(sv.work)
    BY <1>8, Zenon DEF ServiceCounts
  <2>4. t.enqueued = t.persisted + t.failures + Len(t.queue) + Len(t.work)
    <3>1. PICK c \in Nat, r \in Nat, p \in Nat, y \in Nat, z \in Nat :
            c = sv.enqueued /\ r = sv.persisted /\ p = sv.failures /\ y = Len(sv.queue) /\ z = Len(sv.work)
      BY <1>43, <1>37, Zenon
    <3>2. c = r + p + y + z BY <3>1, <2>3, Zenon
    <3>3. z = 1 BY <3>1, <1>16, <1>17, <1>41, Zenon
    <3>4. c = (r + 1) + p + y + 0
      BY ONLY <3>2, <3>3, c \in Nat, r \in Nat, p \in Nat, y \in Nat, z \in Nat
    <3> QED BY <3>1, <3>4, <1>16, <1>17, <1>41, Zenon
  <2>5. sv.persisted = Count(f, InStore) BY <1>8, Zenon DEF ServiceCounts
  <2>6. t.persisted = Count(g, InStore) BY <2>5, <1>16, <1>17, <1>35, Zenon
  <2> QED BY <2>2, <2>4, <2>6, Zenon DEF ServiceCounts
<1>46. Subscriptions(t) BY <1>6, <1>19, Zenon DEF Subscriptions
<1>47. Accounted(ed, t, b, m, g)
  BY <1>3, <1>1, <1>15, <1>26, <1>31, <1>44, <1>45, <1>46, <1>13, <1>25, <1>20, Zenon
     DEF Accounted, IngestTyped
<1> QED BY <1>47, Zenon DEF t
\* The worker gives up (storeBatch).
LEMMA GivenUp ==
  ASSUME NEW ed, NEW sv, NEW b, NEW st, NEW f, NEW g, NEW m,
         Accounted(ed, sv, b, st, f), Moves(f, g, sv.work[1], "failed"), sv.work # <<>>, Tried(st, m,
           sv.work[1])
  PROVE  Accounted(ed,
                   [sv EXCEPT !.work = <<>>, !.failures = sv.failures + 1], b, m, g)
<1>0. PICK h : h = sv.work[1] BY Zenon
<1>1. ed \in EdgeRec BY Zenon DEF Accounted, IngestTyped
<1>2. sv \in ServiceRec BY Zenon DEF Accounted, IngestTyped
<1>3. b \in SUBSET Events /\ st \in [Events -> Nat] /\ f \in [Events -> Fates]
  BY Zenon DEF Accounted, IngestTyped
<1>4. /\ Line(ed.buffer, f, "buffered") /\ Line(ed.writing, f, "writing")
      /\ Line(sv.queue, f, "queued") /\ Line(sv.work, f, "storing")
      /\ Len(ed.writing) <= 1 /\ Len(sv.work) <= 1 /\ \A x \in b : f[x] = "bus"
  BY Zenon DEF Accounted, Lines
<1>5. Tries(sv.work, sv.attempt, st, f) BY Zenon DEF Accounted
<1>6. Subscriptions(sv) BY Zenon DEF Accounted
<1>7. EdgeCounts(ed, sv, f) BY Zenon DEF Accounted
<1>8. ServiceCounts(sv, f) BY Zenon DEF Accounted
<1>9. /\ ed.captured \in Nat /\ ed.dropped \in Nat /\ ed.published \in Nat /\ ed.failed \in Nat
      /\ ed.buffer \in Seq(Events) /\ ed.writing \in Seq(Events)
  BY <1>1, Zenon DEF EdgeRec
<1>10. /\ sv.received \in Nat /\ sv.invalid \in Nat /\ sv.enqueued \in Nat /\ sv.dropped \in Nat
      /\ sv.persisted \in Nat /\ sv.failures \in Nat /\ sv.attempt \in Nat
      /\ sv.queue \in Seq(Events) /\ sv.work \in Seq(Events)
  BY <1>2, Zenon DEF ServiceRec
<1>11. h \in Events /\ f[h] = "storing" /\ Len(sv.work) > 0 BY <1>0, <1>4, <1>10 DEF Line
<1>12. Moves(f, g, h, "failed") BY <1>0, Zenon
<1>13. g \in [Events -> Fates] BY <1>12, Zenon DEF Moves, Fates
<1> DEFINE t == [sv EXCEPT !.work = <<>>, !.failures = sv.failures + 1]
<1>14. <<>> \in Seq(Events) /\ sv.failures + 1 \in Nat BY <1>10, <1>11, <1>0
<1>15. t \in ServiceRec BY <1>2, <1>14, Zenon DEF ServiceRec
<1>16. t.received = sv.received /\ t.invalid = sv.invalid /\ t.enqueued = sv.enqueued
  BY <1>2, Zenon DEF ServiceRec
<1>17. t.dropped = sv.dropped /\ t.persisted = sv.persisted /\ t.failures = sv.failures + 1
  BY <1>2, Zenon DEF ServiceRec
<1>18. t.queue = sv.queue /\ t.work = <<>> /\ t.attempt = sv.attempt BY <1>2, Zenon DEF ServiceRec
<1>19. t.subs = sv.subs /\ t.refreshers = sv.refreshers /\ t.subscribed = sv.subscribed
         /\ t.subscriberUp = sv.subscriberUp
  BY <1>2, Zenon DEF ServiceRec
<1> HIDE DEF t
<1>20. m \in [Events -> Nat] BY <1>3, <1>11, <1>0 DEF Tried
<1>21. Line(ed.buffer, g, "buffered") BY <1>4, <1>11, <1>12, LineKept, Zenon
<1>22. Line(ed.writing, g, "writing") BY <1>4, <1>11, <1>12, LineKept, Zenon
<1>23. Line(t.queue, g, "queued") /\ Len(t.queue) = Len(sv.queue)
  BY <1>4, <1>18, <1>11, <1>12, LineKept, Zenon
<1>24. Line(t.work, g, "storing") /\ Len(t.work) = 0 BY <1>18, LineNone, Zenon
<1>25. b \in SUBSET Events /\ \A x \in b : g[x] = "bus" BY <1>3, <1>4, <1>11, <1>12, <1>0, Zenon DEF Moves
<1>26. Lines(ed, t, b, g) BY <1>4, <1>18, <1>21, <1>22, <1>23, <1>24, <1>25 DEF Lines
<1>27. Tried(st, m, h) /\ ("failed" = "stored" => m[h] = st[h] + 1) BY <1>0, <1>3, <1>11, Zenon DEF Tried
<1>28. Len(sv.work) \in Nat BY <1>10, LenNat, Zenon
<1>29. Len(sv.work) = 1 BY <1>4, <1>11, <1>28, ExactlyOne, Zenon
<1>30. Tries(<<>>, sv.attempt, m, g) BY <1>0, <1>3, <1>5, <1>12, <1>10, <1>27, <1>29, TriesEnded, Zenon
<1>31. Tries(t.work, t.attempt, m, g) BY <1>30, <1>18, Zenon
<1>32. f[h] \in Published /\ "failed" \notin Published BY <1>11, Zenon DEF Published
<1>33. Count(g, Published) = Count(f, Published) - 1 BY ONLY <1>12, <1>32, CountLoses
<1>34. f[h] \notin InStore /\ "failed" \notin InStore BY <1>11, Zenon DEF InStore
<1>35. Count(g, InStore) = Count(f, InStore) BY ONLY <1>12, <1>34, CountAside
<1>36. Count(f, Published) \in Nat /\ Count(f, InStore) \in Nat BY IngestSettings, CountNat, Zenon
<1>37. /\ Len(ed.buffer) \in Nat /\ Len(ed.writing) \in Nat
       /\ Len(sv.queue) \in Nat /\ Len(sv.work) \in Nat
  BY <1>9, <1>10, LenNat, Zenon
<1>38. PICK k \in Nat : k = Len(sv.work) /\ k <= 1 /\ k > 0 BY <1>37, <1>4, <1>11, Zenon
<1>39. k = 1 BY <1>38, ExactlyOne, Zenon
<1>40. Len(sv.work) = 1 BY <1>38, <1>39, Zenon
<1>41. Len(t.queue) = Len(sv.queue) /\ Len(t.work) = 0 /\ Len(sv.work) = 1 /\ Len(sv.queue) \in Nat
         /\ Len(sv.work) \in Nat
  BY <1>37, <1>18, <1>23, <1>24, <1>40, Zenon
<1>42. ed.captured \in Nat /\ ed.dropped \in Nat /\ ed.published \in Nat /\ ed.failed \in Nat BY <1>9, Zenon
<1>43. /\ sv.received \in Nat /\ sv.invalid \in Nat /\ sv.enqueued \in Nat /\ sv.dropped \in Nat
       /\ sv.persisted \in Nat /\ sv.failures \in Nat
  BY <1>10, Zenon
<1>44. EdgeCounts(ed, t, g)
  <2>1. ed.captured = ed.dropped + ed.published + ed.failed + Len(ed.buffer) + Len(ed.writing)
    BY <1>7, Zenon DEF EdgeCounts
  <2>2. ed.published = Count(f, Published) + (sv.dropped + sv.failures) BY <1>7, Zenon DEF EdgeCounts
  <2>3. ed.published = Count(g, Published) + (t.dropped + t.failures)
    <3>1. PICK p \in Nat, c \in Nat, r \in Nat, x \in Nat :
            p = ed.published /\ c = Count(f, Published) /\ r = sv.dropped /\ x = sv.failures
      BY <1>42, <1>43, <1>36, Zenon
    <3>2. p = c + (r + x) BY <3>1, <2>2, Zenon
    <3>3. p = (c - 1) + (r + (x + 1))
      BY ONLY <3>2, p \in Nat, c \in Nat, r \in Nat, x \in Nat
    <3> QED BY <3>1, <3>3, <1>16, <1>17, <1>33, Zenon
  <2> QED BY <2>1, <2>3, Zenon DEF EdgeCounts
<1>45. ServiceCounts(t, g)
  <2>1. sv.received = sv.invalid + sv.enqueued + sv.dropped BY <1>8, Zenon DEF ServiceCounts
  <2>2. t.received = t.invalid + t.enqueued + t.dropped BY <2>1, <1>16, <1>17, Zenon
  <2>3. sv.enqueued = sv.persisted + sv.failures + Len(sv.queue) + Len(sv.work)
    BY <1>8, Zenon DEF ServiceCounts
  <2>4. t.enqueued = t.persisted + t.failures + Len(t.queue) + Len(t.work)
    <3>1. PICK c \in Nat, r \in Nat, p \in Nat, y \in Nat, z \in Nat :
            c = sv.enqueued /\ r = sv.persisted /\ p = sv.failures /\ y = Len(sv.queue) /\ z = Len(sv.work)
      BY <1>43, <1>37, Zenon
    <3>2. c = r + p + y + z BY <3>1, <2>3, Zenon
    <3>3. z = 1 BY <3>1, <1>16, <1>17, <1>41, Zenon
    <3>4. c = r + (p + 1) + y + 0
      BY ONLY <3>2, <3>3, c \in Nat, r \in Nat, p \in Nat, y \in Nat, z \in Nat
    <3> QED BY <3>1, <3>4, <1>16, <1>17, <1>41, Zenon
  <2>5. sv.persisted = Count(f, InStore) BY <1>8, Zenon DEF ServiceCounts
  <2>6. t.persisted = Count(g, InStore) BY <2>5, <1>16, <1>17, <1>35, Zenon
  <2> QED BY <2>2, <2>4, <2>6, Zenon DEF ServiceCounts
<1>46. Subscriptions(t) BY <1>6, <1>19, Zenon DEF Subscriptions
<1>47. Accounted(ed, t, b, m, g)
  BY <1>3, <1>1, <1>15, <1>26, <1>31, <1>44, <1>45, <1>46, <1>13, <1>25, <1>20, Zenon
     DEF Accounted, IngestTyped
<1> QED BY <1>47, Zenon DEF t
----------------------------------------------------------------------------
(* The actions.                                                            *)

\* A move of an event, where the types are right.
LEMMA MoveOf ==
  ASSUME IngestInv, NEW e \in Events, NEW to, Moved(e, to)
  PROVE  Moves(fate, fate', e, to)
BY Zenon DEF IngestInv, Accounted, IngestTyped, Moved, Moves

\* observe keeps the account.
LEMMA ObserveStep ==
  ASSUME IngestInv, NEW e \in Events, NEW sampled \in BOOLEAN, observe(e, sampled)
  PROVE  IngestInv'
<1>1. fate[e] = "none" /\ bus' = bus /\ service' = service /\ stored' = stored BY Zenon DEF observe
<1>2. Accounted(edge, service, bus, stored, fate) BY Zenon DEF IngestInv
<1>3. CASE ~sampled
  <2>1. edge' = edge /\ Moved(e, "unsampled") BY <1>3, Zenon DEF observe
  <2>2. Moves(fate, fate', e, "unsampled") BY <2>1, MoveOf, Zenon
  <2>3. Accounted(edge, service, bus, stored, fate') BY <1>1, <1>2, <2>2, Unsampled, Zenon
  <2> QED BY <1>1, <2>1, <2>3, Zenon DEF IngestInv
<1>4. CASE sampled /\ Len(edge.buffer) < BufferSize
  <2>1. /\ edge' = [edge EXCEPT !.captured = edge.captured + 1, !.buffer = Append(edge.buffer, e)]
        /\ Moved(e, "buffered")
    BY <1>4, Zenon DEF observe
  <2>2. Moves(fate, fate', e, "buffered") BY <2>1, MoveOf, Zenon
  <2>3. Accounted(edge', service, bus, stored, fate') BY <1>1, <1>2, <2>1, <2>2, Buffered, Zenon
  <2> QED BY <1>1, <2>3, Zenon DEF IngestInv
<1>5. CASE sampled /\ ~(Len(edge.buffer) < BufferSize)
  <2>1. /\ edge' = [edge EXCEPT !.captured = edge.captured + 1, !.dropped = edge.dropped + 1]
        /\ Moved(e, "dropped")
    BY <1>5, Zenon DEF observe
  <2>2. Moves(fate, fate', e, "dropped") BY <2>1, MoveOf, Zenon
  <2>3. Accounted(edge', service, bus, stored, fate') BY <1>1, <1>2, <2>1, <2>2, BufferFull, Zenon
  <2> QED BY <1>1, <2>3, Zenon DEF IngestInv
<1> QED BY <1>3, <1>4, <1>5, Zenon

\* The head of a queue is an event.
LEMMA HeadOf ==
  ASSUME NEW q \in Seq(Events), q # <<>>
  PROVE  Head(q) \in Events /\ q[1] \in Events
OBVIOUS

\* The publisher takes an event.
LEMMA FetchStep ==
  ASSUME IngestInv, PublisherTakes
  PROVE  IngestInv'
<1>1. /\ edge.writing = <<>> /\ edge.buffer # <<>> /\ Moved(Head(edge.buffer), "writing")
      /\ edge' = [edge EXCEPT !.writing = <<Head(edge.buffer)>>, !.buffer = Tail(edge.buffer)]
      /\ bus' = bus /\ service' = service /\ stored' = stored
  BY Zenon DEF PublisherTakes
<1>2. Accounted(edge, service, bus, stored, fate) BY Zenon DEF IngestInv
<1>3. edge.buffer \in Seq(Events) BY <1>2, Zenon DEF Accounted, IngestTyped, EdgeRec
<1>4. Moves(fate, fate', Head(edge.buffer), "writing") BY <1>1, <1>3, HeadOf, MoveOf, Zenon
<1>5. Accounted(edge', service, bus, stored, fate') BY <1>1, <1>2, <1>4, Fetched, Zenon
<1> QED BY <1>1, <1>5, Zenon DEF IngestInv

\* publish keeps the account, with a connection or without.
LEMMA PublishStep ==
  ASSUME IngestInv, NEW ok \in BOOLEAN, publish(ok)
  PROVE  IngestInv'
<1>1. edge.writing # <<>> /\ service' = service /\ stored' = stored BY Zenon DEF publish
<1>2. Accounted(edge, service, bus, stored, fate) BY Zenon DEF IngestInv
<1>3. edge \in EdgeRec BY <1>2, Zenon DEF Accounted, IngestTyped
<1>4. edge.writing \in Seq(Events) /\ edge.published \in Nat /\ edge.failed \in Nat
  BY <1>3, Zenon DEF EdgeRec
<1>5. edge.writing[1] \in Events BY <1>1, <1>4, HeadOf, Zenon
<1>6. CASE ok
  <2>2. edge' = [edge EXCEPT !.writing = <<>>, !.published = edge.published + 1] BY <1>6, Zenon DEF publish
  <2>3. CASE edge.conn = "nil"
    <3>1. Moved(edge.writing[1], "lost") /\ bus' = bus BY <1>6, <2>3, Zenon DEF publish
    <3>2. Moves(fate, fate', edge.writing[1], "lost") BY <1>5, <3>1, MoveOf, Zenon
    <3>3. Accounted(edge', service, bus, stored, fate') BY <1>1, <1>2, <2>2, <3>2, WrittenNowhere, Zenon
    <3> QED BY <1>1, <3>1, <3>3, Zenon DEF IngestInv
  <2>4. CASE edge.conn # "nil"
    <3>1. Moved(edge.writing[1], "bus") /\ bus' = bus \cup {edge.writing[1]}
      BY <1>6, <2>4, Zenon DEF publish
    <3>2. Moves(fate, fate', edge.writing[1], "bus") BY <1>5, <3>1, MoveOf, Zenon
    <3>3. Accounted(edge', service, bus', stored, fate') BY <1>1, <1>2, <2>2, <3>1, <3>2, Written, Zenon
    <3> QED BY <1>1, <3>3, Zenon DEF IngestInv
  <2> QED BY <2>3, <2>4, Zenon
<1>7. CASE ~ok
  <2>2. edge' = [edge EXCEPT !.writing = <<>>, !.failed = edge.failed + 1] BY <1>7, Zenon DEF publish
  <2>3. Moved(edge.writing[1], "failed") /\ bus' = bus BY <1>7, Zenon DEF publish
  <2>4. Moves(fate, fate', edge.writing[1], "failed") BY <1>5, <2>3, MoveOf, Zenon
  <2>5. Accounted(edge', service, bus, stored, fate') BY <1>1, <1>2, <2>2, <2>4, NotWritten, Zenon
  <2> QED BY <1>1, <2>3, <2>5, Zenon DEF IngestInv
<1> QED BY <1>6, <1>7, Zenon

\* The bus loses a message.
LEMMA LoseStep ==
  ASSUME IngestInv, NEW e \in Events, BusLoses(e)
  PROVE  IngestInv'
<1>1. /\ e \in bus /\ bus' = bus \ {e} /\ Moved(e, "lost")
      /\ edge' = edge /\ service' = service /\ stored' = stored
  BY Zenon DEF BusLoses
<1>2. Accounted(edge, service, bus, stored, fate) BY Zenon DEF IngestInv
<1>3. fate[e] = "bus" BY <1>1, <1>2, Zenon DEF Accounted, Lines
<1>4. Moves(fate, fate', e, "lost") BY <1>1, MoveOf, Zenon
<1>5. Accounted(edge, service, bus', stored, fate') BY <1>1, <1>2, <1>3, <1>4, BusLost, Zenon
<1> QED BY <1>1, <1>5, Zenon DEF IngestInv

\* Deliver keeps the account, whatever becomes of the message.
LEMMA DeliverStep ==
  ASSUME IngestInv, NEW e \in Events, NEW valid \in BOOLEAN, Deliver(e, valid)
  PROVE  IngestInv'
<1>1. e \in bus /\ bus' = bus \ {e} /\ edge' = edge /\ stored' = stored BY Zenon DEF Deliver
<1>2. Accounted(edge, service, bus, stored, fate) BY Zenon DEF IngestInv
<1>3. fate[e] = "bus" BY <1>1, <1>2, Zenon DEF Accounted, Lines
<1>4. service \in ServiceRec BY <1>2, Zenon DEF Accounted, IngestTyped
<1> DEFINE s == [service EXCEPT !.received = service.received + 1]
<1>5. /\ s.invalid = service.invalid /\ s.enqueued = service.enqueued /\ s.dropped = service.dropped
      /\ s.queue = service.queue
  BY <1>4, Zenon DEF ServiceRec
<1>6. CASE ~valid
  <2>1. service' = [s EXCEPT !.invalid = s.invalid + 1] /\ Moved(e, "invalid") BY <1>6, Zenon DEF Deliver
  <2>2. service' = [service EXCEPT !.received = service.received + 1, !.invalid = service.invalid + 1]
    BY <1>5, <2>1, Zenon
  <2>3. Moves(fate, fate', e, "invalid") BY <2>1, MoveOf, Zenon
  <2>4. Accounted(edge, service', bus', stored, fate') BY <1>1, <1>2, <1>3, <2>2, <2>3, Undecodable, Zenon
  <2> QED BY <1>1, <2>4, Zenon DEF IngestInv
<1>7. CASE valid /\ Len(service.queue) < QueueSize
  <2>1. service' = [s EXCEPT !.enqueued = s.enqueued + 1, !.queue = Append(s.queue, e)]
          /\ Moved(e, "queued")
    BY <1>7, <1>5, Zenon DEF Deliver
  <2>2. service' = [service EXCEPT !.received = service.received + 1, !.enqueued = service.enqueued + 1,
                                   !.queue = Append(service.queue, e)]
    BY <1>5, <2>1, Zenon
  <2>3. Moves(fate, fate', e, "queued") BY <2>1, MoveOf, Zenon
  <2>4. Accounted(edge, service', bus', stored, fate') BY <1>1, <1>2, <1>3, <2>2, <2>3, Enqueued, Zenon
  <2> QED BY <1>1, <2>4, Zenon DEF IngestInv
<1>8. CASE valid /\ ~(Len(service.queue) < QueueSize)
  <2>1. service' = [s EXCEPT !.dropped = s.dropped + 1] /\ Moved(e, "dropped") BY <1>8, Zenon DEF Deliver
  <2>2. service' = [service EXCEPT !.received = service.received + 1, !.dropped = service.dropped + 1]
    BY <1>5, <2>1, Zenon
  <2>3. Moves(fate, fate', e, "dropped") BY <2>1, MoveOf, Zenon
  <2>4. Accounted(edge, service', bus', stored, fate') BY <1>1, <1>2, <1>3, <2>2, <2>3, QueueFull, Zenon
  <2> QED BY <1>1, <2>4, Zenon DEF IngestInv
<1> QED BY <1>6, <1>7, <1>8, Zenon

\* The worker takes an event.
LEMMA TakeStep ==
  ASSUME IngestInv, WorkerTakes
  PROVE  IngestInv'
<1>1. /\ service.work = <<>> /\ service.queue # <<>> /\ Moved(Head(service.queue), "storing")
      /\ service'
           = [service EXCEPT !.work = <<Head(service.queue)>>, !.queue = Tail(service.queue), !.attempt = 0]
      /\ bus' = bus /\ edge' = edge /\ stored' = stored
  BY Zenon DEF WorkerTakes
<1>2. Accounted(edge, service, bus, stored, fate) BY Zenon DEF IngestInv
<1>3. service.queue \in Seq(Events) BY <1>2, Zenon DEF Accounted, IngestTyped, ServiceRec
<1>4. Moves(fate, fate', Head(service.queue), "storing") BY <1>1, <1>3, HeadOf, MoveOf, Zenon
<1>5. Accounted(edge, service', bus, stored, fate') BY <1>1, <1>2, <1>4, WorkTaken, Zenon
<1> QED BY <1>1, <1>5, Zenon DEF IngestInv

\* A step of the service that touches neither its counters nor its queues.
LEMMA ServiceKept ==
  ASSUME NEW ed, NEW sv, NEW b, NEW st, NEW f, NEW t, NEW m, Accounted(ed, sv, b, st, f), t \in ServiceRec,
         m \in [Events -> Nat],
         t.received = sv.received, t.invalid = sv.invalid, t.enqueued = sv.enqueued, t.dropped = sv.dropped,
         t.persisted = sv.persisted, t.failures = sv.failures, t.queue = sv.queue, t.work = sv.work,
         Tries(t.work, t.attempt, m, f), Subscriptions(t)
  PROVE  Accounted(ed, t, b, m, f)
<1>1. IngestTyped(ed, t, b, m, f) BY Zenon DEF Accounted, IngestTyped
<1>2. Lines(ed, t, b, f) BY Zenon DEF Accounted, Lines
<1>3. EdgeCounts(ed, t, f)
  <2>1. EdgeCounts(ed, sv, f) BY Zenon DEF Accounted
  <2> QED BY <2>1, Zenon DEF EdgeCounts
<1>4. ServiceCounts(t, f)
  <2>1. ServiceCounts(sv, f) BY Zenon DEF Accounted
  <2> QED BY <2>1, Zenon DEF ServiceCounts
<1> QED BY <1>1, <1>2, <1>3, <1>4, Zenon DEF Accounted

\* A failed insert that is tried again.
LEMMA Retried ==
  ASSUME NEW ed, NEW sv, NEW b, NEW st, NEW f, NEW m, Accounted(ed, sv, b, st, f), sv.work # <<>>,
         sv.attempt # MaxRetries, Tried(st, m, sv.work[1])
  PROVE  Accounted(ed, [sv EXCEPT !.attempt = sv.attempt + 1], b, m, f)
<1>1. sv \in ServiceRec BY Zenon DEF Accounted, IngestTyped
<1>2. st \in [Events -> Nat] BY Zenon DEF Accounted, IngestTyped
<1>3. Line(sv.work, f, "storing") /\ Len(sv.work) <= 1 BY Zenon DEF Accounted, Lines
<1>4. Tries(sv.work, sv.attempt, st, f) BY Zenon DEF Accounted
<1>5. Subscriptions(sv) BY Zenon DEF Accounted
<1>6. sv.work \in Seq(Events) /\ sv.attempt \in Nat BY <1>1, Zenon DEF ServiceRec
<1>7. sv.work[1] \in Events /\ f[sv.work[1]] = "storing" /\ Len(sv.work) > 0 BY <1>3, <1>6 DEF Line
<1>8. Len(sv.work) = 1
  <2>1. Len(sv.work) \in Nat BY <1>6, LenNat, Zenon
  <2> QED BY <1>3, <1>7, <2>1, ExactlyOne, Zenon
<1>9. Tries(sv.work, sv.attempt + 1, m, f) BY <1>2, <1>4, <1>6, <1>7, <1>8, TriesAgain, Zenon
<1>10. m \in [Events -> Nat] BY <1>2, <1>7 DEF Tried
<1> DEFINE t == [sv EXCEPT !.attempt = sv.attempt + 1]
<1>11. t \in ServiceRec
  <2>1. sv.attempt + 1 \in Nat BY <1>6
  <2> QED BY <1>1, <2>1, Zenon DEF ServiceRec
<1>12. t.received = sv.received /\ t.invalid = sv.invalid /\ t.enqueued = sv.enqueued
  BY <1>1, Zenon DEF ServiceRec
<1>13. t.dropped = sv.dropped /\ t.persisted = sv.persisted /\ t.failures = sv.failures
  BY <1>1, Zenon DEF ServiceRec
<1>14. t.queue = sv.queue /\ t.work = sv.work /\ t.attempt = sv.attempt + 1 BY <1>1, Zenon DEF ServiceRec
<1>15. /\ t.subs = sv.subs /\ t.refreshers = sv.refreshers /\ t.subscribed = sv.subscribed
       /\ t.subscriberUp = sv.subscriberUp
  BY <1>1, Zenon DEF ServiceRec
<1> HIDE DEF t
<1>16. Subscriptions(t) BY <1>5, <1>15, Zenon DEF Subscriptions
<1>17. Tries(t.work, t.attempt, m, f) BY <1>9, <1>14, Zenon
<1>18. Accounted(ed, t, b, m, f) BY <1>10, <1>11, <1>12, <1>13, <1>14, <1>16, <1>17, ServiceKept, Zenon
<1> QED BY <1>18, Zenon DEF t

\* storeBatch keeps the account: it succeeds, fails and is tried again, or is given up.
LEMMA StoreStep ==
  ASSUME IngestInv, NEW ok \in BOOLEAN, NEW applied \in BOOLEAN, storeBatch(ok, applied)
  PROVE  IngestInv'
<1>1. service.work # <<>> /\ edge' = edge /\ bus' = bus BY Zenon DEF storeBatch
<1>2. Accounted(edge, service, bus, stored, fate) BY Zenon DEF IngestInv
<1>3. service.work \in Seq(Events) BY <1>2, Zenon DEF Accounted, IngestTyped, ServiceRec
<1>4. service.work[1] \in Events BY <1>1, <1>3, HeadOf, Zenon
<1>5. stored \in [Events -> Nat] BY <1>2, Zenon DEF Accounted, IngestTyped
<1>6. Tried(stored, stored', service.work[1])
  <2>1. CASE applied BY <2>1, Zenon DEF storeBatch, Tried
  <2>2. CASE ~applied
    <3>1. stored' = [stored EXCEPT ![service.work[1]] = stored[service.work[1]] + 0]
      BY <2>2, Zenon DEF storeBatch
    <3>2. stored' = stored BY <1>4, <1>5, <3>1
    <3> QED BY <3>2, Zenon DEF Tried
  <2> QED BY <2>1, <2>2, Zenon
<1>7. CASE ok
  <2>1. /\ service' = [service EXCEPT !.work = <<>>, !.persisted = service.persisted + 1]
        /\ Moved(service.work[1], "stored")
             /\ stored' = [stored EXCEPT ![service.work[1]] = stored[service.work[1]] + 1]
    BY <1>7, Zenon DEF storeBatch
  <2>2. Moves(fate, fate', service.work[1], "stored") BY <1>4, <2>1, MoveOf, Zenon
  <2>3. Accounted(edge, service', bus, stored', fate') BY <1>1, <1>2, <2>1, <2>2, Stored, Zenon
  <2> QED BY <1>1, <2>3, Zenon DEF IngestInv
<1>8. CASE ~ok /\ GiveUpAt(service.attempt)
  <2>1. /\ service' = [service EXCEPT !.work = <<>>, !.failures = service.failures + 1]
        /\ Moved(service.work[1], "failed")
    BY <1>8, Zenon DEF storeBatch, AfterFailure
  <2>2. Moves(fate, fate', service.work[1], "failed") BY <1>4, <2>1, MoveOf, Zenon
  <2>3. Accounted(edge, service', bus, stored', fate') BY <1>1, <1>2, <1>6, <2>1, <2>2, GivenUp, Zenon
  <2> QED BY <1>1, <2>3, Zenon DEF IngestInv
<1>9. CASE ~ok /\ ~GiveUpAt(service.attempt)
  <2>1. service' = [service EXCEPT !.attempt = service.attempt + 1] /\ fate' = fate
    BY <1>9, Zenon DEF storeBatch, AfterFailure
  <2>2. service.attempt # MaxRetries BY <1>9, Zenon DEF GiveUpAt
  <2>3. Accounted(edge, service', bus, stored', fate) BY <1>1, <1>2, <1>6, <2>1, <2>2, Retried, Zenon
  <2> QED BY <1>1, <2>1, <2>3, Zenon DEF IngestInv
<1> QED BY <1>7, <1>8, <1>9, Zenon

\* The edge stops publishing.
LEMMA EdgeStopStep ==
  ASSUME IngestInv, EdgeStops
  PROVE  IngestInv'
<1>1. /\ edge' = [edge EXCEPT !.running = FALSE] /\ bus' = bus /\ service' = service
      /\ stored' = stored /\ fate' = fate
  BY Zenon DEF EdgeStops
<1>2. Accounted(edge, service, bus, stored, fate) BY Zenon DEF IngestInv
<1>3. edge \in EdgeRec BY <1>2, Zenon DEF Accounted, IngestTyped
<1>4. edge' \in EdgeRec BY <1>1, <1>3, Zenon DEF EdgeRec
<1>5. /\ edge'.captured = edge.captured /\ edge'.dropped = edge.dropped /\ edge'.published = edge.published
      /\ edge'.failed = edge.failed
  BY <1>1, <1>3, Zenon DEF EdgeRec
<1>6. edge'.buffer = edge.buffer /\ edge'.writing = edge.writing BY <1>1, <1>3, Zenon DEF EdgeRec
<1>7. IngestTyped(edge', service, bus, stored, fate) BY <1>2, <1>4, Zenon DEF Accounted, IngestTyped
<1>8. Lines(edge', service, bus, fate) BY <1>2, <1>6, Zenon DEF Accounted, Lines
<1>9. EdgeCounts(edge', service, fate)
  <2>1. EdgeCounts(edge, service, fate) BY <1>2, Zenon DEF Accounted
  <2> QED BY <1>5, <1>6, <2>1, Zenon DEF EdgeCounts
<1>10. Accounted(edge', service, bus, stored, fate) BY <1>2, <1>7, <1>8, <1>9, Zenon DEF Accounted
<1> QED BY <1>1, <1>10, Zenon DEF IngestInv

\* What the watcher's checks and a stop leave of the service's record.
Steady(sv, t) ==
  /\ t \in ServiceRec
  /\ t.received = sv.received /\ t.invalid = sv.invalid /\ t.enqueued = sv.enqueued
  /\ t.dropped = sv.dropped /\ t.persisted = sv.persisted /\ t.failures = sv.failures
  /\ t.queue = sv.queue /\ t.work = sv.work /\ t.attempt = sv.attempt
  /\ Subscriptions(t)

\* Such a step keeps the account.
LEMMA SteadyStep ==
  ASSUME IngestInv, Steady(service, service'), edge' = edge, bus' = bus, stored' = stored, fate' = fate
  PROVE  IngestInv'
<1>1. Accounted(edge, service, bus, stored, fate) BY Zenon DEF IngestInv
<1>2. stored \in [Events -> Nat] BY <1>1, Zenon DEF Accounted, IngestTyped
<1>3. Tries(service.work, service.attempt, stored, fate) BY <1>1, Zenon DEF Accounted
<1>4. Tries(service'.work, service'.attempt, stored, fate) BY <1>3, Zenon DEF Steady
<1>5. /\ service' \in ServiceRec /\ service'.received = service.received
           /\ service'.invalid = service.invalid
      /\ service'.enqueued = service.enqueued /\ service'.dropped = service.dropped
      /\ service'.persisted = service.persisted /\ service'.failures = service.failures
      /\ service'.queue = service.queue /\ service'.work = service.work /\ Subscriptions(service')
  BY Zenon DEF Steady
<1>6. Accounted(edge, service', bus, stored, fate) BY <1>1, <1>2, <1>4, <1>5, ServiceKept, Zenon
<1> QED BY <1>6, Zenon DEF IngestInv

\* Whether a subscription succeeds or fails, or the checks end, the service has at most one of each.
LEMMA SubscribeFacts ==
  ASSUME NEW sv \in ServiceRec, Subscriptions(sv), ~sv.subscribed
  PROVE  Steady(sv, Subscribe(sv)) /\ Steady(sv, SubscribeFails(sv))
<1>1. sv.subs = 0 /\ sv.refreshers = 0 BY Zenon DEF Subscriptions
<1> DEFINE t == Subscribe(sv)
           v == SubscribeFails(sv)
<1>2. t = [sv EXCEPT !.worker = TRUE, !.subscriberUp = TRUE, !.subs = 1, !.subscribed = TRUE, !.refreshers
        = 1]
  <2>1. PICK w : w = [sv EXCEPT !.worker = TRUE] BY Zenon
  <2>2. w.subs = 0 /\ w.refreshers = 0 BY <1>1, <2>1, Zenon DEF ServiceRec
  <2>3. w.subs + 1 = 1 /\ w.refreshers + 1 = 1 BY <2>2
  <2>4. t = [w EXCEPT !.subscriberUp = TRUE, !.subs = w.subs + 1, !.subscribed = TRUE, !.refreshers
          = w.refreshers + 1]
    BY <2>1, Zenon DEF Subscribe, ensureIngestionWorker
  <2>5. t = [w EXCEPT !.subscriberUp = TRUE, !.subs = 1, !.subscribed = TRUE, !.refreshers = 1]
    BY <2>3, <2>4, Zenon
  <2> QED BY <2>1, <2>5, Zenon
<1>3. v = [sv EXCEPT !.worker = TRUE, !.subscriberUp = FALSE]
  BY Zenon DEF SubscribeFails, ensureIngestionWorker
<1> HIDE DEF t, v
<1>4. 1 \in Nat /\ TRUE \in BOOLEAN /\ FALSE \in BOOLEAN BY Zenon
<1>5. t \in ServiceRec BY <1>2, <1>4, Zenon DEF ServiceRec
<1>6. v \in ServiceRec BY <1>3, <1>4, Zenon DEF ServiceRec
<1>7. t.received = sv.received /\ t.invalid = sv.invalid /\ t.enqueued = sv.enqueued
  BY <1>2, Zenon DEF ServiceRec
<1>8. t.dropped = sv.dropped /\ t.persisted = sv.persisted /\ t.failures = sv.failures
  BY <1>2, Zenon DEF ServiceRec
<1>9. t.queue = sv.queue /\ t.work = sv.work /\ t.attempt = sv.attempt BY <1>2, Zenon DEF ServiceRec
<1>10. t.subs = 1 /\ t.refreshers = 1 /\ t.subscribed BY <1>2, Zenon DEF ServiceRec
<1>11. Subscriptions(t) BY <1>10 DEF Subscriptions
<1>12. Steady(sv, t) BY <1>5, <1>7, <1>8, <1>9, <1>11, Zenon DEF Steady
<1>13. v.received = sv.received /\ v.invalid = sv.invalid /\ v.enqueued = sv.enqueued
  BY <1>3, Zenon DEF ServiceRec
<1>14. v.dropped = sv.dropped /\ v.persisted = sv.persisted /\ v.failures = sv.failures
  BY <1>3, Zenon DEF ServiceRec
<1>15. v.queue = sv.queue /\ v.work = sv.work /\ v.attempt = sv.attempt BY <1>3, Zenon DEF ServiceRec
<1>16. v.subs = sv.subs /\ v.refreshers = sv.refreshers /\ v.subscriberUp = FALSE
  BY <1>3, Zenon DEF ServiceRec
<1>17. Subscriptions(v) BY <1>1, <1>16, Zenon DEF Subscriptions
<1>18. Steady(sv, v) BY <1>6, <1>13, <1>14, <1>15, <1>17, Zenon DEF Steady
<1> QED BY <1>12, <1>18, Zenon DEF t, v

\* The end of a pass over the checks sets hubReady and nothing else.
LEMMA CheckFacts ==
  ASSUME NEW sv, NEW t, NEW good \in BOOLEAN, Steady(sv, t), NextCheck(t, good)
  PROVE  Steady(sv, service')
<1>1. t \in ServiceRec BY Zenon DEF Steady
<1>2. CASE service' = t BY <1>2, Zenon
<1>3. CASE service' = [t EXCEPT !.hubReady = good]
  <2> DEFINE v == [t EXCEPT !.hubReady = good]
  <2>1. v \in ServiceRec BY <1>1, Zenon DEF ServiceRec
  <2>2. v.received = t.received /\ v.invalid = t.invalid /\ v.enqueued = t.enqueued
    BY <1>1, Zenon DEF ServiceRec
  <2>3. v.dropped = t.dropped /\ v.persisted = t.persisted /\ v.failures = t.failures
    BY <1>1, Zenon DEF ServiceRec
  <2>4. v.queue = t.queue /\ v.work = t.work /\ v.attempt = t.attempt BY <1>1, Zenon DEF ServiceRec
  <2>5. /\ v.subs = t.subs /\ v.refreshers = t.refreshers /\ v.subscribed = t.subscribed
        /\ v.subscriberUp = t.subscriberUp
    BY <1>1, Zenon DEF ServiceRec
  <2> HIDE DEF v
  <2>6. Subscriptions(v) BY <2>5, Zenon DEF Steady, Subscriptions
  <2>7. Steady(sv, v) BY <2>1, <2>2, <2>3, <2>4, <2>6, Zenon DEF Steady
  <2> QED BY <1>3, <2>7, Zenon DEF v
<1> QED BY <1>2, <1>3, Zenon DEF NextCheck

\* The readiness watcher.
LEMMA ProbeStep ==
  ASSUME IngestInv, Probe
  PROVE  IngestInv'
<1>1. edge' = edge /\ bus' = bus /\ stored' = stored /\ fate' = fate BY Zenon DEF Probe
<1>2. service \in ServiceRec /\ Subscriptions(service) BY Zenon DEF IngestInv, Accounted, IngestTyped
<1>3. Steady(service, service) BY <1>2, Zenon DEF Steady
<1>4. CASE Dependencies[watch.check] # "nats"
  <2>1. NextCheck(service, Dependencies[watch.check] \in answering) BY <1>4, Zenon DEF Probe
  <2>2. (Dependencies[watch.check] \in answering) \in BOOLEAN OBVIOUS
  <2>3. Steady(service, service') BY <1>3, <2>1, <2>2, CheckFacts, Zenon
  <2> QED BY <1>1, <2>3, SteadyStep, Zenon
<1>5. CASE Dependencies[watch.check] = "nats" /\ service.subscribed
  <2>1. NextCheck(service, TRUE) BY <1>5, Zenon DEF Probe
  <2>2. Steady(service, service') BY <1>3, <2>1, CheckFacts, Zenon
  <2> QED BY <1>1, <2>2, SteadyStep, Zenon
<1>6. CASE Dependencies[watch.check] = "nats" /\ ~service.subscribed
  <2>1. NextCheck(Subscribe(service), TRUE) \/ NextCheck(SubscribeFails(service), FALSE)
    BY <1>6, Zenon DEF Probe
  <2>2. Steady(service, Subscribe(service)) /\ Steady(service, SubscribeFails(service))
    BY <1>2, <1>6, SubscribeFacts, Zenon
  <2>3. Steady(service, service') BY <2>1, <2>2, CheckFacts, Zenon
  <2> QED BY <1>1, <2>3, SteadyStep, Zenon
<1> QED BY <1>4, <1>5, <1>6, Zenon

\* The service stops: it unsubscribes.
LEMMA ServiceStopStep ==
  ASSUME IngestInv, ServiceStops
  PROVE  IngestInv'
<1>1. /\ service' = [service EXCEPT !.stopping = TRUE, !.subs = 0, !.subscriberUp = FALSE, !.worker = FALSE,
                                    !.refreshers = 0]
      /\ edge' = edge /\ bus' = bus /\ stored' = stored /\ fate' = fate
  BY Zenon DEF ServiceStops
<1>2. service \in ServiceRec BY Zenon DEF IngestInv, Accounted, IngestTyped
<1> DEFINE t == [service EXCEPT !.stopping = TRUE, !.subs = 0, !.subscriberUp = FALSE, !.worker = FALSE,
                                !.refreshers = 0]
<1>3. t \in ServiceRec
  <2>1. 0 \in Nat /\ TRUE \in BOOLEAN /\ FALSE \in BOOLEAN BY Zenon
  <2> QED BY <1>2, <2>1, Zenon DEF ServiceRec
<1>4. t.received = service.received /\ t.invalid = service.invalid /\ t.enqueued = service.enqueued
  BY <1>2, Zenon DEF ServiceRec
<1>5. t.dropped = service.dropped /\ t.persisted = service.persisted /\ t.failures = service.failures
  BY <1>2, Zenon DEF ServiceRec
<1>6. t.queue = service.queue /\ t.work = service.work /\ t.attempt = service.attempt
  BY <1>2, Zenon DEF ServiceRec
<1>7. t.subs = 0 /\ t.refreshers = 0 /\ t.subscriberUp = FALSE BY <1>2, Zenon DEF ServiceRec
<1> HIDE DEF t
<1>8. Subscriptions(t) BY <1>7 DEF Subscriptions
<1>9. Steady(service, t) BY <1>3, <1>4, <1>5, <1>6, <1>8, Zenon DEF Steady
<1> QED BY <1>1, <1>9, SteadyStep, Zenon DEF t

\* Every step keeps the account.
LEMMA IngestStep ==
  ASSUME IngestInv, [IngestNext]_ingestVars
  PROVE  IngestInv'
<1>1. CASE IngestNext
  <2>1. CASE \E e \in Events, b \in BOOLEAN : observe(e, b) \/ Deliver(e, b)
    BY <2>1, ObserveStep, DeliverStep, Zenon
  <2>2. CASE PublisherTakes \/ EdgeStops \/ WorkerTakes \/ Probe \/ ServiceStops
    BY <2>2, FetchStep, EdgeStopStep, TakeStep, ProbeStep, ServiceStopStep, Zenon
  <2>3. CASE \E b \in BOOLEAN : publish(b) BY <2>3, PublishStep, Zenon
  <2>4. CASE \E e \in Events : BusLoses(e) BY <2>4, LoseStep, Zenon
  <2>5. CASE \E ok, applied \in BOOLEAN : storeBatch(ok, applied) BY <2>5, StoreStep, Zenon
  <2>6. CASE \E i \in DOMAIN Dependencies : DependencyChanges(Dependencies[i])
    BY <2>6, Zenon DEF DependencyChanges, IngestInv
  <2> QED BY <1>1, <2>1, <2>2, <2>3, <2>4, <2>5, <2>6, Zenon DEF IngestNext
<1>2. CASE UNCHANGED ingestVars BY <1>2, Zenon DEF ingestVars, IngestInv
<1> QED BY <1>1, <1>2, Zenon

----------------------------------------------------------------------------
(* The batcher's calls.                                                    *)

AnswerRec == [kind : {"none", "granted", "error", "refused", "fewer"}, of : SUBSET Calls]
WaitRec == [step : {"idle", "queued", "direct", "done"}, answer : AnswerRec]
BatchRec == [calls : Seq(Calls), alone : Nat, phase : {"sent", "alone", "answered"}]

\* A queue of calls, each in it once.
Among(c, q) == \E i \in DOMAIN q : q[i] = c
Once(q) == \A i, j \in DOMAIN q : q[i] = q[j] => i = j

\* A batch is as large as it may be, and a call waits in one place and is in none otherwise.
Sized(B) == \A b \in B : b.calls # <<>> /\ Len(b.calls) <= MaxItems /\ Once(b.calls)
Apart(p, B) ==
  /\ Once(p)
  /\ \A b \in B : \A c \in Calls : ~(Among(c, b.calls) /\ Among(c, p))
  /\ \A b1, b2 \in B : b1 # b2 => \A c \in Calls : ~(Among(c, b1.calls) /\ Among(c, b2.calls))
Waits(c, p, B) == Among(c, p) \/ \E b \in B : Among(c, b.calls)
Queue(p, B) == p \in Seq(Calls) /\ B \subseteq BatchRec /\ IsFiniteSet(B) /\ Sized(B) /\ Apart(p, B)
Counted(p, B, n) == n = Cardinality(B) /\ n <= MaxInflight /\ (p # <<>> => n = MaxInflight)

\* The calls of a batch that has its answers, or has asked for some alone, have answers to themselves.
Own(c) == waiter[c].answer.of = {c}
BatchOwn(b) ==
  /\ b.phase = "sent" => b.alone = 0
  /\ b.phase = "answered" => \A i \in DOMAIN b.calls : Own(b.calls[i])
  /\ b.phase = "alone" => b.alone < Len(b.calls) /\ \A i \in 1 .. b.alone : Own(b.calls[i])
Answers == (\A c \in Calls : waiter[c].step = "done" => Own(c)) /\ \A b \in batches : BatchOwn(b)
Placed == \A c \in Calls : waiter[c].step = "queued" <=> Waits(c, pending, batches)
BatchInv ==
  /\ waiter \in [Calls -> WaitRec] /\ unbatched \in BOOLEAN
  /\ Queue(pending, batches) /\ Counted(pending, batches, inflight) /\ Placed /\ Answers

\* Answers are answers to one call.
LEMMA AnswerFacts ==
  ASSUME NEW c \in Calls, NEW kind \in {"none", "granted", "error", "refused", "fewer"}
  PROVE  AnswerTo(kind, c) \in AnswerRec /\ AnswerTo(kind, c).of = {c}
BY Zenon DEF AnswerTo, AnswerRec

\* Two requests of a batch that are granted have different places in the ledger call.
LEMMA RankFacts ==
  ASSUME NEW q \in Seq(Calls), NEW refused, NEW i \in 1 .. Len(q), q[i] \notin refused
  PROVE  /\ Rank(q, refused, i) \in 1 .. Rank(q, refused, Len(q))
         /\ \A k \in 1 .. Len(q) : q[k] \notin refused /\ Rank(q, refused, k) = Rank(q, refused, i) => k = i
<1> DEFINE H(k) == {h \in 1 .. k : q[h] \notin refused}
<1>1. Len(q) \in Nat /\ \A k \in 1 .. Len(q) : k \in Nat BY SMT
<1>2. ASSUME NEW k \in Nat PROVE IsFiniteSet(H(k)) /\ Cardinality(H(k)) \in Nat
  <2>1. IsFiniteSet(1 .. k) BY <1>2, FS_Interval, SMT
  <2>2. H(k) \subseteq 1 .. k BY Zenon
  <2>3. IsFiniteSet(H(k)) BY <2>1, <2>2, FS_Subset, Zenon
  <2> QED BY <2>3, FS_CardinalityType, Zenon
<1>3. ASSUME NEW j \in Nat, NEW k \in Nat, j <= k PROVE H(j) \subseteq H(k) BY <1>3
<1>4. ASSUME NEW j \in 1 .. Len(q), NEW k \in 1 .. Len(q), q[j] \notin refused, q[k] \notin refused, j < k
      PROVE  Cardinality(H(j)) # Cardinality(H(k))
  <2>1. j \in Nat /\ k \in Nat /\ j <= k /\ k \in 1 .. k /\ ~(k \in 1 .. j) BY <1>4
  <2>2. H(j) \subseteq H(k) /\ k \in H(k) /\ k \notin H(j) BY <1>3, <1>4, <2>1, Zenon
  <2>3. IsFiniteSet(H(k)) BY <1>2, <2>1, Zenon
  <2> QED BY <2>2, <2>3, FS_Subset, Zenon
<1>5. Cardinality(H(i)) \in 1 .. Cardinality(H(Len(q)))
  <2>1. i \in Nat /\ i <= Len(q) /\ i \in 1 .. i BY SMT
  <2>2. H(i) \subseteq H(Len(q)) /\ i \in H(i) BY <1>1, <1>3, <2>1, Zenon
  <2>3. IsFiniteSet(H(Len(q))) /\ Cardinality(H(Len(q))) \in Nat BY <1>1, <1>2, Zenon
  <2>4. IsFiniteSet(H(i)) /\ Cardinality(H(i)) \in Nat BY <1>2, <2>1, Zenon
  <2>5. Cardinality(H(i)) <= Cardinality(H(Len(q))) BY <2>2, <2>3, FS_Subset, Zenon
  <2>6. Cardinality(H(i)) # 0 BY <2>2, <2>4, FS_EmptySet, Zenon
  <2> QED BY <2>3, <2>4, <2>5, <2>6, SMT
<1>6. \A k : Rank(q, refused, k) = Cardinality(H(k)) BY Zenon DEF Rank
<1> HIDE DEF H
<1>7. ASSUME NEW k \in 1 .. Len(q), q[k] \notin refused, Cardinality(H(k)) = Cardinality(H(i)) PROVE k = i
  <2>1. k < i \/ i < k \/ k = i BY SMT
  <2> QED BY <1>4, <1>7, <2>1, Zenon
<1>8. Rank(q, refused, i) \in 1 .. Rank(q, refused, Len(q)) BY <1>5, <1>6, SMT
<1>9. \A k \in 1 .. Len(q) : q[k] \notin refused /\ Rank(q, refused, k) = Rank(q, refused, i) => k = i
  BY <1>6, <1>7, SMT
<1> QED BY <1>8, <1>9, Zenon

\* Every request of a batch is answered at its own place, refused or granted (RequestQuotaLeases).
LEMMA PlacesFacts ==
  ASSUME NEW q \in Seq(Calls), NEW refused
  PROVE  /\ Places(q, refused) \in Seq(AnswerRec) /\ Len(Places(q, refused)) = Len(q)
         /\ \A i \in 1 .. Len(q) : Places(q, refused)[i].of = {q[i]}
<1> DEFINE index(j) == CHOOSE i \in DOMAIN q : q[i] \notin refused /\ Rank(q, refused, i) = j
           grants == [j \in 1 .. Rank(q, refused, Len(q)) |-> AnswerTo("granted", q[index(j)])]
           At(i) == IF q[i] \in refused THEN AnswerTo("refused", q[i]) ELSE grants[Rank(q, refused, i)]
<1>1. Places(q, refused) = [i \in DOMAIN q |-> At(i)] BY Zenon DEF Places
<1>2. DOMAIN q = 1 .. Len(q) /\ Len(q) \in Nat /\ \A i \in 1 .. Len(q) : q[i] \in Calls OBVIOUS
<1>3. ASSUME NEW i \in 1 .. Len(q), q[i] \notin refused
      PROVE  grants[Rank(q, refused, i)] = AnswerTo("granted", q[i])
  <2>1. Rank(q, refused, i) \in 1 .. Rank(q, refused, Len(q)) BY <1>3, RankFacts, Zenon
  <2>2. index(Rank(q, refused, i)) = i
    <3>1. \A k \in DOMAIN q : q[k] \notin refused /\ Rank(q, refused, k) = Rank(q, refused, i) => k = i
      BY <1>2, <1>3, RankFacts, Zenon
    <3> QED BY <1>2, <1>3, <3>1, Zenon
  <2> QED BY <2>1, <2>2, Zenon
<1> HIDE DEF index, grants
<1>4. ASSUME NEW i \in 1 .. Len(q) PROVE At(i) \in AnswerRec /\ At(i).of = {q[i]}
  <2>1. At(i) \in {AnswerTo("refused", q[i]), AnswerTo("granted", q[i])} BY <1>3, <1>4, Zenon
  <2> QED BY <1>2, <1>4, <2>1, AnswerFacts, Zenon
<1> HIDE DEF At
<1>5. Places(q, refused) \in [1 .. Len(q) -> AnswerRec] BY <1>1, <1>2, <1>4, Zenon
<1>6. Places(q, refused) \in Seq(AnswerRec) /\ Len(Places(q, refused)) = Len(q) BY <1>2, <1>5, SMT
<1> QED BY <1>1, <1>2, <1>4, <1>6, Zenon

\* A queue to which a call is added that was not in it.
LEMMA AppendOnce ==
  ASSUME NEW q \in Seq(Calls), NEW c \in Calls, Once(q), ~Among(c, q)
  PROVE  /\ Append(q, c) \in Seq(Calls) /\ Once(Append(q, c)) /\ Append(q, c) # <<>>
         /\ \A d : Among(d, Append(q, c)) <=> d = c \/ Among(d, q)
         /\ q = <<>> => Len(Append(q, c)) = 1
<1> DEFINE p == Append(q, c)
           n == Len(q)
<1>1. /\ p \in Seq(Calls) /\ n \in Nat /\ DOMAIN p = 1 .. n + 1 /\ DOMAIN q = 1 .. n /\ p[n + 1] = c
      /\ p # <<>> /\ Len(p) = n + 1 /\ (q = <<>> => n = 0)
      /\ \A i \in 1 .. n : p[i] = q[i]
      /\ \A i \in 1 .. n + 1 : i = n + 1 \/ i \in 1 .. n
      /\ \A i \in 1 .. n : i \in 1 .. n + 1
      /\ n + 1 \in 1 .. n + 1
  OBVIOUS
<1> HIDE DEF p, n
<1>2. Once(p) BY <1>1, Zenon DEF Once, Among
<1>3. \A d : Among(d, p) <=> d = c \/ Among(d, q) BY <1>1, Zenon DEF Among
<1>4. q = <<>> => Len(p) = 1 BY <1>1, SMT
<1> QED BY <1>1, <1>2, <1>3, <1>4, Zenon DEF p

\* What is left of a queue after its first k calls.
LEMMA RestFacts ==
  ASSUME NEW q \in Seq(Calls), NEW k \in Nat, k <= Len(q)
  PROVE  /\ SubSeq(q, k + 1, Len(q)) \in Seq(Calls) /\ Len(SubSeq(q, k + 1, Len(q))) = Len(q) - k
         /\ DOMAIN SubSeq(q, k + 1, Len(q)) = 1 .. Len(q) - k
         /\ k = Len(q) => SubSeq(q, k + 1, Len(q)) = <<>>
BY SMT

\* The first n answers of a batch.
LEMMA HeadFacts ==
  ASSUME NEW out \in Seq(AnswerRec), NEW n \in Nat, n <= Len(out)
  PROVE  /\ SubSeq(out, 1, n) \in Seq(AnswerRec) /\ Len(SubSeq(out, 1, n)) = n
         /\ \A i \in 1 .. n : SubSeq(out, 1, n)[i] = out[i]
BY SMT

\* A queue q whose first k calls are a and whose others are z.
SplitsAt(q, k, a, z) ==
  /\ a \in Seq(Calls) /\ z \in Seq(Calls) /\ Once(a) /\ Once(z) /\ a # <<>> /\ Len(a) = k
  /\ \A c : Among(c, q) <=> Among(c, a) \/ Among(c, z)
  /\ \A c : ~(Among(c, a) /\ Among(c, z))
  /\ k = Len(q) => z = <<>>

\* A queue of which the first k calls are taken.
LEMMA SplitOnce ==
  ASSUME NEW q \in Seq(Calls), NEW k \in 1 .. Len(q), Once(q)
  PROVE  SplitsAt(q, k, SubSeq(q, 1, k), SubSeq(q, k + 1, Len(q)))
<1> DEFINE a == SubSeq(q, 1, k)
           z == SubSeq(q, k + 1, Len(q))
           n == Len(q)
           m == n - k
<1>1. n \in Nat /\ k \in Nat /\ 1 <= k /\ k <= n /\ m \in Nat /\ DOMAIN q = 1 .. n OBVIOUS
<1>2. a \in Seq(Calls) /\ Len(a) = k /\ DOMAIN a = 1 .. k /\ \A i \in 1 .. k : a[i] = q[i] BY <1>1
<1>3. z \in Seq(Calls) /\ Len(z) = m /\ DOMAIN z = 1 .. m /\ \A i \in 1 .. m : z[i] = q[k + i]
  <2>1. k + 1 \in Nat /\ n - (k + 1) + 1 = m BY <1>1
  <2>2. z \in Seq(Calls) /\ Len(z) = m /\ DOMAIN z = 1 .. m BY <1>1, RestFacts, Zenon
  <2>3. ASSUME NEW i \in 1 .. m PROVE z[i] = q[k + i]
    <3>1. (k + 1) + i - 1 = k + i BY <1>1
    <3>2. z[i] = q[(k + 1) + i - 1] BY <1>1, <2>1
    <3> QED BY <3>1, <3>2, Zenon
  <2> QED BY <2>2, <2>3, Zenon
<1>4. a # <<>> /\ (k = n => z = <<>>)
  <2>1. a # <<>> BY <1>1, <1>2
  <2>2. k = n => z = <<>> BY <1>1, RestFacts, Zenon
  <2> QED BY <2>1, <2>2, Zenon
<1> HIDE DEF a, z
<1>5. /\ \A i \in 1 .. k : i \in 1 .. n
      /\ \A i \in 1 .. m : k + i \in 1 .. n /\ \A j \in 1 .. m : k + i = k + j => i = j
      /\ \A i \in 1 .. k, j \in 1 .. m : i # k + j
      /\ \A i \in 1 .. n : i \in 1 .. k \/ \E j \in 1 .. m : i = k + j
  <2>1. ASSUME NEW i \in 1 .. n, i \notin 1 .. k PROVE i - k \in 1 .. m /\ i = k + (i - k)
    BY <1>1, <2>1
  <2>2. \A i \in 1 .. n : i \in 1 .. k \/ \E j \in 1 .. m : i = k + j BY <2>1, Zenon
  <2>3. /\ \A i \in 1 .. k : i \in 1 .. n
        /\ \A i \in 1 .. m : k + i \in 1 .. n /\ \A j \in 1 .. m : k + i = k + j => i = j
        /\ \A i \in 1 .. k, j \in 1 .. m : i # k + j
    BY <1>1
  <2> QED BY <2>2, <2>3, Zenon
<1> HIDE DEF n, m
<1>6. Once(a) BY <1>1, <1>2, <1>5, Zenon DEF Once
<1>7. Once(z)
  <2> SUFFICES ASSUME NEW i \in 1 .. m, NEW j \in 1 .. m, z[i] = z[j] PROVE i = j BY <1>3, Zenon DEF Once
  <2>1. q[k + i] = q[k + j] /\ k + i \in DOMAIN q /\ k + j \in DOMAIN q BY <1>1, <1>3, <1>5, Zenon
  <2> QED BY <1>5, <2>1, Zenon DEF Once
<1>8. \A c : Among(c, q) => Among(c, a) \/ Among(c, z)
  <2> SUFFICES ASSUME NEW i \in 1 .. n PROVE Among(q[i], a) \/ Among(q[i], z) BY <1>1, Zenon DEF Among
  <2>1. CASE i \in 1 .. k BY <1>2, <2>1, Zenon DEF Among
  <2>2. CASE i \notin 1 .. k
    <3>1. PICK j \in 1 .. m : i = k + j BY <1>5, <2>2, Zenon
    <3> QED BY <1>3, <3>1, Zenon DEF Among
  <2> QED BY <2>1, <2>2, Zenon
<1>9. \A c : Among(c, a) \/ Among(c, z) => Among(c, q)
  <2>1. \A i \in DOMAIN a : Among(a[i], q) BY <1>1, <1>2, <1>5, Zenon DEF Among
  <2>2. \A i \in DOMAIN z : Among(z[i], q) BY <1>1, <1>3, <1>5, Zenon DEF Among
  <2> QED BY <2>1, <2>2, Zenon DEF Among
<1>10. \A c : ~(Among(c, a) /\ Among(c, z))
  <2> SUFFICES ASSUME NEW c, Among(c, a), Among(c, z) PROVE FALSE BY Zenon
  <2>2. PICK i \in 1 .. k : a[i] = c BY <1>2, Zenon DEF Among
  <2>3. PICK j \in 1 .. m : z[j] = c BY <1>3, Zenon DEF Among
  <2>1. q[i] = q[k + j] /\ i \in DOMAIN q /\ k + j \in DOMAIN q BY <1>1, <1>2, <1>3, <1>5, <2>2, <2>3, Zenon
  <2> QED BY <1>5, <2>1, Zenon DEF Once
<1> QED BY <1>2, <1>3, <1>4, <1>6, <1>7, <1>8, <1>9, <1>10, Zenon DEF a, z, n, SplitsAt

\* A batch's calls are calls, and it has a first one.
LEMMA BatchFacts ==
  ASSUME NEW p, NEW B, Queue(p, B), NEW b \in B
  PROVE  /\ b \in BatchRec /\ b.calls \in Seq(Calls) /\ b.alone \in Nat
           /\ DOMAIN b.calls = 1 .. Len(b.calls)
         /\ Len(b.calls) \in Nat /\ Len(b.calls) > 0 /\ b.calls[1] \in Calls /\ Among(b.calls[1], b.calls)
         /\ \A c : Among(c, b.calls) => c \in Calls
<1>1. b \in BatchRec /\ b.calls # <<>> BY Zenon DEF Queue, Sized
<1>2. PICK q \in Seq(Calls) : q = b.calls BY <1>1, Zenon DEF BatchRec
<1>3. b.alone \in Nat BY <1>1, Zenon DEF BatchRec
<1>4. /\ DOMAIN q = 1 .. Len(q) /\ Len(q) \in Nat /\ Len(q) > 0 /\ q[1] \in Calls /\ 1 \in DOMAIN q
      /\ \A i \in DOMAIN q : q[i] \in Calls
  BY <1>1, <1>2
<1> QED BY <1>1, <1>2, <1>3, <1>4, Zenon DEF Among

\* A batch that starts has a free slot and takes the first calls that wait (takeLocked).
LEMMA TakeFacts ==
  ASSUME NEW p, NEW B, Queue(p, B), NEW n, n = Cardinality(B), n <= MaxInflight, takeLocked(p, B, n),
         p # <<>> /\ n < MaxInflight => Len(p) <= MaxItems \/ n + 1 = MaxInflight
  PROVE  /\ Queue(pending', batches') /\ Counted(pending', batches', inflight')
         /\ \A c \in Calls : Waits(c, pending', batches') <=> Waits(c, p, B)
         /\ B \subseteq batches' /\ \A b \in batches' \ B : b.phase = "sent" /\ b.alone = 0
<1>1. n \in Nat /\ MaxInflight \in Nat /\ MaxItems \in Nat /\ MaxItems > 0
  <2>1. n \in Nat BY FS_CardinalityType, Zenon DEF Queue
  <2> QED BY <2>1, BatcherSettings
<1>2. CASE ~Starts(p, n)
  <2>1. pending' = p /\ batches' = B /\ inflight' = n BY <1>2, Zenon DEF takeLocked
  <2>2. p # <<>> => ~(n < MaxInflight) BY <1>2, Zenon DEF Starts
  <2>3. p # <<>> => n = MaxInflight BY <1>1, <2>2, SMT
  <2> QED BY <2>1, <2>3, Zenon DEF Counted
<1>3. CASE Starts(p, n)
  <2>1. p # <<>> /\ n < MaxInflight /\ p \in Seq(Calls) BY <1>3, Zenon DEF Starts, Queue
  <2>2. Len(p) \in Nat /\ Len(p) > 0 BY <2>1
  <2>3. PICK k \in 1 .. Len(p) : k = Least(Len(p), MaxItems)
    <3>1. Least(Len(p), MaxItems) \in 1 .. Len(p) BY <1>1, <2>2 DEF Least
    <3> QED BY <3>1, Zenon
  <2>4. k <= MaxItems /\ (Len(p) <= MaxItems => k = Len(p)) BY <1>1, <2>2, <2>3 DEF Least
  <2>17. PICK a, z : a = SubSeq(p, 1, k) /\ z = SubSeq(p, k + 1, Len(p)) /\ SplitsAt(p, k, a, z)
    <3>1. Once(p) BY Zenon DEF Queue, Apart
    <3> QED BY <2>1, <3>1, SplitOnce, Zenon
  <2>5. /\ a \in Seq(Calls) /\ z \in Seq(Calls) /\ Once(a) /\ Once(z) /\ a # <<>> /\ Len(a) = k
        /\ \A c : Among(c, p) <=> Among(c, a) \/ Among(c, z)
        /\ \A c : ~(Among(c, a) /\ Among(c, z))
        /\ k = Len(p) => z = <<>>
    BY <2>17, Zenon DEF SplitsAt
  <2>6. PICK f : f = [calls |-> a, alone |-> 0, phase |-> "sent"] BY Zenon
  <2>7. f \in BatchRec /\ f.calls = a /\ f.phase = "sent" /\ f.alone = 0 BY <2>5, <2>6, Zenon DEF BatchRec
  <2>8. pending' = z /\ inflight' = n + 1 /\ batches' = B \cup {f}
    BY <1>3, <2>3, <2>17, <2>6, Zenon DEF takeLocked
  <2>9. PICK d \in Calls : Among(d, a)
    <3>1. 1 \in DOMAIN a /\ a[1] \in Calls BY <2>5
    <3> QED BY <3>1, Zenon DEF Among
  <2>10. f \notin B BY <2>5, <2>7, <2>9, Zenon DEF Queue, Apart
  <2>11. IsFiniteSet(batches') /\ Cardinality(batches') = n + 1
    BY <2>8, <2>10, FS_AddElement, Zenon DEF Queue
  <2>12. Sized(batches') BY <2>4, <2>5, <2>7, <2>8, Zenon DEF Queue, Sized
  <2>13. Apart(pending', batches')
    <3>1. \A b \in B : \A c \in Calls : ~(Among(c, b.calls) /\ Among(c, p)) BY Zenon DEF Queue, Apart
    <3>2. \A b1, b2 \in B : b1 # b2 => \A c \in Calls : ~(Among(c, b1.calls) /\ Among(c, b2.calls))
      BY Zenon DEF Queue, Apart
    <3>3. \A b \in batches' : b = f \/ b \in B BY <2>8, Zenon
    <3>4. \A b \in batches' : \A c \in Calls : ~(Among(c, b.calls) /\ Among(c, z))
      BY <2>5, <2>7, <3>1, <3>3, Zenon
    <3>5. \A b \in B : \A c \in Calls : ~(Among(c, b.calls) /\ Among(c, f.calls))
      BY <2>5, <2>7, <3>1, Zenon
    <3>6. \A b1, b2 \in batches' : b1 # b2 => \A c \in Calls : ~(Among(c, b1.calls) /\ Among(c, b2.calls))
      BY <3>2, <3>3, <3>5, Zenon
    <3> QED BY <2>5, <2>8, <3>4, <3>6, Zenon DEF Apart
  <2>14. Queue(pending', batches') BY <2>5, <2>7, <2>8, <2>11, <2>12, <2>13, Zenon DEF Queue
  <2>15. Counted(pending', batches', inflight')
    <3>1. n + 1 <= MaxInflight BY <1>1, <2>1, SMT
    <3>2. pending' # <<>> => n + 1 = MaxInflight BY <2>1, <2>4, <2>5, <2>8, Zenon
    <3> QED BY <2>8, <2>11, <3>1, <3>2, Zenon DEF Counted
  <2>16. \A c \in Calls : Waits(c, pending', batches') <=> Waits(c, p, B)
    BY <2>5, <2>7, <2>8, Zenon DEF Waits
  <2> QED BY <2>7, <2>8, <2>14, <2>15, <2>16, Zenon
<1> QED BY <1>2, <1>3, Zenon

\* D holds the calls that B holds, batch for batch.
SameCalls(p, B, D) ==
  Queue(p, D) /\ Cardinality(D) = Cardinality(B) /\ \A c \in Calls : Waits(c, p, D) <=> Waits(c, p, B)

\* A batch that only changes its phase.
LEMMA SwapFacts ==
  ASSUME NEW p, NEW B, Queue(p, B), NEW b \in B, NEW f \in BatchRec, f.calls = b.calls
  PROVE  SameCalls(p, B, (B \ {b}) \cup {f})
<1> DEFINE D == (B \ {b}) \cup {f}
<1>1. PICK d \in Calls : Among(d, b.calls) BY BatchFacts, Zenon
<1>2. f \notin B \ {b} BY <1>1, Zenon DEF Queue, Apart
<1>3. IsFiniteSet(B \ {b}) /\ Cardinality(B \ {b}) = Cardinality(B) - 1 /\ Cardinality(B) \in Nat
  BY FS_RemoveElement, FS_CardinalityType, Zenon DEF Queue
<1>4. IsFiniteSet(D) /\ Cardinality(D) = Cardinality(B \ {b}) + 1 BY <1>2, <1>3, FS_AddElement, Zenon
<1>5. Cardinality(D) = Cardinality(B) BY <1>3, <1>4, SMT
<1>6. \A x \in D : x = f \/ (x \in B /\ x # b) BY Zenon
<1>7. Sized(D) BY <1>6, Zenon DEF Queue, Sized
<1>8. Apart(p, D)
  <2>1. \A x \in D : \A c \in Calls : ~(Among(c, x.calls) /\ Among(c, p)) BY <1>6, Zenon DEF Queue, Apart
  <2>2. ASSUME NEW b1 \in D, NEW b2 \in D, b1 # b2, NEW c \in Calls, Among(c, b1.calls), Among(c, b2.calls)
        PROVE  FALSE
    <3>1. PICK x1 \in B : x1.calls = b1.calls /\ (x1 = b <=> b1 = f) BY <1>2, <1>6, <2>2, Zenon
    <3>2. PICK x2 \in B : x2.calls = b2.calls /\ (x2 = b <=> b2 = f) BY <1>2, <1>6, <2>2, Zenon
    <3>3. x1 # x2
      <4> SUFFICES ASSUME x1 = x2 PROVE FALSE BY Zenon
      <4>1. CASE b1 = f \/ b2 = f BY <2>2, <3>1, <3>2, <4>1, Zenon
      <4>2. CASE b1 # f /\ b2 # f
        <5>1. b1 \in B /\ b2 \in B BY <1>6, <2>2, <4>2, Zenon
        <5> QED BY <2>2, <5>1, Zenon DEF Queue, Apart
      <4> QED BY <4>1, <4>2, Zenon
    <3> QED BY <2>2, <3>1, <3>2, <3>3, Zenon DEF Queue, Apart
  <2> QED BY <2>1, <2>2, Zenon DEF Queue, Apart
<1>9. Queue(p, D) BY <1>4, <1>6, <1>7, <1>8, Zenon DEF Queue
<1>10. \A c \in Calls : Waits(c, p, D) <=> Waits(c, p, B)
  <2>1. f \in D /\ \A x \in B : x = b \/ x \in D BY Zenon
  <2> QED BY <1>6, <2>1, Zenon DEF Waits
<1> QED BY <1>5, <1>9, <1>10, Zenon DEF SameCalls

\* The edge's first lease request finds an empty batcher (NewBatcher).
LEMMA BatchStart == BatchInit => BatchInv
<1> SUFFICES ASSUME BatchInit PROVE BatchInv BY Zenon
<1>1. waiter \in [Calls -> WaitRec] /\ \A c \in Calls : waiter[c].step = "idle"
  BY Zenon DEF BatchInit, WaitRec, AnswerRec, NoAnswer
<1>2. pending = <<>> /\ batches = {} /\ inflight = 0 /\ unbatched = FALSE BY Zenon DEF BatchInit
<1>3. <<>> \in Seq(Calls) /\ DOMAIN <<>> = {} OBVIOUS
<1>4. IsFiniteSet({}) /\ Cardinality({}) = 0 BY FS_EmptySet, Zenon
<1>5. 0 <= MaxInflight BY BatcherSettings
<1>6. Queue(pending, batches) BY <1>2, <1>3, <1>4, Zenon DEF Queue, Sized, Apart, Once, Among
<1>7. Counted(pending, batches, inflight) BY <1>2, <1>4, <1>5, Zenon DEF Counted
<1>8. Placed BY <1>1, <1>2, <1>3, Zenon DEF Placed, Waits, Among
<1>9. Answers BY <1>1, <1>2, Zenon DEF Answers
<1> QED BY <1>1, <1>2, <1>6, <1>7, <1>8, <1>9, Zenon DEF BatchInv

\* An answer of its own is not lost, so a batch that has them keeps them.
LEMMA OwnKept ==
  ASSUME BatchInv, \A c \in Calls : Own(c) => Own(c)', NEW b \in batches
  PROVE  BatchOwn(b)'
<1>1. Queue(pending, batches) /\ BatchOwn(b) BY Zenon DEF BatchInv, Answers
<1>2. PICK q \in Seq(Calls) : q = b.calls BY <1>1, BatchFacts, Zenon
<1>3. b.alone \in Nat BY <1>1, BatchFacts, Zenon
<1>4. DOMAIN q = 1 .. Len(q) /\ Len(q) \in Nat /\ \A i \in DOMAIN q : q[i] \in Calls BY <1>2
<1>5. \A i \in DOMAIN q : Own(q[i]) => Own(q[i])' BY <1>4, Zenon
<1>6. b.alone < Len(q) => \A i \in 1 .. b.alone : i \in DOMAIN q BY <1>3, <1>4, SMT
<1> QED BY <1>1, <1>2, <1>5, <1>6, Zenon DEF BatchOwn

\* A call is queued and a batch started if one may be, or it goes out alone (RequestQuotaLease).
LEMMA BatchRequest ==
  ASSUME BatchInv, NEW c \in Calls, RequestQuotaLease(c)
  PROVE  BatchInv'
<1>1. /\ waiter \in [Calls -> WaitRec] /\ waiter[c] \in WaitRec /\ waiter[c].step = "idle"
      /\ unbatched' \in BOOLEAN /\ Queue(pending, batches) /\ Counted(pending, batches, inflight)
      /\ Placed /\ Answers
  BY Zenon DEF BatchInv, RequestQuotaLease
<1>2. waiter[c].answer \in AnswerRec /\ \A d \in Calls : waiter[d] \in WaitRec BY <1>1, Zenon DEF WaitRec
<1>3. ASSUME NEW s \in {"queued", "direct"}, waiter' = [waiter EXCEPT ![c].step = s]
      PROVE  /\ waiter' \in [Calls -> WaitRec] /\ waiter'[c].step = s
             /\ \A d \in Calls : Own(d) => Own(d)'
             /\ \A d \in Calls : d # c => waiter'[d] = waiter[d]
  <2>1. s \in {"idle", "queued", "direct", "done"} BY <1>3, Zenon
  <2>2. PICK w : w = [waiter[c] EXCEPT !.step = s] BY Zenon
  <2>3. w \in WaitRec /\ w.step = s /\ w.answer = waiter[c].answer
    BY <1>1, <2>1, <2>2, Zenon DEF WaitRec
  <2>4. waiter' \in [Calls -> WaitRec] /\ waiter'[c] = w /\ \A d \in Calls : d # c => waiter'[d] = waiter[d]
    BY <1>1, <1>3, <2>2, <2>3, Zenon
  <2>5. \A d \in Calls : waiter'[d].answer = waiter[d].answer BY <2>3, <2>4, Zenon
  <2>6. \A d \in Calls : Own(d) => Own(d)' BY <2>5, Zenon DEF Own
  <2> QED BY <2>3, <2>4, <2>6, Zenon
<1>4. CASE unbatched
  <2>1. waiter' = [waiter EXCEPT ![c].step = "direct"] /\ UNCHANGED <<pending, batches, inflight>>
    BY <1>4, Zenon DEF RequestQuotaLease
  <2>2. /\ waiter' \in [Calls -> WaitRec] /\ waiter'[c].step = "direct"
        /\ \A d \in Calls : Own(d) => Own(d)'
        /\ \A d \in Calls : d # c => waiter'[d] = waiter[d]
    BY <1>3, <2>1, Zenon
  <2>3. pending' = pending /\ batches' = batches /\ inflight' = inflight BY <2>1, Zenon
  <2>4. ~Waits(c, pending, batches) BY <1>1, Zenon DEF Placed
  <2>5. Placed' BY <1>1, <2>2, <2>3, <2>4, Zenon DEF Placed
  <2>6. Answers' BY <1>1, <2>2, <2>3, OwnKept, Zenon DEF Answers
  <2> QED BY <1>1, <2>2, <2>3, <2>5, <2>6, Zenon DEF BatchInv
<1>5. CASE ~unbatched
  <2>1. waiter' = [waiter EXCEPT ![c].step = "queued"] /\ takeLocked(Append(pending, c), batches, inflight)
    BY <1>5, Zenon DEF RequestQuotaLease
  <2>2. /\ waiter' \in [Calls -> WaitRec] /\ waiter'[c].step = "queued"
        /\ \A d \in Calls : Own(d) => Own(d)'
        /\ \A d \in Calls : d # c => waiter'[d] = waiter[d]
    BY <1>3, <2>1, Zenon
  <2>3. ~Waits(c, pending, batches) BY <1>1, Zenon DEF Placed
  <2>4. PICK p : p = Append(pending, c) BY Zenon
  <2>5. /\ p \in Seq(Calls) /\ Once(p) /\ p # <<>> /\ (\A d : Among(d, p) <=> d = c \/ Among(d, pending))
        /\ pending = <<>> => Len(p) = 1
    BY <1>1, <2>3, <2>4, AppendOnce, Zenon DEF Queue, Apart, Waits
  <2>6. Queue(p, batches) BY <1>1, <2>3, <2>5, Zenon DEF Queue, Apart, Waits
  <2>7. inflight < MaxInflight => Len(p) <= MaxItems
    <3>1. inflight \in Nat BY <1>1, FS_CardinalityType, Zenon DEF Counted, Queue
    <3>2. pending # <<>> => inflight = MaxInflight BY <1>1, Zenon DEF Counted
    <3> QED BY <2>5, <3>1, <3>2, BatcherSettings
  <2>8. /\ Queue(pending', batches') /\ Counted(pending', batches', inflight')
        /\ \A d \in Calls : Waits(d, pending', batches') <=> Waits(d, p, batches)
        /\ batches \subseteq batches' /\ \A b \in batches' \ batches : b.phase = "sent" /\ b.alone = 0
    <3>1. inflight = Cardinality(batches) /\ inflight <= MaxInflight BY <1>1, Zenon DEF Counted
    <3> QED BY <2>1, <2>4, <2>6, <2>7, <3>1, TakeFacts, Zenon
  <2>9. \A d \in Calls : Waits(d, p, batches) <=> d = c \/ Waits(d, pending, batches)
    BY <2>5, Zenon DEF Waits
  <2>10. Placed' BY <1>1, <2>2, <2>8, <2>9, Zenon DEF Placed
  <2>11. \A b \in batches' : BatchOwn(b)'
    <3>1. "sent" # "answered" /\ "sent" # "alone" BY Zenon
    <3> QED BY <2>2, <2>8, <3>1, OwnKept, Zenon DEF BatchOwn
  <2>12. Answers' 
    <3>1. "queued" # "done" BY Zenon
    <3> QED BY <1>1, <2>2, <2>11, <3>1, Zenon DEF Answers
  <2> QED BY <1>1, <2>2, <2>8, <2>10, <2>12, Zenon DEF BatchInv
<1> QED BY <1>4, <1>5, Zenon

\* A call that went out alone is answered (RequestQuotaLease once unbatched).
LEMMA BatchDirect ==
  ASSUME BatchInv, NEW c \in Calls, NEW kind \in {"granted", "error"}, DirectAnswer(c, kind)
  PROVE  BatchInv'
<1>1. /\ waiter \in [Calls -> WaitRec] /\ waiter[c].step = "direct"
      /\ unbatched' = unbatched /\ pending' = pending /\ batches' = batches /\ inflight' = inflight
      /\ Placed /\ Answers
  BY Zenon DEF BatchInv, DirectAnswer
<1>2. PICK w : w = [step |-> "done", answer |-> AnswerTo(kind, c)] BY Zenon
<1>3. w \in WaitRec /\ w.step = "done" /\ w.answer = AnswerTo(kind, c) /\ AnswerTo(kind, c).of = {c}
  <2>1. kind \in {"none", "granted", "error", "refused", "fewer"} BY Zenon
  <2>2. PICK a \in AnswerRec : a = AnswerTo(kind, c) /\ a.of = {c} BY <2>1, AnswerFacts, Zenon
  <2> QED BY <1>2, <2>2, Zenon DEF WaitRec
<1>4. waiter' \in [Calls -> WaitRec] /\ waiter'[c] = w /\ \A d \in Calls : d # c => waiter'[d] = waiter[d]
  BY <1>1, <1>2, <1>3, Zenon DEF DirectAnswer
<1>5. Own(c)' BY <1>3, <1>4, Zenon DEF Own
<1>6. \A d \in Calls : Own(d) => Own(d)' BY <1>4, <1>5, Zenon DEF Own
<1>7. ~Waits(c, pending, batches)
  <2>1. "direct" # "queued" BY Zenon
  <2> QED BY <1>1, <2>1, Zenon DEF Placed
<1>8. Placed'
  <2>1. "done" # "queued" BY Zenon
  <2> QED BY <1>1, <1>3, <1>4, <1>7, <2>1, Zenon DEF Placed
<1>9. Answers'
  <2>1. \A d \in Calls : waiter'[d].step = "done" => Own(d)' BY <1>1, <1>4, <1>5, <1>6, Zenon DEF Answers
  <2> QED BY <1>1, <1>6, <2>1, OwnKept, Zenon DEF Answers
<1> QED BY <1>1, <1>4, <1>8, <1>9, Zenon DEF BatchInv

\* What a step that only changes one batch's phase and gives some of its calls their answers keeps.
LEMMA PhaseFacts ==
  ASSUME BatchInv, NEW b \in batches, NEW f \in BatchRec, f.calls = b.calls,
         batches' = (batches \ {b}) \cup {f}, pending' = pending, inflight'
           = inflight, unbatched' \in BOOLEAN,
         waiter' \in [Calls -> WaitRec], \A c \in Calls : waiter'[c].step = waiter[c].step,
         \A c \in Calls : Own(c) => Own(c)', BatchOwn(f)'
  PROVE  BatchInv'
<1>1. Queue(pending, batches) /\ Counted(pending, batches, inflight) /\ Placed /\ Answers
  BY Zenon DEF BatchInv
<1>2. /\ Queue(pending, batches') /\ Cardinality(batches') = Cardinality(batches)
      /\ \A c \in Calls : Waits(c, pending, batches') <=> Waits(c, pending, batches)
  <2>1. SameCalls(pending, batches, (batches \ {b}) \cup {f}) BY <1>1, SwapFacts, Zenon
  <2>2. SameCalls(pending, batches, batches') BY <2>1, Zenon
  <2> QED BY <2>2, Zenon DEF SameCalls
<1>3. Counted(pending', batches', inflight') BY <1>1, <1>2, Zenon DEF Counted
<1>4. Placed' BY <1>1, <1>2, Zenon DEF Placed
<1>5. \A x \in batches' : BatchOwn(x)' BY OwnKept, Zenon
<1>6. Answers' BY <1>1, <1>5, Zenon DEF Answers
<1> QED BY <1>2, <1>3, <1>4, <1>6, Zenon DEF BatchInv

\* Each call of an answered batch takes an answer to itself: the one at its place, or an error.
LEMMA ResultsFacts ==
  ASSUME waiter \in [Calls -> WaitRec], NEW b, b.calls \in Seq(Calls), NEW out \in Seq(AnswerRec),
         NEW err \in BOOLEAN,
         err \/ \A i \in 1 .. Len(out) : i <= Len(b.calls) => out[i].of = {b.calls[i]},
         Results(b, out, err)
  PROVE  /\ waiter' \in [Calls -> WaitRec] /\ \A c \in Calls : waiter'[c].step = waiter[c].step
         /\ \A c \in Calls : Own(c) => Own(c)'
         /\ \A i \in DOMAIN b.calls : Own(b.calls[i])'
<1>1. PICK q \in Seq(Calls) : q = b.calls BY Zenon
<1>2. DOMAIN q = 1 .. Len(q) /\ Len(q) \in Nat /\ Len(out) \in Nat /\ \A i \in DOMAIN q : q[i] \in Calls
  BY <1>1
<1>3. ASSUME NEW c \in Calls, NEW i \in DOMAIN q, i = CHOOSE j \in DOMAIN q : q[j] = c, q[i] = c
      PROVE  /\ waiter'[c] \in WaitRec /\ waiter'[c].step = waiter[c].step /\ Own(c)'
  <2>1. PICK a : a
          = IF err THEN AnswerTo("error", c) ELSE IF i > Len(out) THEN AnswerTo("fewer", c) ELSE out[i]
    BY Zenon
  <2>2. waiter'[c] = [waiter[c] EXCEPT !.answer = a] BY <1>1, <1>3, <2>1, Zenon DEF Results
  <2>3. a \in AnswerRec /\ a.of = {c}
    <3>1. CASE err \/ i > Len(out)
      <4>1. a = AnswerTo("error", c) \/ a = AnswerTo("fewer", c) BY <2>1, <3>1, Zenon
      <4> QED BY <1>3, <4>1, AnswerFacts, Zenon
    <3>2. CASE ~err /\ ~(i > Len(out))
      <4>1. a = out[i] BY <2>1, <3>2, Zenon
      <4>2. i \in 1 .. Len(out) /\ i <= Len(q) BY <1>2, <1>3, <3>2, SMT
      <4>3. out[i] \in AnswerRec BY <4>2
      <4> QED BY <1>1, <1>3, <3>2, <4>1, <4>2, <4>3, Zenon
    <3> QED BY <3>1, <3>2, Zenon
  <2>4. PICK w \in WaitRec : w = waiter[c] BY <1>3, Zenon
  <2>5. waiter'[c] \in WaitRec /\ waiter'[c].step = waiter[c].step /\ waiter'[c].answer = a
    <3>1. [w EXCEPT !.answer = a] \in WaitRec /\ [w EXCEPT !.answer = a].step = w.step
            /\ [w EXCEPT !.answer = a].answer = a
      BY <2>3, Zenon DEF WaitRec
    <3> QED BY <2>2, <2>4, <3>1, Zenon
  <2> QED BY <2>3, <2>5, Zenon DEF Own
<1>4. ASSUME NEW c \in Calls, Among(c, q)
      PROVE  /\ waiter'[c] \in WaitRec /\ waiter'[c].step = waiter[c].step /\ Own(c)'
  <2>1. PICK i : i = CHOOSE j \in DOMAIN q : q[j] = c BY Zenon
  <2>2. i \in DOMAIN q /\ q[i] = c BY <1>4, <2>1, Zenon DEF Among
  <2> QED BY <1>3, <1>4, <2>1, <2>2, Zenon
<1>5. ASSUME NEW c \in Calls, ~Among(c, q) PROVE waiter'[c] = waiter[c] /\ (Own(c) => Own(c)')
  <2>1. waiter'[c] = waiter[c] BY <1>1, <1>5, Zenon DEF Among, Results
  <2> QED BY <2>1, Zenon DEF Own
<1>6. waiter' \in [Calls -> WaitRec]
  <2>1. \A c \in Calls : waiter'[c] \in WaitRec BY <1>4, <1>5, Zenon
  <2>2. DOMAIN waiter' = Calls /\ waiter' = [c \in Calls |-> waiter'[c]] BY Zenon DEF Results
  <2> QED BY <2>1, <2>2, Zenon
<1>7. \A i \in DOMAIN q : Among(q[i], q) BY Zenon DEF Among
<1> QED BY <1>1, <1>2, <1>4, <1>5, <1>6, <1>7, Zenon

\* A batch is exchanged: answered, refused, answered short, or failed as a whole (exchange).
LEMMA BatchExchange ==
  ASSUME BatchInv, NEW b \in batches, exchange(b)
  PROVE  BatchInv'
<1>1. /\ waiter \in [Calls -> WaitRec] /\ Queue(pending, batches)
      /\ pending' = pending /\ inflight' = inflight /\ unbatched' \in BOOLEAN
  BY Zenon DEF BatchInv, exchange
<1>2. PICK q \in Seq(Calls) : q = b.calls BY <1>1, BatchFacts, Zenon
<1>3. b \in BatchRec /\ Len(q) \in Nat /\ Len(q) > 0 BY <1>1, <1>2, BatchFacts, Zenon
<1>4. PICK f : f = [b EXCEPT !.phase = "answered"] BY Zenon
<1>5. f \in BatchRec /\ f.calls = b.calls /\ f.phase = "answered" BY <1>3, <1>4, Zenon DEF BatchRec
<1>6. batches' = (batches \ {b}) \cup {f} BY <1>4, Zenon DEF exchange
<1>7. /\ waiter' \in [Calls -> WaitRec] /\ \A c \in Calls : waiter'[c].step = waiter[c].step
      /\ \A c \in Calls : Own(c) => Own(c)'
      /\ \A i \in DOMAIN b.calls : Own(b.calls[i])'
  <2>1. CASE Results(b, <<>>, TRUE)
    <3>1. <<>> \in Seq(AnswerRec) /\ TRUE \in BOOLEAN OBVIOUS
    <3> QED BY <1>1, <1>2, <2>1, <3>1, ResultsFacts, Zenon
  <2>2. ASSUME NEW out \in RequestQuotaLeases(q), NEW n \in {Len(q), Len(q) - 1}, Results(b,
               SubSeq(out, 1, n), FALSE)
        PROVE  /\ waiter' \in [Calls -> WaitRec] /\ \A c \in Calls : waiter'[c].step = waiter[c].step
               /\ \A c \in Calls : Own(c) => Own(c)'
               /\ \A i \in DOMAIN b.calls : Own(b.calls[i])'
    <3>1. PICK refused : out = Places(q, refused) BY <2>2, Zenon DEF RequestQuotaLeases
    <3>2. out \in Seq(AnswerRec) /\ Len(out) = Len(q) /\ \A i \in 1 .. Len(q) : out[i].of = {q[i]}
      <4>1. /\ Places(q, refused) \in Seq(AnswerRec) /\ Len(Places(q, refused)) = Len(q)
            /\ \A i \in 1 .. Len(q) : Places(q, refused)[i].of = {q[i]}
        BY <1>2, PlacesFacts, Zenon
      <4> QED BY <3>1, <4>1, Zenon
    <3>3. n \in Nat /\ n <= Len(out) BY <1>3, <2>2, <3>2, SMT
    <3>4. /\ SubSeq(out, 1, n) \in Seq(AnswerRec) /\ Len(SubSeq(out, 1, n)) = n
          /\ \A i \in 1 .. n : SubSeq(out, 1, n)[i] = out[i]
      BY <3>2, <3>3, HeadFacts, Zenon
    <3>5. \A i \in 1 .. n : i \in 1 .. Len(q) BY <1>3, <3>2, <3>3, SMT
    <3>6. FALSE \in BOOLEAN BY Zenon
    <3> QED BY <1>1, <1>2, <2>2, <3>2, <3>4, <3>5, <3>6, ResultsFacts, Zenon
  <2> QED BY <1>2, <2>1, <2>2, Zenon DEF exchange
<1>8. BatchOwn(f)'
  <2>1. "answered" # "alone" /\ "answered" # "sent" BY Zenon
  <2> QED BY <1>5, <1>7, <2>1, Zenon DEF BatchOwn
<1> QED BY <1>1, <1>5, <1>6, <1>7, <1>8, PhaseFacts, Zenon

\* The hub does not know batches: the calls of this one are asked for alone (exchange, Unimplemented).
LEMMA BatchUnimplemented ==
  ASSUME BatchInv, NEW b \in batches, exchangeUnimplemented(b)
  PROVE  BatchInv'
<1>1. /\ waiter' = waiter /\ waiter \in [Calls -> WaitRec] /\ Queue(pending, batches)
      /\ pending' = pending /\ inflight' = inflight /\ unbatched' \in BOOLEAN
  BY Zenon DEF BatchInv, exchangeUnimplemented
<1>2. b \in BatchRec /\ b.phase = "sent" /\ Len(b.calls) > 0
  BY <1>1, BatchFacts, Zenon DEF exchangeUnimplemented
<1>3. b.alone = 0 BY <1>2, Zenon DEF BatchInv, Answers, BatchOwn
<1>4. PICK f : f = [b EXCEPT !.phase = "alone"] BY Zenon
<1>5. f \in BatchRec /\ f.calls = b.calls /\ f.phase = "alone" /\ f.alone = b.alone
  BY <1>2, <1>4, Zenon DEF BatchRec
<1>6. batches' = (batches \ {b}) \cup {f} BY <1>4, Zenon DEF exchangeUnimplemented
<1>7. \A c \in Calls : waiter'[c].step = waiter[c].step /\ (Own(c) => Own(c)') BY <1>1, Zenon DEF Own
<1>8. BatchOwn(f)'
  <2>1. "alone" # "answered" /\ "alone" # "sent" BY Zenon
  <2>2. 0 < Len(f.calls) /\ 1 .. 0 = {} BY <1>2, <1>5, BatchFacts, SMT
  <2> QED BY <1>2, <1>3, <1>5, <2>1, <2>2, Zenon DEF BatchOwn
<1> QED BY <1>1, <1>5, <1>6, <1>7, <1>8, PhaseFacts, Zenon

\* The next call of such a batch is answered (exchange's loop over its calls).
LEMMA BatchAlone ==
  ASSUME BatchInv, NEW b \in batches, NEW kind \in {"granted", "error"}, exchangeAlone(b, kind)
  PROVE  BatchInv'
<1>1. /\ waiter \in [Calls -> WaitRec] /\ Queue(pending, batches) /\ BatchOwn(b) /\ b.phase = "alone"
      /\ pending' = pending /\ inflight' = inflight /\ unbatched' \in BOOLEAN
  BY Zenon DEF BatchInv, exchangeAlone, Answers
<1>2. PICK q \in Seq(Calls) : q = b.calls BY <1>1, BatchFacts, Zenon
<1>3. PICK k \in Nat : k = b.alone BY <1>1, BatchFacts, Zenon
<1>4. b \in BatchRec /\ Len(q) \in Nat /\ DOMAIN q = 1 .. Len(q) BY <1>1, <1>2, BatchFacts, Zenon
<1>5. k < Len(q) /\ \A i \in 1 .. k : Own(q[i]) BY <1>1, <1>2, <1>3, Zenon DEF BatchOwn
<1>6. PICK c \in Calls : c = q[k + 1]
  <2>1. k + 1 \in DOMAIN q BY <1>4, <1>5, SMT
  <2>2. q[k + 1] \in Calls BY <1>2, <2>1
  <2> QED BY <2>2, Zenon
<1>7. PICK ph \in {"answered", "alone"} : ph = IF k + 1 = Len(q) THEN "answered" ELSE "alone" BY Zenon
<1>8. PICK f : f = [b EXCEPT !.alone = @ + 1, !.phase = ph] BY Zenon
<1>9. f \in BatchRec /\ f.calls = b.calls /\ f.phase = ph /\ f.alone = k + 1
  <2>1. f = [calls |-> b.calls, alone |-> k + 1, phase |-> ph] BY <1>3, <1>4, <1>8, Zenon DEF BatchRec
  <2>2. b.calls \in Seq(Calls) /\ k + 1 \in Nat BY <1>2, <1>3
  <2> QED BY <1>7, <2>1, <2>2, Zenon DEF BatchRec
<1>10. batches' = (batches \ {b}) \cup {f} BY <1>2, <1>3, <1>7, <1>8, Zenon DEF exchangeAlone
<1>11. PICK a \in AnswerRec : a = AnswerTo(kind, c) /\ a.of = {c}
  <2>1. kind \in {"none", "granted", "error", "refused", "fewer"} BY Zenon
  <2> QED BY <2>1, AnswerFacts, Zenon
<1>12. PICK w : w = [waiter[c] EXCEPT !.answer = a] BY Zenon
<1>13. w \in WaitRec /\ w.step = waiter[c].step /\ w.answer = a
  <2>1. PICK v \in WaitRec : v = waiter[c] BY <1>1, Zenon
  <2>2. [v EXCEPT !.answer = a] \in WaitRec /\ [v EXCEPT !.answer = a].step = v.step
          /\ [v EXCEPT !.answer = a].answer = a
    BY Zenon DEF WaitRec
  <2> QED BY <1>12, <2>1, <2>2, Zenon
<1>14. waiter' \in [Calls -> WaitRec] /\ waiter'[c] = w /\ \A d \in Calls : d # c => waiter'[d] = waiter[d]
  <2>1. waiter' = [waiter EXCEPT ![c] = w]
    BY <1>2, <1>3, <1>6, <1>11, <1>12, Zenon DEF exchangeAlone
  <2> QED BY <1>1, <1>13, <2>1, Zenon
<1>15. Own(c)' BY <1>11, <1>13, <1>14, Zenon DEF Own
<1>16. \A d \in Calls : waiter'[d].step = waiter[d].step BY <1>13, <1>14, Zenon
<1>17. \A d \in Calls : Own(d) => Own(d)' BY <1>14, <1>15, Zenon DEF Own
<1>18. BatchOwn(f)'
  <2>1. \A i \in 1 .. k + 1 : i = k + 1 \/ (i \in 1 .. k /\ i \in DOMAIN q) BY <1>4, <1>5, SMT
  <2>2. \A i \in DOMAIN q : q[i] \in Calls BY <1>2
  <2>3. \A i \in 1 .. k + 1 : Own(q[i])' BY <1>5, <1>6, <1>15, <1>17, <2>1, <2>2, Zenon
  <2>4. CASE k + 1 = Len(q)
    <3>1. ph = "answered" /\ "answered" # "alone" /\ "answered" # "sent" BY <1>7, <2>4, Zenon
    <3>2. DOMAIN q = 1 .. k + 1 BY <1>4, <2>4, Zenon
    <3> QED BY <1>2, <1>9, <2>3, <3>1, <3>2, Zenon DEF BatchOwn
  <2>5. CASE k + 1 # Len(q)
    <3>1. ph = "alone" /\ "answered" # "alone" /\ "alone" # "sent" BY <1>7, <2>5, Zenon
    <3>2. k + 1 < Len(q) BY <1>3, <1>4, <1>5, <2>5, SMT
    <3> QED BY <1>2, <1>9, <2>3, <3>1, <3>2, Zenon DEF BatchOwn
  <2> QED BY <2>4, <2>5, Zenon
<1> QED BY <1>1, <1>9, <1>10, <1>14, <1>16, <1>17, <1>18, PhaseFacts, Zenon

\* An answered batch is done, and its slot is the next one's (send).
LEMMA BatchSend ==
  ASSUME BatchInv, NEW b \in batches, send(b)
  PROVE  BatchInv'
<1> DEFINE B == batches \ {b}
<1>1. /\ waiter \in [Calls -> WaitRec] /\ Queue(pending, batches) /\ BatchOwn(b) /\ b.phase = "answered"
      /\ Counted(pending, batches, inflight) /\ Placed /\ Answers /\ unbatched' \in BOOLEAN
      /\ takeLocked(pending, B, inflight - 1)
  BY Zenon DEF BatchInv, send, Answers
<1>2. PICK q \in Seq(Calls) : q = b.calls BY <1>1, BatchFacts, Zenon
<1>3. /\ IsFiniteSet(B) /\ Cardinality(B) = inflight - 1 /\ inflight \in Nat /\ inflight <= MaxInflight
      /\ pending # <<>> => inflight = MaxInflight
  BY <1>1, FS_RemoveElement, FS_CardinalityType, Zenon DEF Queue, Counted
<1>4. Queue(pending, B) BY <1>1, <1>3, Zenon DEF Queue, Sized, Apart
<1>5. /\ inflight - 1 <= MaxInflight
      /\ pending # <<>> /\ inflight - 1 < MaxInflight
           => Len(pending) <= MaxItems \/ (inflight - 1) + 1 = MaxInflight
  BY <1>3, BatcherSettings
<1>6. /\ Queue(pending', batches') /\ Counted(pending', batches', inflight')
      /\ \A c \in Calls : Waits(c, pending', batches') <=> Waits(c, pending, B)
      /\ B \subseteq batches' /\ \A x \in batches' \ B : x.phase = "sent" /\ x.alone = 0
  <2>1. PICK n : n = inflight - 1 BY Zenon
  <2> HIDE DEF B
  <2> QED BY <1>1, <1>3, <1>4, <1>5, <2>1, TakeFacts, Zenon
<1>7. ASSUME NEW c \in Calls, Among(c, q)
      PROVE  waiter'[c] \in WaitRec /\ waiter'[c].step = "done" /\ waiter'[c].answer = waiter[c].answer
  <2>1. waiter'[c] = [waiter[c] EXCEPT !.step = "done"] BY <1>2, <1>7, Zenon DEF send, Among
  <2>2. PICK v \in WaitRec : v = waiter[c] BY <1>1, <1>7, Zenon
  <2>3. [v EXCEPT !.step = "done"] \in WaitRec /\ [v EXCEPT !.step = "done"].step = "done"
        /\ [v EXCEPT !.step = "done"].answer = v.answer
    BY Zenon DEF WaitRec
  <2> QED BY <2>1, <2>2, <2>3, Zenon
<1>8. ASSUME NEW c \in Calls, ~Among(c, q) PROVE waiter'[c] = waiter[c] BY <1>2, <1>8, Zenon DEF send, Among
<1>9. waiter' \in [Calls -> WaitRec]
  <2>1. \A c \in Calls : waiter'[c] \in WaitRec BY <1>1, <1>7, <1>8, Zenon
  <2>2. waiter' = [c \in Calls |-> waiter'[c]] BY Zenon DEF send
  <2> QED BY <2>1, <2>2, Zenon
<1>10. \A c \in Calls : Own(c) => Own(c)' BY <1>7, <1>8, Zenon DEF Own
<1>11. \A c \in Calls : Waits(c, pending, batches) <=> Among(c, q) \/ Waits(c, pending, B)
  BY <1>2, Zenon DEF Waits
<1>12. \A c \in Calls : Among(c, q) => ~Waits(c, pending, B) BY <1>1, <1>2, Zenon DEF Waits, Queue, Apart
<1>13. Placed'
  <2>1. "done" # "queued" BY Zenon
  <2> QED BY <1>1, <1>6, <1>7, <1>8, <1>11, <1>12, <2>1, Zenon DEF Placed
<1>14. Answers'
  <2>1. \A c \in Calls : Among(c, q) => Own(c) BY <1>1, <1>2, Zenon DEF BatchOwn, Among
  <2>2. \A c \in Calls : waiter'[c].step = "done" => Own(c) BY <1>1, <1>8, <2>1, Zenon DEF Answers
  <2>3. "sent" # "answered" /\ "sent" # "alone" BY Zenon
  <2>4. \A x \in batches' : BatchOwn(x)'
    <3>1. \A x \in batches' : (x.phase = "sent" /\ x.alone = 0) \/ x \in batches BY <1>6, Zenon
    <3>2. \A x \in batches' : x.phase = "sent" /\ x.alone = 0 => BatchOwn(x)' BY <2>3, Zenon DEF BatchOwn
    <3> QED BY <1>10, <3>1, <3>2, OwnKept, Zenon
  <2> QED BY <1>10, <2>2, <2>4, Zenon DEF Answers
<1> QED BY <1>1, <1>6, <1>9, <1>13, <1>14, Zenon DEF BatchInv

\* Every step of the batcher and its callers keeps BatchInv.
LEMMA BatchStep == ASSUME BatchInv, [BatchNext]_batchVars PROVE BatchInv'
<1>1. CASE UNCHANGED batchVars
  <2>1. waiter' = waiter /\ pending' = pending /\ batches' = batches /\ inflight' = inflight
          /\ unbatched' = unbatched
    BY <1>1, Zenon DEF batchVars
  <2> QED BY <2>1, Zenon DEF BatchInv, Placed, Answers, BatchOwn, Own
<1>2. ASSUME NEW c \in Calls, RequestQuotaLease(c) PROVE BatchInv' BY <1>2, BatchRequest, Zenon
<1>3. ASSUME NEW c \in Calls, NEW kind \in {"granted", "error"}, DirectAnswer(c, kind) PROVE BatchInv'
  BY <1>3, BatchDirect, Zenon
<1>4. ASSUME NEW b \in batches, exchange(b) \/ exchangeUnimplemented(b) \/ send(b) PROVE BatchInv'
  BY <1>4, BatchExchange, BatchUnimplemented, BatchSend, Zenon
<1>5. ASSUME NEW b \in batches, NEW kind \in {"granted", "error"}, exchangeAlone(b, kind) PROVE BatchInv'
  BY <1>5, BatchAlone, Zenon
<1> QED BY <1>1, <1>2, <1>3, <1>4, <1>5, Zenon DEF BatchNext

\* What BatchInv says of the calls.
LEMMA BatchConsequences == BatchInv => EveryCallAnswered
<1> SUFFICES ASSUME BatchInv PROVE EveryCallAnswered BY Zenon
<1>1. Queue(pending, batches) /\ Counted(pending, batches, inflight) /\ Placed /\ Answers
  BY Zenon DEF BatchInv
<1>2. inflight = Cardinality(batches) /\ inflight <= MaxInflight
        /\ (pending # <<>> => inflight = MaxInflight)
  BY <1>1, Zenon DEF Counted
<1>3. \A b \in batches : b.calls # <<>> /\ Len(b.calls) <= MaxItems BY <1>1, Zenon DEF Queue, Sized
<1>4. ASSUME NEW c \in Calls, waiter[c].step = "queued" PROVE Queued(c) # InBatch(c)
  <2>1. Waits(c, pending, batches) BY <1>1, <1>4, Zenon DEF Placed
  <2>2. \A b \in batches : ~(Among(c, b.calls) /\ Among(c, pending)) BY <1>1, <1>4, Zenon DEF Queue, Apart
  <2>3. Queued(c) \/ InBatch(c) BY <2>1, Zenon DEF Waits, Among, Queued, InBatch
  <2>4. ~(Queued(c) /\ InBatch(c)) BY <2>2, Zenon DEF Among, Queued, InBatch
  <2>5. Queued(c) \in BOOLEAN /\ InBatch(c) \in BOOLEAN BY Zenon DEF Queued, InBatch
  <2> QED BY <2>3, <2>4, <2>5, Zenon
<1>5. ASSUME NEW c \in Calls, NEW b1 \in batches, NEW b2 \in batches, b1 # b2
      PROVE  ~((\E i \in DOMAIN b1.calls : b1.calls[i] = c) /\ (\E i \in DOMAIN b2.calls : b2.calls[i] = c))
  BY <1>1, <1>5, Zenon DEF Queue, Apart, Among
<1>6. \A c \in Calls : waiter[c].step = "done" => waiter[c].answer.of = {c} BY <1>1, Zenon DEF Answers, Own
<1> QED BY <1>2, <1>3, <1>4, <1>5, <1>6, Zenon DEF EveryCallAnswered

----------------------------------------------------------------------------
(* The processes' start and stop.                                          *)

Apps == {"edge", "hub", "limiter", "analytics"}
Stages == {"starting", "failed", "serving", "stopping", "exited"}
LifeTyped ==
  /\ app \in Apps /\ stage \in Stages /\ step \in Nat \ {0}
  /\ flight \in [http : Nat, grpc : Nat] /\ cancelled \in BOOLEAN /\ late \in BOOLEAN
  /\ gate \in [open : BOOLEAN, config : BOOLEAN] /\ probe \in [failures : Nat, healthy : BOOLEAN]

\* What is open was opened by a step of Start; the web listener is opened last, or but for a loop.
Opened ==
  /\ open \subseteq Loops(app) \cup CloseOf[app] \cup {"http"}
  /\ stage = "starting" => step <= Len(StartOf[app])
  /\ stage = "starting" /\ "http" \in open => app \in {"hub", "analytics"} /\ step = Len(StartOf[app])
  /\ stage = "serving" => step = 1
  /\ stage \in {"failed", "exited"} => open \subseteq Loops(app)
\* A listener that Shutdown is done with is closed, and its requests are done or out of time.
Stopped ==
  /\ pulled = 0
  /\ stage = "stopping" => step <= Len(ShutdownOf[app])
  /\ stage = "stopping" /\ step > 1 => "http" \notin open /\ (late \/ flight.http = 0)
  /\ stage = "stopping" /\ step > 2 /\ app = "limiter" => "grpc" \notin open /\ flight.grpc = 0
\* An edge past the step that closes its gate opens it with a config only.
Gated ==
  app = "edge" =>
    /\ "bootstrap" \in conf => gate.config
    /\ gate.open => gate.config \/ stage = "failed" \/ (stage = "starting" /\ step <= 11)
    /\ flight.http > 0 => gate.config
Probed == probe.healthy => probe.failures < ProbeLimit
LifeInv == LifeTyped /\ Opened /\ Stopped /\ Gated /\ Probed

\* The steps of an edge's Start.
LEMMA EdgeTable ==
  /\ Len(edgeStart) = 14
  /\ edgeStart[1].does = "check" /\ edgeStart[1].what = "config"
  /\ edgeStart[2].does = "check" /\ edgeStart[2].what = "tls"
  /\ edgeStart[3].does = "dial" /\ edgeStart[3].what = "hub"
  /\ edgeStart[4].does = "check" /\ edgeStart[4].what = "file"
  /\ edgeStart[5].does = "check" /\ edgeStart[5].what = "address"
  /\ edgeStart[6].does = "make" /\ edgeStart[6].what = "limiterRedis"
  /\ edgeStart[7].does = "make" /\ edgeStart[7].what = "cacheRedis"
  /\ edgeStart[8].does = "loop" /\ edgeStart[8].what = "publisher"
  /\ edgeStart[9].does = "loop" /\ edgeStart[9].what = "workers"
  /\ edgeStart[10].does = "loop" /\ edgeStart[10].what = "probe"
  /\ edgeStart[11].does = "hold" /\ edgeStart[11].what = ""
  /\ edgeStart[12].does = "loop" /\ edgeStart[12].what = "follow"
  /\ edgeStart[13].does = "loop" /\ edgeStart[13].what = "metrics"
  /\ edgeStart[14].does = "dial" /\ edgeStart[14].what = "http"
BY Zenon DEF edgeStart, S

\* The steps of a hub's Start.
LEMMA HubTable ==
  /\ Len(hubStart) = 14
  /\ hubStart[1].does = "check" /\ hubStart[1].what = "config"
  /\ hubStart[2].does = "check" /\ hubStart[2].what = "file"
  /\ hubStart[3].does = "make" /\ hubStart[3].what = "redis"
  /\ hubStart[4].does = "loop" /\ hubStart[4].what = "migrate"
  /\ hubStart[5].does = "loop" /\ hubStart[5].what = "control"
  /\ hubStart[6].does = "loop" /\ hubStart[6].what = "metrics"
  /\ hubStart[7].does = "check" /\ hubStart[7].what = "pattern"
  /\ hubStart[8].does = "check" /\ hubStart[8].what = "tls"
  /\ hubStart[9].does = "check" /\ hubStart[9].what = "peerTLS"
  /\ hubStart[10].does = "loop" /\ hubStart[10].what = "peers"
  /\ hubStart[11].does = "check" /\ hubStart[11].what = "peer"
  /\ hubStart[12].does = "dial" /\ hubStart[12].what = "grpc"
  /\ hubStart[13].does = "dial" /\ hubStart[13].what = "http"
  /\ hubStart[14].does = "loop" /\ hubStart[14].what = "watch"
BY Zenon DEF hubStart, S

\* The steps of a limiter's Start.
LEMMA LimiterTable ==
  /\ Len(limiterStart) = 8
  /\ limiterStart[1].does = "check" /\ limiterStart[1].what = "config"
  /\ limiterStart[2].does = "check" /\ limiterStart[2].what = "tls"
  /\ limiterStart[3].does = "dial" /\ limiterStart[3].what = "hub"
  /\ limiterStart[4].does = "loop" /\ limiterStart[4].what = "workers"
  /\ limiterStart[5].does = "loop" /\ limiterStart[5].what = "follow"
  /\ limiterStart[6].does = "loop" /\ limiterStart[6].what = "metrics"
  /\ limiterStart[7].does = "dial" /\ limiterStart[7].what = "grpc"
  /\ limiterStart[8].does = "dial" /\ limiterStart[8].what = "http"
BY Zenon DEF limiterStart, S

\* The steps of analytics's Start.
LEMMA AnalyticsTable ==
  /\ Len(analyticsStart) = 6
  /\ analyticsStart[1].does = "check" /\ analyticsStart[1].what = "config"
  /\ analyticsStart[2].does = "dial" /\ analyticsStart[2].what = "store"
  /\ analyticsStart[3].does = "make" /\ analyticsStart[3].what = "store"
  /\ analyticsStart[4].does = "loop" /\ analyticsStart[4].what = "metrics"
  /\ analyticsStart[5].does = "dial" /\ analyticsStart[5].what = "http"
  /\ analyticsStart[6].does = "loop" /\ analyticsStart[6].what = "watch"
BY Zenon DEF analyticsStart, S

\* What a process's Start opens its close closes or the context ends, but for the web listener,
\* which is opened when no step is left that may fail.
Orderly(start, n, closes, final) ==
  /\ Len(start) = n
  /\ \A i \in 1 .. n :
       /\ start[i].does \in {"dial", "make"} => start[i].what \in closes \cup {"http"}
       /\ start[i].does = "loop" => start[i].what # "http"
       /\ start[i].what = "http" => i = final
       /\ i > final => start[i].does = "loop"

\* The steps of an edge's Start are orderly, and the eleventh closes the gate.
LEMMA EdgeOrderly ==
  Orderly(edgeStart, 14, edgeClose, 14) /\ \A i \in 1 .. 14 : edgeStart[i].does = "hold" <=> i = 11
<1>1. ASSUME NEW i \in 1 .. 14
      PROVE  /\ edgeStart[i].does \in {"dial", "make"} => edgeStart[i].what \in edgeClose \cup {"http"}
             /\ edgeStart[i].does = "loop" => edgeStart[i].what # "http"
             /\ edgeStart[i].what = "http" => i = 14
             /\ i > 14 => edgeStart[i].does = "loop"
             /\ edgeStart[i].does = "hold" <=> i = 11
  <2>1. i \in {1, 2, 3, 4, 5, 6, 7, 8, 9, 10, 11, 12, 13, 14} BY SMT
  <2>2. edgeStart[i].does = "hold" => i = 11 BY <2>1, EdgeTable, Zenon
  <2>3. i = 11 => edgeStart[i].does = "hold" BY EdgeTable, Zenon
  <2>4. edgeStart[i].does \in {"dial", "make"} => edgeStart[i].what \in edgeClose \cup {"http"}
    BY <2>1, EdgeTable, Zenon DEF edgeClose
  <2>5. edgeStart[i].does = "loop" => edgeStart[i].what # "http" BY <2>1, EdgeTable, Zenon
  <2>6. edgeStart[i].what = "http" => i = 14 BY <2>1, EdgeTable, Zenon
  <2>7. ~(i > 14) BY SMT
  <2> QED BY <2>2, <2>3, <2>4, <2>5, <2>6, <2>7, Zenon
<1> QED BY <1>1, EdgeTable, Zenon DEF Orderly

\* The steps of a hub's Start are orderly.
LEMMA HubOrderly ==
  Orderly(hubStart, 14, hubClose, 13) /\ \A i \in 1 .. 14 : hubStart[i].does # "hold"
<1>1. ASSUME NEW i \in 1 .. 14
      PROVE  /\ hubStart[i].does \in {"dial", "make"} => hubStart[i].what \in hubClose \cup {"http"}
             /\ hubStart[i].does = "loop" => hubStart[i].what # "http"
             /\ hubStart[i].what = "http" => i = 13
             /\ i > 13 => hubStart[i].does = "loop"
             /\ hubStart[i].does = "hold" => FALSE
  <2>1. i \in {1, 2, 3, 4, 5, 6, 7, 8, 9, 10, 11, 12, 13, 14} BY SMT
  <2> QED BY <2>1, HubTable DEF hubClose
<1> QED BY <1>1, HubTable, Zenon DEF Orderly

\* The steps of a limiter's Start are orderly.
LEMMA LimiterOrderly ==
  Orderly(limiterStart, 8, limiterClose, 8) /\ \A i \in 1 .. 8 : limiterStart[i].does # "hold"
<1>1. ASSUME NEW i \in 1 .. 8
      PROVE  /\ limiterStart[i].does \in {"dial", "make"}
               => limiterStart[i].what \in limiterClose \cup {"http"}
             /\ limiterStart[i].does = "loop" => limiterStart[i].what # "http"
             /\ limiterStart[i].what = "http" => i = 8
             /\ i > 8 => limiterStart[i].does = "loop"
             /\ limiterStart[i].does = "hold" => FALSE
  <2>1. i \in {1, 2, 3, 4, 5, 6, 7, 8} BY SMT
  <2> QED BY <2>1, LimiterTable DEF limiterClose
<1> QED BY <1>1, LimiterTable, Zenon DEF Orderly

\* The steps of analytics's Start are orderly.
LEMMA AnalyticsOrderly ==
  Orderly(analyticsStart, 6, analyticsClose, 5) /\ \A i \in 1 .. 6 : analyticsStart[i].does # "hold"
<1>1. ASSUME NEW i \in 1 .. 6
      PROVE  /\ analyticsStart[i].does \in {"dial", "make"}
               => analyticsStart[i].what \in analyticsClose \cup {"http"}
             /\ analyticsStart[i].does = "loop" => analyticsStart[i].what # "http"
             /\ analyticsStart[i].what = "http" => i = 5
             /\ i > 5 => analyticsStart[i].does = "loop"
             /\ analyticsStart[i].does = "hold" => FALSE
  <2>1. i \in {1, 2, 3, 4, 5, 6} BY SMT
  <2> QED BY <2>1, AnalyticsTable DEF analyticsClose
<1> QED BY <1>1, AnalyticsTable, Zenon DEF Orderly

\* What step i of n of the Start of a does, for every process.
TableFacts(a, i, n, s) ==
  /\ s.does \in {"dial", "make"} => s.what \in CloseOf[a] \cup {"http"}
  /\ s.does = "loop" => s.what # "http" /\ s.what \in Loops(a)
  /\ s.what = "http" => i = n \/ (a \in {"hub", "analytics"} /\ i + 1 = n)
  /\ i = n /\ a \in {"hub", "analytics"} => s.does = "loop"
  /\ a = "edge" => n = 14 /\ (s.does = "hold" <=> i = 11)

\* Every step of every process's Start is as TableFacts says.
LEMMA StartTables ==
  ASSUME NEW a \in Apps
  PROVE  Len(StartOf[a]) \in Nat
           /\ \A i \in 1 .. Len(StartOf[a]) : TableFacts(a, i, Len(StartOf[a]), StartOf[a][i])
<1>1. \A i \in DOMAIN StartOf[a] : StartOf[a][i].does = "loop" => StartOf[a][i].what \in Loops(a)
  BY Zenon DEF Loops
<1>2. ASSUME NEW start, NEW n \in Nat, NEW final \in {n, n - 1}, NEW closes,
             Orderly(start, n, closes, final), final = n \/ a \in {"hub", "analytics"},
             a \in {"hub", "analytics"} => final = n - 1,
             a = "edge" => n = 14 /\ \A i \in 1 .. n : start[i].does = "hold" <=> i = 11,
             StartOf[a] = start, CloseOf[a] = closes, DOMAIN start = 1 .. n
      PROVE  Len(start) \in Nat /\ \A i \in 1 .. Len(start) : TableFacts(a, i, Len(start), start[i])
  <2>1. Len(start) = n BY <1>2, Zenon DEF Orderly
  <2> SUFFICES ASSUME NEW i \in 1 .. n PROVE TableFacts(a, i, n, start[i]) BY <2>1, Zenon
  <2>2. start[i].does = "loop" => start[i].what # "http" /\ start[i].what \in Loops(a)
    BY <1>1, <1>2, Zenon DEF Orderly
  <2>3. start[i].does \in {"dial", "make"} => start[i].what \in CloseOf[a] \cup {"http"}
    BY <1>2, Zenon DEF Orderly
  <2>4. (start[i].what = "http" => i = final) /\ (i > final => start[i].does = "loop")
    BY <1>2, Zenon DEF Orderly
  <2>5. start[i].what = "http" => i = n \/ (a \in {"hub", "analytics"} /\ i + 1 = n) BY <1>2, <2>4, SMT
  <2>6. i = n /\ a \in {"hub", "analytics"} => start[i].does = "loop" BY <1>2, <2>4, SMT
  <2>7. a = "edge" => n = 14 /\ (start[i].does = "hold" <=> i = 11) BY <1>2, Zenon
  <2> QED BY <2>2, <2>3, <2>5, <2>6, <2>7, Zenon DEF TableFacts
<1>3. CASE a = "edge"
  <2>1. StartOf[a] = edgeStart /\ CloseOf[a] = edgeClose BY <1>3, Zenon DEF StartOf, CloseOf
  <2>2. DOMAIN edgeStart = 1 .. 14 BY DEF edgeStart
  <2> QED BY <1>2, <1>3, <2>1, <2>2, EdgeOrderly, Zenon
<1>4. CASE a = "hub"
  <2>1. StartOf[a] = hubStart /\ CloseOf[a] = hubClose BY <1>4, Zenon DEF StartOf, CloseOf
  <2>2. DOMAIN hubStart = 1 .. 14 BY DEF hubStart
  <2>3. 14 \in Nat /\ 13 = 14 - 1 BY SMT
  <2> QED BY <1>2, <1>4, <2>1, <2>2, <2>3, HubOrderly, Zenon
<1>5. CASE a = "limiter"
  <2>1. StartOf[a] = limiterStart /\ CloseOf[a] = limiterClose BY <1>5, Zenon DEF StartOf, CloseOf
  <2>2. DOMAIN limiterStart = 1 .. 8 BY DEF limiterStart
  <2> QED BY <1>2, <1>5, <2>1, <2>2, LimiterOrderly, Zenon
<1>6. CASE a = "analytics"
  <2>1. StartOf[a] = analyticsStart /\ CloseOf[a] = analyticsClose BY <1>6, Zenon DEF StartOf, CloseOf
  <2>2. DOMAIN analyticsStart = 1 .. 6 BY DEF analyticsStart
  <2>3. 6 \in Nat /\ 5 = 6 - 1 BY SMT
  <2> QED BY <1>2, <1>6, <2>1, <2>2, <2>3, AnalyticsOrderly, Zenon
<1> QED BY <1>3, <1>4, <1>5, <1>6, Zenon DEF Apps

\* What the steps of Shutdown are: the web listener first, then what follows it.
LEMMA StopTables ==
  ASSUME NEW a \in Apps
  PROVE  /\ Len(ShutdownOf[a]) \in Nat /\ Len(ShutdownOf[a]) >= 2
         /\ ShutdownOf[a][1] = "http"
         /\ \A i \in 1 .. Len(ShutdownOf[a]) :
              /\ ShutdownOf[a][i] = "http" => i = 1
              /\ ShutdownOf[a][i] = "grpc" => a = "limiter" /\ i = 2
              /\ ShutdownOf[a][i] = "close" <=> i = Len(ShutdownOf[a])
              /\ a = "limiter" /\ i = 2 => ShutdownOf[a][i] = "grpc"
<1>1. CASE a = "edge"
  <2>1. ShutdownOf[a] = << "http", "drain", "close" >> BY <1>1, Zenon DEF ShutdownOf, edgeShutdown
  <2> QED BY <1>1, <2>1
<1>2. CASE a = "limiter"
  <2>1. ShutdownOf[a] = << "http", "grpc", "drain", "close" >>
    BY <1>2, Zenon DEF ShutdownOf, limiterShutdown
  <2> QED BY <1>2, <2>1
<1>3. CASE a \in {"hub", "analytics"}
  <2>1. ShutdownOf[a] = << "http", "close" >> BY <1>3 DEF ShutdownOf, hubShutdown, analyticsShutdown
  <2> QED BY <1>3, <2>1
<1> QED BY <1>1, <1>2, <1>3, Zenon DEF Apps

\* A process that is created satisfies the invariant.
LEMMA LifeStart == LifeInit => LifeInv
<1> SUFFICES ASSUME LifeInit PROVE LifeInv BY Zenon
<1>1. app \in Apps BY Zenon DEF LifeInit, StartOf, Apps
<1>2. LifeTyped
  <2>1. flight \in [http : Nat, grpc : Nat] BY Zenon DEF LifeInit
  <2>2. gate \in [open : BOOLEAN, config : BOOLEAN] BY DEF LifeInit
  <2>3. probe \in [failures : Nat, healthy : BOOLEAN] BY Zenon DEF LifeInit
  <2>4. 1 \in Nat \ {0} BY SMT
  <2> QED BY <1>1, <2>1, <2>2, <2>3, <2>4, Zenon DEF LifeTyped, LifeInit, Stages
<1>3. Opened
  <2>1. 1 <= Len(StartOf[app])
    <3>1. CASE app = "edge"
      <4>1. StartOf[app] = edgeStart BY <3>1, Zenon DEF StartOf
      <4>2. Len(StartOf[app]) = 14 BY <4>1, EdgeTable, Zenon
      <4> QED BY <4>2
    <3>2. CASE app = "hub"
      <4>1. StartOf[app] = hubStart BY <3>2, Zenon DEF StartOf
      <4>2. Len(StartOf[app]) = 14 BY <4>1, HubTable, Zenon
      <4> QED BY <4>2
    <3>3. CASE app = "limiter"
      <4>1. StartOf[app] = limiterStart BY <3>3, Zenon DEF StartOf
      <4>2. Len(StartOf[app]) = 8 BY <4>1, LimiterTable, Zenon
      <4> QED BY <4>2
    <3>4. CASE app = "analytics"
      <4>1. StartOf[app] = analyticsStart BY <3>4, Zenon DEF StartOf
      <4>2. Len(StartOf[app]) = 6 BY <4>1, AnalyticsTable, Zenon
      <4> QED BY <4>2
    <3> QED BY <1>1, <3>1, <3>2, <3>3, <3>4, Zenon DEF Apps
  <2> QED BY <2>1, Zenon DEF Opened, LifeInit
<1>4. Stopped BY Zenon DEF Stopped, LifeInit
<1>5. Gated
  <2>1. gate.open = TRUE /\ gate.config = ("bootstrap" \in conf) /\ flight.http = 0 BY Zenon DEF LifeInit
  <2>2. ~(0 > 0) /\ 1 <= 11 BY SMT
  <2> QED BY <2>1, <2>2, Zenon DEF Gated, LifeInit
<1>6. Probed BY LifeSettings DEF Probed, LifeInit
<1> QED BY <1>2, <1>3, <1>4, <1>5, <1>6, Zenon DEF LifeInv

\* The gate's fields when it is changed.
LEMMA GateFields ==
  ASSUME NEW g \in [open : BOOLEAN, config : BOOLEAN], NEW b \in BOOLEAN
  PROVE  /\ g.open \in BOOLEAN /\ g.config \in BOOLEAN
         /\ [g EXCEPT !.open = b] \in [open : BOOLEAN, config : BOOLEAN]
         /\ [g EXCEPT !.open = b].open = b /\ [g EXCEPT !.open = b].config = g.config
         /\ [g EXCEPT !.config = b] \in [open : BOOLEAN, config : BOOLEAN]
         /\ [g EXCEPT !.config = b].open = g.open /\ [g EXCEPT !.config = b].config = b
BY Zenon

\* A step of Start keeps what is open what may be closed, and an edge's gate (Start).
LEMMA LifeStartStep ==
  ASSUME LifeInv, StartStep
  PROVE  LifeInv'
<1> DEFINE s == StartOf[app][step]
           n == Len(StartOf[app])
<1>1. /\ stage = "starting" /\ app \in Apps /\ step \in Nat \ {0} /\ step <= n
      /\ gate \in [open : BOOLEAN, config : BOOLEAN]
  BY Zenon DEF LifeInv, LifeTyped, Opened, StartStep
<1>2. n \in Nat /\ step \in 1 .. n
  <2>1. n \in Nat BY <1>1, StartTables, Zenon
  <2> QED BY <1>1, <2>1, SMT
<1>3. TableFacts(app, step, n, s) BY <1>1, <1>2, StartTables, Zenon
<1> HIDE DEF s, n
<1>4. /\ open' = IF Taken(s) /\ s.does \in {"dial", "make", "loop"} THEN open \cup {s.what} ELSE open
      /\ gate' = IF s.does = "hold" THEN [gate EXCEPT !.open = "bootstrap" \in conf] ELSE gate
      /\ stage' = IF step = n THEN "serving" ELSE stage
      /\ step' = IF step = n THEN 1 ELSE step + 1
      /\ UNCHANGED <<app, conf, flight, cancelled, late, probe, pulled>>
  BY Zenon DEF StartStep, s, n
<1>5. /\ stage' \in {"starting", "serving"} /\ (stage' = "serving" => step' = 1)
      /\ stage' = "starting" => step # n /\ step' = step + 1
      /\ step' \in Nat \ {0}
  BY <1>1, <1>2, <1>4
<1>6. gate' \in [open : BOOLEAN, config : BOOLEAN]
  <2>1. ("bootstrap" \in conf) \in BOOLEAN BY SMT
  <2>2. [gate EXCEPT !.open = "bootstrap" \in conf] \in [open : BOOLEAN, config : BOOLEAN]
    BY <1>1, <2>1, GateFields, Zenon
  <2> QED BY <1>1, <1>4, <2>2, Zenon
<1>7. LifeTyped' BY <1>4, <1>5, <1>6, Zenon DEF LifeInv, LifeTyped, Stages
<1>8. Opened'
  <2>1. open' \subseteq Loops(app)' \cup CloseOf[app]' \cup {"http"}
    BY <1>3, <1>4, Zenon DEF LifeInv, Opened, TableFacts, Loops
  <2>2. stage' = "starting" => step' <= n BY <1>2, <1>5, SMT
  <2>3. ASSUME stage' = "starting", "http" \in open' PROVE app \in {"hub", "analytics"} /\ step' = n
    <3>1. step # n /\ step' = step + 1 BY <1>5, <2>3, Zenon
    <3>2. "http" \notin open BY <1>1, <3>1, Zenon DEF LifeInv, Opened, n
    <3>3. s.what = "http" BY <1>4, <2>3, <3>2, Zenon
    <3> QED BY <1>3, <3>1, <3>3, Zenon DEF TableFacts
  <2>4. Len(StartOf[app]') = n BY <1>4, Zenon DEF n
  <2> QED BY <1>4, <1>5, <2>1, <2>2, <2>3, <2>4, Zenon DEF Opened
<1>9. Stopped' BY <1>4, <1>5, Zenon DEF LifeInv, Stopped
<1>10. Gated'
  <2> SUFFICES ASSUME app = "edge" PROVE Gated' BY <1>4, Zenon DEF Gated
  <2>1. gate'.config = gate.config BY <1>1, <1>4, GateFields, Zenon
  <2>2. ("bootstrap" \in conf => gate.config) /\ (flight.http > 0 => gate.config)
    BY Zenon DEF LifeInv, Gated
  <2>3. ASSUME gate'.open, ~gate'.config PROVE stage' = "starting" /\ step' <= 11
    <3>1. s.does # "hold"
      <4> SUFFICES ASSUME s.does = "hold" PROVE FALSE BY Zenon
      <4>1. gate'.open = ("bootstrap" \in conf) BY <1>1, <1>4, GateFields, Zenon
      <4> QED BY <2>1, <2>2, <2>3, <4>1, Zenon
    <3>2. gate' = gate /\ step # 11 /\ n = 14 BY <1>3, <1>4, <3>1, Zenon DEF TableFacts
    <3>3. step <= 11 BY <1>1, <2>3, <3>2, Zenon DEF LifeInv, Gated
    <3> QED BY <1>1, <1>4, <3>2, <3>3
  <2> QED BY <1>4, <2>1, <2>2, <2>3, Zenon DEF Gated
<1>11. Probed' BY <1>4, Zenon DEF LifeInv, Probed
<1> QED BY <1>7, <1>8, <1>9, <1>10, <1>11, Zenon DEF LifeInv

\* The requests in flight when one listener's count changes.
LEMMA FlightFields ==
  ASSUME NEW f \in [http : Nat, grpc : Nat], NEW n \in Nat
  PROVE  /\ f.http \in Nat /\ f.grpc \in Nat /\ f["http"] = f.http /\ f["grpc"] = f.grpc
         /\ [f EXCEPT !["http"] = n] \in [http : Nat, grpc : Nat]
         /\ [f EXCEPT !["http"] = n].http = n /\ [f EXCEPT !["http"] = n].grpc = f.grpc
         /\ [f EXCEPT !["grpc"] = n] \in [http : Nat, grpc : Nat]
         /\ [f EXCEPT !["grpc"] = n].http = f.http /\ [f EXCEPT !["grpc"] = n].grpc = n
BY Zenon

\* A Start that fails leaves what ends with the context (the deferred close).
LEMMA LifeStartFails ==
  ASSUME LifeInv, StartFails
  PROVE  LifeInv'
<1> DEFINE s == StartOf[app][step]
           n == Len(StartOf[app])
<1>1. /\ stage = "starting" /\ app \in Apps /\ step \in Nat \ {0} /\ step <= n
      /\ flight \in [http : Nat, grpc : Nat] /\ s.does \in {"check", "dial"}
      /\ stage' = "failed" /\ open' = open \ CloseOf[app] /\ flight' = [flight EXCEPT !["grpc"] = 0]
      /\ UNCHANGED <<app, conf, step, cancelled, late, gate, probe, pulled>>
  BY Zenon DEF LifeInv, LifeTyped, Opened, StartFails
<1>2. step \in 1 .. n
  <2>1. n \in Nat BY <1>1, StartTables, Zenon
  <2> QED BY <1>1, <2>1, SMT
<1>3. TableFacts(app, step, n, s) BY <1>1, <1>2, StartTables, Zenon
<1>4. "http" \notin open
  <2>1. ~(step = n /\ app \in {"hub", "analytics"}) BY <1>1, <1>3, Zenon DEF TableFacts
  <2> QED BY <1>1, <2>1, Zenon DEF LifeInv, Opened
<1>5. 0 \in Nat BY SMT
<1>6. flight' \in [http : Nat, grpc : Nat] /\ flight'.http = flight.http
  BY <1>1, <1>5, FlightFields, Zenon
<1>7. LifeTyped' BY <1>1, <1>6, Zenon DEF LifeInv, LifeTyped, Stages
<1>8. Opened'
  <2>1. open' \subseteq Loops(app)' BY <1>1, <1>4, Zenon DEF LifeInv, Opened, Loops
  <2> QED BY <1>1, <2>1, Zenon DEF Opened
<1>9. Stopped' BY <1>1, Zenon DEF LifeInv, Stopped
<1>10. Gated' BY <1>1, <1>6, Zenon DEF LifeInv, Gated
<1>11. Probed' BY <1>1, Zenon DEF LifeInv, Probed
<1> QED BY <1>7, <1>8, <1>9, <1>10, <1>11, Zenon DEF LifeInv

\* What is open stays what may be closed in a step that opens nothing and leaves Start where it is.
LEMMA OpenedKept ==
  ASSUME Opened, UNCHANGED <<app, stage, step>>, open' \subseteq open
  PROVE  Opened'
<1>1. Loops(app)' = Loops(app) BY Zenon DEF Loops
<1>2. open' \subseteq Loops(app)' \cup CloseOf[app]' \cup {"http"} BY <1>1, Zenon DEF Opened
<1>3. stage' \in {"failed", "exited"} => open' \subseteq Loops(app)' BY <1>1, Zenon DEF Opened
<1> QED BY <1>2, <1>3, Zenon DEF Opened

\* An edge's gate opens after a config is installed (Apply).
LEMMA LifeApply ==
  ASSUME LifeInv, ApplyConfig \/ ApplyReady
  PROVE  LifeInv'
<1>1. /\ gate \in [open : BOOLEAN, config : BOOLEAN] /\ app = "edge"
      /\ UNCHANGED <<app, conf, stage, step, open, flight, cancelled, late, probe, pulled>>
  BY Zenon DEF LifeInv, LifeTyped, ApplyConfig, ApplyReady
<1>2. /\ gate' \in [open : BOOLEAN, config : BOOLEAN]
      /\ gate'.config
  <2>1. CASE ApplyConfig
    <3>1. gate' = [gate EXCEPT !.config = TRUE] BY <2>1, Zenon DEF ApplyConfig
    <3> QED BY <1>1, <3>1, GateFields, Zenon
  <2>2. CASE ApplyReady
    <3>1. gate' = [gate EXCEPT !.open = TRUE] /\ gate.config BY <2>2, Zenon DEF ApplyReady
    <3> QED BY <1>1, <3>1, GateFields, Zenon
  <2> QED BY <2>1, <2>2, Zenon
<1>3. LifeTyped' BY <1>1, <1>2, Zenon DEF LifeInv, LifeTyped
<1>4. Opened' BY <1>1, OpenedKept, Zenon DEF LifeInv
<1>6. Stopped' /\ Probed' BY <1>1, Zenon DEF LifeInv, Stopped, Probed
<1>5. Gated' BY <1>2, Zenon DEF Gated
<1> QED BY <1>3, <1>4, <1>5, <1>6, Zenon DEF LifeInv

\* A response store is reported healthy only below the limit of failures (StartReadinessProbe).
LEMMA LifePing ==
  ASSUME LifeInv, PingAnswers \/ PingFails
  PROVE  LifeInv'
<1>1. /\ probe \in [failures : Nat, healthy : BOOLEAN]
      /\ UNCHANGED <<app, conf, stage, step, open, flight, cancelled, late, gate, pulled>>
  BY Zenon DEF LifeInv, LifeTyped, PingAnswers, PingFails
<1>2. probe' \in [failures : Nat, healthy : BOOLEAN] /\ Probed'
  <2>1. CASE PingAnswers
    <3>1. probe' = [failures |-> 0, healthy |-> TRUE] BY <2>1, Zenon DEF PingAnswers
    <3> QED BY <3>1, LifeSettings DEF Probed
  <2>2. CASE PingFails
    <3>1. PICK k \in Nat : k = probe.failures + 1 BY <1>1
    <3>2. PICK b \in BOOLEAN : b = (probe.healthy /\ k < ProbeLimit) BY Zenon
    <3>3. probe' = [failures |-> k, healthy |-> b] BY <2>2, <3>1, <3>2, Zenon DEF PingFails
    <3>4. probe'.failures = k /\ probe'.healthy = b /\ probe' \in [failures : Nat, healthy : BOOLEAN]
      BY <3>3, Zenon
    <3> QED BY <3>2, <3>4, Zenon DEF Probed
  <2> QED BY <2>1, <2>2, Zenon
<1>3. LifeTyped' BY <1>1, <1>2, Zenon DEF LifeInv, LifeTyped
<1>4. Opened' BY <1>1, OpenedKept, Zenon DEF LifeInv
<1>5. Stopped' /\ Gated' BY <1>1, Zenon DEF LifeInv, Stopped, Gated
<1> QED BY <1>2, <1>3, <1>4, <1>5, Zenon DEF LifeInv

\* A listener takes requests while it is open, and an edge's while its gate is (Accept).
LEMMA LifeAccept ==
  ASSUME LifeInv, NEW l \in {"http", "grpc"}, Accept(l)
  PROVE  LifeInv'
<1>1. /\ flight \in [http : Nat, grpc : Nat] /\ l \in open /\ (app = "edge" => gate.open)
      /\ flight' = [flight EXCEPT ![l] = flight[l] + 1]
      /\ UNCHANGED <<app, conf, stage, step, open, cancelled, late, gate, probe, pulled>>
  BY Zenon DEF LifeInv, LifeTyped, Accept
<1>2. flight[l] + 1 \in Nat
  <2>1. flight[l] \in Nat BY <1>1, Zenon
  <2> QED BY <2>1, SMT
<1>3. /\ flight' \in [http : Nat, grpc : Nat] /\ flight'.http \in Nat
      /\ l = "grpc" => flight'.http = flight.http
      /\ l = "http" => flight'.grpc = flight.grpc
  BY <1>1, <1>2, FlightFields, Zenon
<1>4. LifeTyped' BY <1>1, <1>3, Zenon DEF LifeInv, LifeTyped
<1>5. Opened' BY <1>1, OpenedKept, Zenon DEF LifeInv
<1>6. Stopped' BY <1>1, <1>3, Zenon DEF LifeInv, Stopped
<1>7. Gated'
  <2>1. ASSUME app = "edge", l = "http" PROVE gate.config
    <3>1. stage \notin {"starting", "failed"}
      <4>1. "http" \notin Loops("edge")
        <5> SUFFICES ASSUME NEW i \in DOMAIN StartOf["edge"], StartOf["edge"][i].does = "loop"
                     PROVE  StartOf["edge"][i].what # "http"
          BY Zenon DEF Loops
        <5>1. StartOf["edge"] = edgeStart BY Zenon DEF StartOf
        <5>3. DOMAIN edgeStart = 1 .. Len(edgeStart) BY DEF edgeStart
        <5>2. "edge" \in Apps BY Zenon DEF Apps
        <5> QED BY <5>1, <5>2, <5>3, StartTables, Zenon DEF TableFacts
      <4> QED BY <1>1, <2>1, <4>1, Zenon DEF LifeInv, Opened
    <3> QED BY <1>1, <2>1, <3>1, Zenon DEF LifeInv, Gated
  <2> QED BY <1>1, <1>3, <2>1, Zenon DEF LifeInv, Gated
<1>8. Probed' BY <1>1, Zenon DEF LifeInv, Probed
<1> QED BY <1>4, <1>5, <1>6, <1>7, <1>8, Zenon DEF LifeInv

\* A request that finishes leaves less in flight (Finish).
LEMMA LifeFinish ==
  ASSUME LifeInv, NEW l \in {"http", "grpc"}, Finish(l)
  PROVE  LifeInv'
<1>1. /\ flight \in [http : Nat, grpc : Nat] /\ flight[l] > 0
      /\ flight' = [flight EXCEPT ![l] = flight[l] - 1]
      /\ UNCHANGED <<app, conf, stage, step, open, cancelled, late, gate, probe, pulled>>
  BY Zenon DEF LifeInv, LifeTyped, Finish
<1>2. flight[l] - 1 \in Nat /\ flight[l] # 0
  <2>1. flight[l] \in Nat BY <1>1, Zenon
  <2> QED BY <1>1, <2>1, SMT
<1>3. /\ flight' \in [http : Nat, grpc : Nat] /\ flight["http"] = flight.http
           /\ flight["grpc"] = flight.grpc
      /\ l = "grpc" => flight'.http = flight.http
      /\ l = "http" => flight'.grpc = flight.grpc
  BY <1>1, <1>2, FlightFields, Zenon
<1>4. LifeTyped' BY <1>1, <1>3, Zenon DEF LifeInv, LifeTyped
<1>5. Opened' BY <1>1, OpenedKept, Zenon DEF LifeInv
<1>6. Stopped' BY <1>1, <1>2, <1>3, Zenon DEF LifeInv, Stopped
<1>7. Gated' BY <1>1, <1>3, Zenon DEF LifeInv, Gated
<1>8. Probed' BY <1>1, Zenon DEF LifeInv, Probed
<1> QED BY <1>4, <1>5, <1>6, <1>7, <1>8, Zenon DEF LifeInv

\* The end of the context, of a loop and of the time Shutdown has (Run).
LEMMA LifeEnds ==
  ASSUME LifeInv, Cancel \/ (\E r \in Loops(app) : LoopEnds(r)) \/ Deadline
  PROVE  LifeInv'
<1>1. /\ open' \subseteq open /\ cancelled' \in BOOLEAN /\ late' \in BOOLEAN /\ (late => late')
      /\ UNCHANGED <<app, conf, stage, step, flight, gate, probe, pulled>>
  BY Zenon DEF LifeInv, LifeTyped, Cancel, LoopEnds, Deadline
<1>2. LifeTyped' BY <1>1, Zenon DEF LifeInv, LifeTyped
<1>3. Opened' BY <1>1, OpenedKept, Zenon DEF LifeInv
<1>4. Stopped' BY <1>1, Zenon DEF LifeInv, Stopped
<1>5. Gated' /\ Probed' BY <1>1, Zenon DEF LifeInv, Gated, Probed
<1> QED BY <1>2, <1>3, <1>4, <1>5, Zenon DEF LifeInv

\* Run goes on to Shutdown's first step.
LEMMA LifeRunStops ==
  ASSUME LifeInv, RunStops
  PROVE  LifeInv'
<1>1. /\ stage = "serving" /\ stage' = "stopping" /\ step = 1 /\ app \in Apps
      /\ UNCHANGED <<app, conf, step, open, flight, cancelled, late, gate, probe, pulled>>
  BY Zenon DEF LifeInv, LifeTyped, Opened, RunStops
<1>2. LifeTyped' BY <1>1, Zenon DEF LifeInv, LifeTyped, Stages
<1>3. Loops(app)' = Loops(app) BY <1>1, Zenon DEF Loops
<1>4. Opened' BY <1>1, <1>3, Zenon DEF LifeInv, Opened
<1>5. 1 <= Len(ShutdownOf[app]) /\ ~(1 > 1) /\ ~(1 > 2)
  <2>1. Len(ShutdownOf[app]) \in Nat /\ Len(ShutdownOf[app]) >= 2 BY <1>1, StopTables, Zenon
  <2> QED BY <2>1, SMT
<1>6. Stopped' BY <1>1, <1>5, Zenon DEF LifeInv, Stopped
<1>7. Gated' /\ Probed' BY <1>1, Zenon DEF LifeInv, Gated, Probed
<1> QED BY <1>2, <1>4, <1>6, <1>7, Zenon DEF LifeInv

\* A listener that Shutdown closes, and then waits for (http.Server.Shutdown, GracefulStop).
LEMMA LifeStopServing ==
  ASSUME LifeInv, NEW l \in {"http", "grpc"}, stage = "stopping", ShutdownOf[app][step] = l, StopServing(l),
         UNCHANGED <<app, conf, cancelled, late, gate, probe>>
  PROVE  LifeInv'
<1>1. /\ app \in Apps /\ step \in Nat \ {0} /\ step <= Len(ShutdownOf[app])
      /\ flight \in [http : Nat, grpc : Nat] /\ UNCHANGED <<stage, flight, pulled>>
  BY Zenon DEF LifeInv, LifeTyped, Stopped, StopServing
<1>2. Len(ShutdownOf[app]) \in Nat BY <1>1, StopTables, Zenon
<1>3. step \in 1 .. Len(ShutdownOf[app]) BY <1>1, <1>2, SMT
<1>4. /\ l = "http" => step = 1
      /\ l = "grpc" => app = "limiter" /\ step = 2
      /\ step # Len(ShutdownOf[app])
      /\ step = 2 /\ app = "limiter" => l = "grpc"
  BY <1>1, <1>3, StopTables, Zenon
<1>5. CASE open' = open \ {l} /\ UNCHANGED step
  <2>1. open' \subseteq open BY <1>5, Zenon
  <2>2. Opened' BY <1>1, <1>5, <2>1, OpenedKept, Zenon DEF LifeInv
  <2>3. LifeTyped' BY <1>1, <1>5, Zenon DEF LifeInv, LifeTyped
  <2>4. Stopped' BY <1>1, <1>5, <2>1, Zenon DEF LifeInv, Stopped
  <2>5. Gated' /\ Probed' BY <1>1, <1>5, Zenon DEF LifeInv, Gated, Probed
  <2> QED BY <2>2, <2>3, <2>4, <2>5, Zenon DEF LifeInv
<1>6. CASE l \notin open /\ (flight[l] = 0 \/ (l = "http" /\ late)) /\ step' = step + 1 /\ UNCHANGED open
  <2>1. step' \in Nat \ {0} /\ step' <= Len(ShutdownOf[app]) /\ (step' > 1 => TRUE)
          /\ (step' > 2 => step > 1)
    BY <1>2, <1>3, <1>4, <1>6, SMT
  <2>2. LifeTyped' BY <1>1, <1>6, <2>1, Zenon DEF LifeInv, LifeTyped
  <2>3. Opened'
    <3>1. Loops(app)' = Loops(app) BY Zenon DEF Loops
    <3> QED BY <1>1, <1>6, <3>1, Zenon DEF LifeInv, Opened
  <2>4. "http" \notin open /\ (late \/ flight.http = 0)
    <3>1. CASE l = "http" BY <1>1, <1>6, <3>1, Zenon
    <3>2. CASE l = "grpc"
      <4>1. step > 1 BY <1>4, <3>2, SMT
      <4> QED BY <4>1, Zenon DEF LifeInv, Stopped
    <3> QED BY <3>1, <3>2, Zenon
  <2>5. ASSUME step' > 2, app = "limiter" PROVE "grpc" \notin open /\ flight.grpc = 0
    <3>1. step > 1 /\ step # 1 BY <1>1, <2>1, <2>5, SMT
    <3>2. l = "grpc" BY <1>4, <3>1, Zenon
    <3> QED BY <1>1, <1>6, <3>2, Zenon
  <2>6. Stopped' BY <1>1, <1>6, <2>1, <2>4, <2>5, Zenon DEF LifeInv, Stopped
  <2>7. Gated' /\ Probed' BY <1>1, Zenon DEF LifeInv, Gated, Probed
  <2> QED BY <2>2, <2>3, <2>6, <2>7, Zenon DEF LifeInv
<1> QED BY <1>5, <1>6, Zenon DEF StopServing

\* The lease is drained, and close runs, when no request in flight is left that had time to finish.
LEMMA LifeNothingPulled ==
  ASSUME LifeInv, stage = "stopping", ShutdownOf[app][step] \in {"drain", "close"}
  PROVE  /\ InTime = 0 /\ "http" \notin open /\ app \in Apps
         /\ step \in 1 .. Len(ShutdownOf[app]) /\ Len(ShutdownOf[app]) \in Nat
         /\ step > 1 /\ (app = "limiter" => step > 2)
<1>1. /\ app \in Apps /\ step \in Nat \ {0} /\ step <= Len(ShutdownOf[app])
      /\ flight \in [http : Nat, grpc : Nat]
  BY Zenon DEF LifeInv, LifeTyped, Stopped
<1>2. Len(ShutdownOf[app]) \in Nat BY <1>1, StopTables, Zenon
<1>3. step \in 1 .. Len(ShutdownOf[app]) BY <1>1, <1>2, SMT
<1>4. step # 1 /\ (app = "limiter" => step # 2) BY <1>1, <1>3, StopTables, Zenon
<1>5. step > 1 /\ (app = "limiter" => step > 2) BY <1>3, <1>4, <1>2
<1>6. "http" \notin open /\ (late \/ flight.http = 0) /\ (app = "limiter" => flight.grpc = 0)
  BY <1>5, Zenon DEF LifeInv, Stopped
<1>7. InTime = 0 BY <1>6 DEF InTime
<1> QED BY <1>1, <1>2, <1>3, <1>5, <1>6, <1>7, Zenon

\* Shutdown's steps keep what it has stopped stopped (Shutdown, close).
LEMMA LifeShutdown ==
  ASSUME LifeInv, Shutdown
  PROVE  LifeInv'
<1> DEFINE s == ShutdownOf[app][step]
<1>1. stage = "stopping" /\ UNCHANGED <<app, conf, cancelled, late, gate, probe>> BY Zenon DEF Shutdown
<1>2. CASE s \in {"http", "grpc"} /\ StopServing(s) BY <1>1, <1>2, LifeStopServing, Zenon
<1>3. CASE s = "drain" /\ Drain
  <2>1. /\ InTime = 0 /\ "http" \notin open /\ step \in 1 .. Len(ShutdownOf[app])
        /\ Len(ShutdownOf[app]) \in Nat /\ step > 1 /\ (app = "limiter" => step > 2)
        /\ app \in Apps
    BY <1>1, <1>3, LifeNothingPulled, Zenon
  <2>2. pulled' = pulled + InTime /\ step' = step + 1 /\ UNCHANGED <<stage, open, flight>>
    BY <1>3, Zenon DEF Drain
  <2>3. pulled = 0 BY Zenon DEF LifeInv, Stopped
  <2>4. pulled' = 0 BY <2>1, <2>2, <2>3
  <2>5. step # Len(ShutdownOf[app]) BY <1>3, <2>1, StopTables, Zenon
  <2>6. step' \in Nat \ {0} /\ step' <= Len(ShutdownOf[app]) BY <2>1, <2>2, <2>5, SMT
  <2>7. LifeTyped' BY <1>1, <2>2, <2>6, Zenon DEF LifeInv, LifeTyped
  <2>8. Opened'
    <3>1. Loops(app)' = Loops(app) BY <1>1, Zenon DEF Loops
    <3> QED BY <1>1, <2>2, <3>1, Zenon DEF LifeInv, Opened
  <2>9. Stopped' BY <1>1, <2>1, <2>2, <2>4, <2>6, Zenon DEF LifeInv, Stopped
  <2>10. Gated' /\ Probed' BY <1>1, <2>2, Zenon DEF LifeInv, Gated, Probed
  <2> QED BY <2>7, <2>8, <2>9, <2>10, Zenon DEF LifeInv
<1>4. CASE s = "close" /\ Close
  <2>1. InTime = 0 /\ "http" \notin open BY <1>1, <1>4, LifeNothingPulled, Zenon
  <2>2. /\ stage' = "exited" /\ open' = open \ CloseOf[app] /\ pulled' = pulled + InTime
        /\ flight' = [flight EXCEPT !["grpc"] = 0] /\ UNCHANGED step /\ flight \in [http : Nat, grpc : Nat]
    BY <1>4, Zenon DEF Close, LifeInv, LifeTyped
  <2>3. pulled = 0 BY Zenon DEF LifeInv, Stopped
  <2>4. pulled' = 0 BY <2>1, <2>2, <2>3
  <2>5. 0 \in Nat BY SMT
  <2>6. flight' \in [http : Nat, grpc : Nat] /\ flight'.http = flight.http
    BY <2>2, <2>5, FlightFields, Zenon
  <2>7. LifeTyped' BY <1>1, <2>2, <2>6, Zenon DEF LifeInv, LifeTyped, Stages
  <2>8. Opened'
    <3>1. Loops(app)' = Loops(app) BY <1>1, Zenon DEF Loops
    <3>2. open' \subseteq Loops(app)' BY <1>1, <2>1, <2>2, <3>1, Zenon DEF LifeInv, Opened
    <3> QED BY <1>1, <2>2, <3>2, Zenon DEF Opened
  <2>9. Stopped' BY <2>2, <2>4, Zenon DEF Stopped
  <2>10. Gated' /\ Probed' BY <1>1, <2>2, <2>6, Zenon DEF LifeInv, Gated, Probed
  <2> QED BY <2>7, <2>8, <2>9, <2>10, Zenon DEF LifeInv
<1> QED BY <1>2, <1>3, <1>4, Zenon DEF Shutdown

\* Every step of a process keeps the invariant.
LEMMA LifeStep ==
  ASSUME LifeInv, [LifeNext]_lifeVars
  PROVE  LifeInv'
<1>1. CASE UNCHANGED lifeVars
  <2>1. UNCHANGED <<app, conf, stage, step, open, flight, cancelled, late, gate, probe, pulled>>
    BY <1>1, Zenon DEF lifeVars
  <2>2. Opened' BY <2>1, OpenedKept, Zenon DEF LifeInv
  <2>3. LifeTyped' /\ Stopped' BY <2>1, Zenon DEF LifeInv, LifeTyped, Stopped
  <2>4. Gated' /\ Probed' BY <2>1, Zenon DEF LifeInv, Gated, Probed
  <2> QED BY <2>2, <2>3, <2>4, Zenon DEF LifeInv
<1> QED BY <1>1, LifeStartStep, LifeStartFails, LifeApply, LifePing, LifeAccept, LifeFinish, LifeEnds,
          LifeRunStops, LifeShutdown, Zenon DEF LifeNext

\* What the invariant says of a process's life.
LEMMA LifeConsequences == LifeInv => OrderlyLife
<1> SUFFICES ASSUME LifeInv PROVE OrderlyLife BY Zenon
<1>1. stage \in {"failed", "exited"} => open \subseteq Loops(app) BY Zenon DEF LifeInv, Opened
<1>2. pulled = 0 BY Zenon DEF LifeInv, Stopped
<1>3. app = "edge" /\ flight.http > 0 => gate.config BY Zenon DEF LifeInv, Gated
<1>4. app = "edge" /\ stage = "serving" /\ readyz => gate.config /\ probe.failures < ProbeLimit
  BY Zenon DEF LifeInv, Gated, Probed, readyz
<1> QED BY <1>1, <1>2, <1>3, <1>4, Zenon DEF OrderlyLife
=============================================================================
