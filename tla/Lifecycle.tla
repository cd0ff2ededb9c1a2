----------------------------- MODULE Lifecycle -----------------------------
(***************************************************************************)
(* How the four processes start, become ready and stop                     *)
(* (internal/app/{edgeapp,hubapp,limiterapp,analyticsapp}): the steps of   *)
(* Start in order, some of which may fail; serving; the cancelled context, *)
(* for which the background loops end in their own time; and Shutdown,     *)
(* which waits for requests in flight until its deadline.                  *)
(***************************************************************************)
EXTENDS Integers, Sequences, FiniteSets

CONSTANTS MaxRequests, ProbeLimit

ASSUME LifeSettings == ProbeLimit \in Nat \ {0}

VARIABLES
  app,        \* which process this is
  conf,       \* its options: a subset of OptionsOf[app]
  stage,      \* starting, failed, serving, stopping, exited
  step,       \* the next step of Start, then of Shutdown
  open,       \* the connections, listeners and loops held
  flight,     \* requests in flight, by listener
  cancelled,  \* the context Start was given is done
  late,       \* Shutdown's deadline has passed
  gate,       \* an edge: proxy traffic let in (startupReady), and a config installed
  probe,      \* an edge: the response-store probe's failures in a row, and localHealthy
  pulled      \* requests in flight, within the deadline, when the lease was drained or close ran

lifeVars == <<app, conf, stage, step, open, flight, cancelled, late, gate, probe, pulled>>

\* A step of Start, taken when the option is chosen ("" for always): "check" may fail, "dial" opens
\* or fails, "make" opens, "loop" starts a goroutine that ends with the context, "hold" closes the gate.
S(does, what, opt) == [does |-> does, what |-> what, opt |-> opt]

edgeStart ==
  << S("check", "config", ""), S("check", "tls", ""), S("dial", "hub", ""), S("check", "file", "bootstrap"),
     S("check", "address", "counter"), S("make", "limiterRedis", "counter"), S("make", "cacheRedis", "cacheRedis"),
     S("loop", "publisher", "analytics"), S("loop", "workers", ""), S("loop", "probe", ""), S("hold", "", ""),
     S("loop", "follow", ""), S("loop", "metrics", ""), S("dial", "http", "") >>
hubStart ==
  << S("check", "config", ""), S("check", "file", ""), S("make", "redis", ""), S("loop", "migrate", ""),
     S("loop", "control", ""), S("loop", "metrics", ""), S("check", "pattern", ""), S("check", "tls", ""),
     S("check", "peerTLS", "region"), S("loop", "peers", "region"), S("check", "peer", "region"),
     S("dial", "grpc", ""), S("dial", "http", ""), S("loop", "watch", "") >>
limiterStart ==
  << S("check", "config", ""), S("check", "tls", ""), S("dial", "hub", ""), S("loop", "workers", ""),
     S("loop", "follow", ""), S("loop", "metrics", ""), S("dial", "grpc", "rls"), S("dial", "http", "json") >>
analyticsStart ==
  << S("check", "config", ""), S("dial", "store", "clickhouse"), S("make", "store", "redis"),
     S("loop", "metrics", ""), S("dial", "http", ""), S("loop", "watch", "") >>
StartOf == [edge |-> edgeStart, hub |-> hubStart, limiter |-> limiterStart, analytics |-> analyticsStart]
\* What Validate lets through: a limiter serves something, analytics has one store
OptionsOf ==
  [edge |-> SUBSET {"bootstrap", "counter", "cacheRedis", "analytics"}, hub |-> SUBSET {"region"},
   limiter |-> SUBSET {"rls", "json"} \ {{}}, analytics |-> {{"clickhouse"}, {"redis"}}]

\* What close closes; stopping a gRPC server takes its listener with it
edgeClose == {"limiterRedis", "cacheRedis", "hub"}
hubClose == {"grpc", "redis"}
limiterClose == {"grpc", "hub"}
analyticsClose == {"store"}
CloseOf == [edge |-> edgeClose, hub |-> hubClose, limiter |-> limiterClose, analytics |-> analyticsClose]
Loops(a) == {StartOf[a][i].what : i \in {i \in DOMAIN StartOf[a] : StartOf[a][i].does = "loop"}}

edgeShutdownEarly == << "drain", "http", "close" >>
edgeShutdown == << "http", "drain", "close" >>
limiterShutdown == << "http", "grpc", "drain", "close" >>
hubShutdown == << "http", "close" >>
analyticsShutdown == << "http", "close" >>
ShutdownOf ==
  [edge |-> edgeShutdown, hub |-> hubShutdown, limiter |-> limiterShutdown, analytics |-> analyticsShutdown]

\* NewServer lets traffic in and believes the response store healthy
LifeInit ==
  /\ app \in DOMAIN StartOf /\ conf \in OptionsOf[app]
  /\ stage = "starting" /\ step = 1 /\ open = {} /\ flight = [http |-> 0, grpc |-> 0]
  /\ cancelled = FALSE /\ late = FALSE /\ pulled = 0
  /\ gate = [open |-> TRUE, config |-> "bootstrap" \in conf]
  /\ probe = [failures |-> 0, healthy |-> TRUE]

Taken(s) == s.opt = "" \/ s.opt \in conf
StartStep ==
  LET s == StartOf[app][step]
      last == step = Len(StartOf[app])
  IN  /\ stage = "starting"
      /\ open' = IF Taken(s) /\ s.does \in {"dial", "make", "loop"} THEN open \cup {s.what} ELSE open
      /\ gate' = IF s.does = "hold" THEN [gate EXCEPT !.open = "bootstrap" \in conf] ELSE gate
      /\ stage' = IF last THEN "serving" ELSE stage
      /\ step' = IF last THEN 1 ELSE step + 1
      /\ UNCHANGED <<app, conf, flight, cancelled, late, probe, pulled>>
\* The deferred close; what the loops hold ends with the context
StartFails ==
  LET s == StartOf[app][step]
  IN  /\ stage = "starting" /\ Taken(s) /\ s.does \in {"check", "dial"}
      /\ stage' = "failed" /\ open' = open \ CloseOf[app]
      /\ flight' = [flight EXCEPT !.grpc = 0]
      /\ UNCHANGED <<app, conf, step, cancelled, late, gate, probe, pulled>>

\* Apply on an edge: the first config is installed, and then traffic is let in
ApplyConfig ==
  /\ app = "edge" /\ "follow" \in open /\ ~gate.config
  /\ gate' = [gate EXCEPT !.config = TRUE]
  /\ UNCHANGED <<app, conf, stage, step, open, flight, cancelled, late, probe, pulled>>
ApplyReady ==
  /\ app = "edge" /\ "follow" \in open /\ gate.config /\ ~gate.open
  /\ gate' = [gate EXCEPT !.open = TRUE]
  /\ UNCHANGED <<app, conf, stage, step, open, flight, cancelled, late, probe, pulled>>
\* StartReadinessProbe: only a Redis response store can fail its ping
PingAnswers ==
  /\ "probe" \in open /\ probe.failures > 0
  /\ probe' = [failures |-> 0, healthy |-> TRUE]
  /\ UNCHANGED <<app, conf, stage, step, open, flight, cancelled, late, gate, pulled>>
PingFails ==
  /\ "probe" \in open /\ "cacheRedis" \in conf /\ probe.failures < ProbeLimit
  /\ probe' = [failures |-> probe.failures + 1, healthy |-> probe.healthy /\ probe.failures + 1 < ProbeLimit]
  /\ UNCHANGED <<app, conf, stage, step, open, flight, cancelled, late, gate, pulled>>
readyz == gate.open /\ probe.healthy

\* A listener serves from the moment it is open, before Start is done; holdUntilStarted answers 503 at once
Accept(l) ==
  /\ l \in open /\ flight[l] < MaxRequests
  /\ app = "edge" => gate.open
  /\ flight' = [flight EXCEPT ![l] = @ + 1]
  /\ UNCHANGED <<app, conf, stage, step, open, cancelled, late, gate, probe, pulled>>
Finish(l) ==
  /\ flight[l] > 0
  /\ flight' = [flight EXCEPT ![l] = @ - 1]
  /\ UNCHANGED <<app, conf, stage, step, open, cancelled, late, gate, probe, pulled>>

Cancel ==
  /\ ~cancelled /\ cancelled' = TRUE
  /\ UNCHANGED <<app, conf, stage, step, open, flight, late, gate, probe, pulled>>
LoopEnds(r) ==
  /\ cancelled /\ r \in open
  /\ open' = open \ {r}
  /\ UNCHANGED <<app, conf, stage, step, flight, cancelled, late, gate, probe, pulled>>
\* Run, once the context is done
RunStops ==
  /\ stage = "serving" /\ cancelled
  /\ stage' = "stopping"
  /\ UNCHANGED <<app, conf, step, open, flight, cancelled, late, gate, probe, pulled>>
Deadline ==
  /\ stage = "stopping" /\ ~late
  /\ late' = TRUE
  /\ UNCHANGED <<app, conf, stage, step, open, flight, cancelled, gate, probe, pulled>>

\* Requests that could still have finished: HTTP ones until the deadline; GracefulStop knows none
InTime == (IF late THEN 0 ELSE flight.http) + (IF app = "limiter" THEN flight.grpc ELSE 0)
\* http.Server.Shutdown and grpc.Server.GracefulStop: the listener closes, then the requests finish
StopServing(l) ==
  /\ IF l \in open THEN open' = open \ {l} /\ UNCHANGED step
     ELSE /\ flight[l] = 0 \/ (l = "http" /\ late)
          /\ step' = step + 1 /\ UNCHANGED open
  /\ UNCHANGED <<stage, flight, pulled>>
Drain ==
  /\ pulled' = pulled + InTime /\ step' = step + 1
  /\ UNCHANGED <<stage, open, flight>>
\* Stop ends the gRPC calls in flight
Close ==
  /\ stage' = "exited" /\ open' = open \ CloseOf[app]
  /\ pulled' = pulled + InTime /\ flight' = [flight EXCEPT !.grpc = 0]
  /\ UNCHANGED step
Shutdown ==
  LET s == ShutdownOf[app][step]
  IN  /\ stage = "stopping"
      /\ \/ s \in {"http", "grpc"} /\ StopServing(s)
         \/ s = "drain" /\ Drain
         \/ s = "close" /\ Close
      /\ UNCHANGED <<app, conf, cancelled, late, gate, probe>>

LifeNext ==
  \/ StartStep \/ StartFails \/ ApplyConfig \/ ApplyReady \/ PingAnswers \/ PingFails
  \/ \E l \in {"http", "grpc"} : Accept(l) \/ Finish(l)
  \/ Cancel \/ (\E r \in Loops(app) : LoopEnds(r)) \/ RunStops \/ Deadline \/ Shutdown

LifeSpec == LifeInit /\ [][LifeNext]_lifeVars

----------------------------------------------------------------------------
(* Properties.                                                             *)

\* A process leaves nothing behind and pulls nothing from under a request: once Start has failed, at
\* any step, or Run has returned, only loops that end with the context are left; the lease is drained
\* "once no request can be admitted any more" (edgeapp.Shutdown), and close runs, with no request in
\* flight that the deadline still allows; an edge serves nothing before a config is installed, and
\* reports ready only with one and with a response store that answers.
OrderlyLife ==
  /\ stage \in {"failed", "exited"} => open \subseteq Loops(app)
  /\ pulled = 0
  /\ app = "edge" /\ flight.http > 0 => gate.config
  /\ app = "edge" /\ stage = "serving" /\ readyz => gate.config /\ probe.failures < ProbeLimit
=============================================================================
