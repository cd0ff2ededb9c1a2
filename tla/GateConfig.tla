----------------------------- MODULE GateConfig -----------------------------
(***************************************************************************)
(* Configuration files (packages/config) and their rollout (packages/hub): *)
(* a version 2 file is validated and compiled to the runtime model, a      *)
(* reload compares that with the active one and names the cached responses *)
(* the edges drop, and a runtime model is converted back to a file by the  *)
(* migration from version 1.                                               *)
(*                                                                         *)
(* A nil pointer of the code is <<>> here and a set one is <<value>>.      *)
(* Settings that are only carried over (methods, host, timeouts, ...) are  *)
(* one field, `copied'.  Durations are whole seconds, a rate is requests   *)
(* per second, a URL says whether it parses and which path it has.         *)
(***************************************************************************)
EXTENDS Integers, Sequences, FiniteSets, SequencesExt, Functions

CONSTANTS
  Files,       \* the files a hub may start with
  Updates,     \* the ones it may be given later
  Longer,      \* pairs of names of which the second begins the first
  Handlers,    \* reload requests handled at the same time
  MaxReloads   \* bound: reload requests

VARIABLES
  file,    \* the hub's configuration file
  active,  \* the hub's runtime model
  live,    \* the one the edge has been sent
  resp,    \* its cached responses
  req,     \* req[p]: the reload request p is handling
  asked,   \* reload requests so far
  mixed    \* reloads overlapped, or the file changed under one

configVars == <<file, active, live, resp, req, asked, mixed>>

Opt(c, v) == IF c THEN <<v>> ELSE <<>>
MapOpt(o, Op(_)) == Opt(o # <<>>, Op(o[1]))
OrDefault(v, d) == IF v = "" THEN d ELSE v
Distinct(s, Key(_)) == \A i, j \in DOMAIN s : Key(s[i]) = Key(s[j]) => i = j
EachOf(s, P(_)) == \A i \in DOMAIN s : P(s[i])
MapSeq(s, Op(_)) == [i \in DOMAIN s |-> Op(s[i])]

----------------------------------------------------------------------------
\* Validation of a file.
Algorithms == {"", "fixed_window", "sliding_window", "token_bucket"}
Modes == {"", "enforce", "shadow"}
CostMethods == {"GET", "POST", "PUT", "DELETE", "*"}

validateBudget(algo, requests, rate, burst) ==
  IF algo = "token_bucket" THEN rate > 0 /\ burst > 0 /\ requests = 0
                           ELSE requests > 0 /\ rate = 0 /\ burst = 0

\* Descriptor entries nest.
RECURSIVE validateEntries(_)
validateEntries(es) ==
  /\ Distinct(es, LAMBDA e : <<e.key, e.value>>)
  /\ EachOf(es, LAMBDA e :
       /\ e.key # "" /\ e.mode \in Modes
       /\ e.limit = <<>> => e.entries # <<>>
       /\ EachOf(e.limit, LAMBDA l :
            /\ l.algo \in Algorithms /\ validateBudget(l.algo, l.requests, l.rate, l.burst)
            /\ l.algo # "token_bucket" => l.window >= 1)
       /\ validateEntries(e.entries))
validateDescriptors(ds) ==
  /\ Distinct(ds, LAMBDA d : d.domain)
  /\ EachOf(ds, LAMBDA d : d.domain # "" /\ d.entries # <<>> /\ validateEntries(d.entries))

\* The settings of version 3: modes, leasing, the org budget, further limits,
\* global quotas and costs reported by the upstream.
validateV3Limits(l) ==
  /\ l.algo \in Algorithms /\ l.mode \in Modes
  /\ EachOf(l.leasing, LAMBDA p : p.mode \in {"", "adaptive", "fixed"} /\ p.min >= 0
                                  /\ p.max >= 0 /\ (p.max > 0 => p.min <= p.max))
  /\ EachOf(l.org, LAMBDA o : o.requests > 0 /\ o.window >= 0)
  /\ Distinct(l.also, LAMBDA a : a.name)
  /\ EachOf(l.also, LAMBDA a :
       /\ a.name \notin {""} \cup DOMAIN l.tiers
       /\ a.per \in {"", "key", "client_ip", "service"} /\ a.mode \in Modes
       /\ a.algo \in Algorithms /\ validateBudget(a.algo, a.requests, a.rate, a.burst))
  /\ EachOf(l.global, LAMBDA floors :
       /\ floors # <<>> /\ Range(floors) \subseteq 0 .. 100 /\ FoldFunction(+, 0, floors) <= 100
       /\ \A t \in DOMAIN l.tiers : OrDefault(l.tiers[t].algo, l.algo) \in {"", "fixed_window"}
       /\ l.org = <<>>)
  /\ EachOf(l.cost, LAMBDA c : c.header # "" /\ c.missing \in {"", "estimate", "refund"}
                               /\ c.estimate >= 0 /\ c.debt >= 0)
validateLimits(l) ==
  /\ l.window > 0 /\ l.lease >= 0 /\ DOMAIN l.tiers # {}
  /\ \A n \in DOMAIN l.tiers :
       LET t == l.tiers[n]
       IN  /\ n # "" /\ t.algo \in Algorithms
           /\ validateBudget(OrDefault(t.algo, l.algo), t.requests, t.rate, t.burst)
           /\ DOMAIN t.cost \subseteq CostMethods /\ \A m \in DOMAIN t.cost : t.cost[m] > 0
  /\ l.default # "" => l.default \in DOMAIN l.tiers
  /\ EachOf(l.fallback, LAMBDA allow : allow > 0)
  /\ validateV3Limits(l)

\* Callers that do not name a tier need a default one.
validateAuthAnyTier(s) ==
  EachOf(s.auth, LAMBDA a :
    /\ a.type \in {"api_key", "jwt", "none"}
    /\ IF a.type = "jwt" THEN a.jwt # <<>> /\ a.jwt[1].url.ok ELSE a.jwt = <<>>)
validateAuth(s) ==
  LET hasDefault == s.limits.default # "" \/ Cardinality(DOMAIN s.limits.tiers) = 1
  IN  EachOf(s.auth, LAMBDA a :
        /\ a.type \in {"api_key", "jwt", "none"}
        /\ IF a.type = "jwt" THEN a.jwt # <<>> /\ a.jwt[1].url.ok ELSE a.jwt = <<>>
        /\ a.type = "jwt" /\ a.jwt # <<>> /\ a.jwt[1].claim = "" => hasDefault
        /\ a.type = "none" => hasDefault)
\* One upstream or several replicas of one, never both.
validateUpstreams(s) ==
  /\ (s.upstream = <<>>) # (s.upstreams = <<>>)
  /\ EachOf(s.upstream \o s.upstreams, LAMBDA u : u.ok)
  /\ \A i, j \in DOMAIN s.upstreams : s.upstreams[i].path = s.upstreams[j].path
  /\ EachOf(s.breaker, LAMBDA b : b.failures >= 1 /\ b.cooldown > 0)
validateService(s) ==
  /\ s.name # "" /\ s.group # ""
  /\ validateUpstreams(s) /\ validateAuth(s) /\ validateLimits(s.limits)
  /\ EachOf(s.cache, LAMBDA c : c.ttl > 0)
  /\ EachOf(s.retries, LAMBDA r : r.attempts >= 1)
  /\ EachOf(s.cors, LAMBDA c : c.origins # {})
  /\ EachOf(s.analytics, LAMBDA a : a.rate = <<>> \/ a.rate[1] \in 0 .. 100)
  /\ EachOf(s.onError, LAMBDA e : e.mode \in {"fail-closed", "fail-open"})
\* The whole file: names are unique, and services of one group share the
\* window and the lease size.
validate(f) ==
  /\ f.version = 2 /\ (f.services # <<>> \/ f.descriptors # <<>>)
  /\ validateDescriptors(f.descriptors)
  /\ Distinct(f.services, LAMBDA s : s.name)
  /\ EachOf(f.services, validateService)
  /\ \A i, j \in DOMAIN f.services :
       f.services[i].group = f.services[j].group
         => /\ f.services[i].limits.window = f.services[j].limits.window
            /\ f.services[i].limits.lease = f.services[j].limits.lease
  /\ f.runtime.lowWater \in 0 .. 100

----------------------------------------------------------------------------
\* Compilation to the runtime model.
internalAlgo(a) == IF a = "fixed_window" THEN "" ELSE a
IsBucket(a) == internalAlgo(a) = "token_bucket"

compileTier(n, t, algo) ==
  LET a == OrDefault(t.algo, algo)
      cost(m) == IF m \in DOMAIN t.cost THEN t.cost[m]
                 ELSE IF "*" \in DOMAIN t.cost THEN t.cost["*"] ELSE 1
  IN  [id |-> n, algo |-> internalAlgo(a), costs |-> [m \in CostMethods |-> cost(m)],
       quota |-> IF IsBucket(a) THEN t.burst ELSE t.requests,
       rate |-> IF IsBucket(a) THEN t.rate ELSE 0]
compileLimit(l, id, shadow) ==
  [id |-> id, algo |-> internalAlgo(l.algo), window |-> l.window, shadow |-> shadow,
   quota |-> IF IsBucket(l.algo) THEN l.burst ELSE l.requests,
   rate |-> IF IsBucket(l.algo) THEN l.rate ELSE 0]
RECURSIVE compileEntries(_)
compileEntries(es) ==
  MapSeq(es, LAMBDA e :
    [key |-> e.key, value |-> e.value, entries |-> compileEntries(e.entries),
     limit |-> MapOpt(e.limit, LAMBDA l : compileLimit(l, e.key, e.mode = "shadow"))])
compileLimits(l) ==
  [shadow |-> l.mode = "shadow", lease |-> l.leasing, org |-> l.org,
   also |-> MapSeq(l.also, LAMBDA a : [per |-> OrDefault(a.per, "key"),
                                       limit |-> compileLimit(a, a.name, a.mode = "shadow")]),
   global |-> l.global, cost |-> l.cost]

DefaultKey == "{method}:{path}:{query}:{key}"
DefaultMethods == {"GET", "POST", "PUT", "DELETE", "OPTIONS"}
DefaultBreaker == [failures |-> 5, cooldown |-> 10]
DefaultMaxAge == 300

\* Replicas get a circuit breaker even when the file names none.
compileService(s) ==
  LET l == s.limits
      tiers == SetToSeq(DOMAIN l.tiers)
  IN  [id |-> s.name, copied |-> s.copied, upstreams |-> s.upstreams,
       target |-> Head(s.upstreams \o s.upstream),
       breaker |-> IF s.breaker # <<>> THEN s.breaker ELSE Opt(Len(s.upstreams) > 1, DefaultBreaker),
       auth |-> IF s.auth = <<>> THEN [type |-> "", jwt |-> <<>>] ELSE s.auth[1],
       transform |-> [strip |-> s.strip = <<>> \/ s.strip[1],
                      headers |-> IF s.headers = <<>> THEN {} ELSE s.headers[1]],
       tiers |-> MapSeq(tiers, LAMBDA n : compileTier(n, l.tiers[n], l.algo)),
       limits |-> compileLimits(l),
       strategy |-> IF l.default = "" THEN "fail-closed" ELSE "stale-or-default",
       default |-> l.default,
       safety |-> MapOpt(l.fallback, LAMBDA q : compileTier("_hub_unavailable",
                    [algo |-> "", requests |-> q, rate |-> 0, burst |-> 0, cost |-> <<>>], "")),
       lenient |-> l.fallback # <<>>,
       cache |-> MapOpt(s.cache, LAMBDA c : [ttl |-> c.ttl, key |-> OrDefault(c.key, DefaultKey)]),
       cors |-> MapOpt(s.cors, LAMBDA c :
                  [origins |-> c.origins, methods |-> IF c.methods = {} THEN DefaultMethods ELSE c.methods,
                   maxAge |-> IF c.maxAge = 0 THEN DefaultMaxAge ELSE c.maxAge]),
       analytics |-> [enabled |-> s.analytics = <<>> \/ s.analytics[1].enabled # <<FALSE>>,
                      rate |-> IF s.analytics = <<>> \/ s.analytics[1].rate = <<>>
                               THEN 100 ELSE s.analytics[1].rate[1]],
       retries |-> IF s.retries = <<>> THEN 0 ELSE s.retries[1].attempts - 1,
       policy |-> IF s.retries = <<>> THEN "" ELSE s.retries[1].policy,
       onError |-> IF s.onError = <<>> THEN [mode |-> "fail-closed", body |-> ""] ELSE s.onError[1]]

\* Effective: unset or senseless settings get their defaults.
DefaultRuntime == [lowWater |-> 20, events |-> 100, maxEvents |-> 5000, other |-> 1]
Effective(r) ==
  [x \in DOMAIN DefaultRuntime |->
     IF r[x] <= 0 \/ (x = "lowWater" /\ r[x] > 100) THEN DefaultRuntime[x] ELSE r[x]]
compileRuntime(r) == Effective(r)

\* Services of one group become one prefix, in the order of their first ones.
Compile(f) ==
  LET groups == FoldLeft(LAMBDA gs, s : IF Contains(gs, s.group) THEN gs ELSE Append(gs, s.group),
                         <<>>, f.services)
      of(g) == SelectSeq(f.services, LAMBDA s : s.group = g)
  IN  [runtime |-> compileRuntime(f.runtime),
       descriptors |-> MapSeq(f.descriptors, LAMBDA d : [d EXCEPT !.entries = compileEntries(@)]),
       prefixes |-> MapSeq(groups, LAMBDA g :
         [prefix |-> g, period |-> of(g)[1].limits.window, quantum |-> of(g)[1].limits.lease,
          services |-> MapSeq(of(g), compileService)])]

----------------------------------------------------------------------------
\* And back.
bucketFields(l) ==
  IF IsBucket(l.algo) THEN [algo |-> l.algo, requests |-> 0, burst |-> l.quota, rate |-> l.rate]
                      ELSE [algo |-> l.algo, requests |-> l.quota, burst |-> 0, rate |-> 0]
Shadow(b) == IF b THEN "shadow" ELSE ""
tierFromInternal(t) ==
  bucketFields(t) @@ [cost |-> [m \in {x \in CostMethods : t.costs[x] > 1} |-> t.costs[m]]]
RECURSIVE entriesFromInternal(_)
entriesFromInternal(es) ==
  MapSeq(es, LAMBDA e :
    [key |-> e.key, value |-> e.value, entries |-> entriesFromInternal(e.entries),
     mode |-> Shadow(e.limit # <<>> /\ e.limit[1].shadow),
     limit |-> MapOpt(e.limit, LAMBDA l : bucketFields(l) @@ [window |-> l.window])])
limitsFromInternal(s) ==
  [mode |-> Shadow(s.limits.shadow), leasing |-> s.limits.lease, org |-> s.limits.org,
   also |-> MapSeq(s.limits.also, LAMBDA a :
     bucketFields(a.limit) @@ [name |-> a.limit.id, window |-> a.limit.window,
                               per |-> IF a.per = "key" THEN "" ELSE a.per, mode |-> Shadow(a.limit.shadow)]),
   global |-> s.limits.global, cost |-> s.limits.cost]
breakerAnyDefault(s) == IF s.breaker = <<DefaultBreaker>> THEN <<>> ELSE s.breaker
breakerFromInternal(s) ==
  IF s.breaker = <<DefaultBreaker>> /\ Len(s.upstreams) > 1 THEN <<>> ELSE s.breaker
serviceFromInternal(p, s) ==
  LET ids == [i \in DOMAIN s.tiers |-> s.tiers[i].id]
  IN  [name |-> s.id, group |-> p.prefix, copied |-> s.copied,
       upstream |-> Opt(s.upstreams = <<>>, s.target), upstreams |-> s.upstreams,
       breaker |-> breakerFromInternal(s),
       auth |-> Opt(s.auth.type \notin {"", "api_key"}, s.auth),
       strip |-> Opt(~s.transform.strip, FALSE),
       headers |-> Opt(s.transform.headers # {}, s.transform.headers),
       limits |-> [window |-> p.period, lease |-> p.quantum, algo |-> "",
                   tiers |-> [n \in Range(ids) |->
                                tierFromInternal(s.tiers[CHOOSE i \in DOMAIN ids : ids[i] = n])],
                   default |-> IF s.strategy = "fail-closed" THEN "" ELSE s.default,
                   fallback |-> IF s.lenient THEN MapOpt(s.safety, LAMBDA t : t.quota) ELSE <<>>]
                  @@ limitsFromInternal(s),
       cache |-> MapOpt(s.cache, LAMBDA c : [c EXCEPT !.key = IF @ = DefaultKey THEN "" ELSE @]),
       cors |-> MapOpt(s.cors, LAMBDA c :
                  [c EXCEPT !.methods = IF @ = DefaultMethods THEN {} ELSE @,
                            !.maxAge = IF @ = DefaultMaxAge THEN 0 ELSE @]),
       analytics |-> IF ~s.analytics.enabled THEN <<[enabled |-> <<FALSE>>, rate |-> <<>>]>>
                     ELSE Opt(s.analytics.rate # 100, [enabled |-> <<>>, rate |-> <<s.analytics.rate>>]),
       retries |-> Opt(s.retries > 0, [attempts |-> s.retries + 1, policy |-> s.policy]),
       onError |-> Opt(s.onError.mode = "fail-open", s.onError)]
runtimeFromInternal(r) ==
  [x \in DOMAIN DefaultRuntime |-> IF Effective(r)[x] = DefaultRuntime[x] THEN 0 ELSE Effective(r)[x]]
FromInternal(c) ==
  [version |-> 2, runtime |-> runtimeFromInternal(c.runtime),
   descriptors |-> MapSeq(c.descriptors, LAMBDA d : [d EXCEPT !.entries = entriesFromInternal(@)]),
   services |-> FlattenSeq(MapSeq(c.prefixes, LAMBDA p :
                  MapSeq(p.services, LAMBDA s : serviceFromInternal(p, s))))]

----------------------------------------------------------------------------
\* The hub's own check of a runtime model.
ValidRuntime(r) == r.events <= r.maxEvents
ValidService(s) ==
  s.analytics.rate \in 0 .. 100 /\ EachOf(s.safety, LAMBDA t : t.id # "" /\ t.quota > 0)
ValidPrefix(p) == p.quantum >= 0 /\ EachOf(p.services, ValidService)
Valid(c) == EachOf(c.prefixes, ValidPrefix) /\ ValidRuntime(c.runtime)
ValidateGatewayConfig(c) ==
  /\ Valid(c) /\ c.prefixes # <<>>
  /\ Distinct(c.prefixes, LAMBDA p : p.prefix)
  /\ EachOf(c.prefixes, LAMBDA p :
       /\ p.period > 0 /\ p.services # <<>> /\ Distinct(p.services, LAMBDA s : s.id)
       /\ EachOf(p.services, LAMBDA s :
            /\ s.target.ok /\ s.tiers # <<>> /\ Distinct(s.tiers, LAMBDA t : t.id)
            /\ EachOf(s.tiers, LAMBDA t : t.quota > 0)
            /\ EachOf(s.cache, LAMBDA x : x.ttl > 0)
            /\ EachOf(s.safety, LAMBDA t : \A i \in DOMAIN s.tiers : s.tiers[i].id # t.id)
            /\ s.strategy # "fail-closed" => s.default # ""))
decodeAndValidateConfig(f) == validate(f) /\ ValidateGatewayConfig(Compile(f))

\* The prefix and the service of that name, as sequences of at most one.
FindPrefix(c, p) == SelectSeq(c.prefixes, LAMBDA x : x.prefix = p)
FindService(c, p, s) ==
  LET found == FindPrefix(c, p)
  IN  IF found = <<>> THEN <<>> ELSE SelectSeq(found[1].services, LAMBDA x : x.id = s)
\* The tier of callers that name none.
defaultTier(s) ==
  IF s.default # "" THEN s.default ELSE IF Len(s.tiers) = 1 THEN s.tiers[1].id ELSE ""

\* What a reload changes: the scopes whose cached responses the edges drop.  A
\* scope with no service is the whole prefix.
ServicesOf(c) == UNION {{<<p.prefix, s.id>> : s \in Range(p.services)} : p \in Range(c.prefixes)}
Changed(old, new) ==
  \/ old.cache # new.cache
  \/ old.transform # new.transform \/ old.target # new.target
  \/ old.tiers # new.tiers \/ old.safety # new.safety
analyzeChangesOnly(cur, next) ==
  {k \in ServicesOf(cur) \cap ServicesOf(next) :
      Changed(FindService(cur, k[1], k[2])[1], FindService(next, k[1], k[2])[1])}
analyzeConfigUpdate(cur, next) ==
  {<<p.prefix, "">> : p \in {x \in Range(cur.prefixes) : FindPrefix(next, x.prefix) = <<>>}}
  \cup {k \in ServicesOf(cur) :
          LET now == FindService(next, k[1], k[2])
          IN  /\ FindPrefix(next, k[1]) # <<>>
              /\ now = <<>> \/ Changed(FindService(cur, k[1], k[2])[1], now[1])}

----------------------------------------------------------------------------
Idle == [pc |-> "idle"]
ConfigInit ==
  /\ file \in {f \in Files : decodeAndValidateConfig(f)}
  /\ active = Compile(file) /\ live = active
  /\ resp = {} /\ req = [p \in Handlers |-> Idle] /\ asked = 0 /\ mixed = FALSE

\* An operator writes the file, valid or not.
Edit(f) ==
  /\ f # file
  /\ file' = f
  /\ mixed' = (mixed \/ \E p \in Handlers : req[p].pc = "activate" /\ req[p].kind = "file")
  /\ UNCHANGED <<active, live, resp, req, asked>>

\* A reload, of the file or of a payload: the new model is compared with the
\* active one; an invalid one is refused.
Resolve(p, kind, f) ==
  /\ req[p] = Idle /\ asked < MaxReloads
  /\ kind = "file" => f = file
  /\ asked' = asked + 1
  /\ mixed' = (mixed \/ \E q \in Handlers : req[q] # Idle)
  /\ req' = IF decodeAndValidateConfig(f)
            THEN [req EXCEPT ![p] = [pc |-> "activate", kind |-> kind, next |-> Compile(f),
                                     scopes |-> analyzeConfigUpdate(active, Compile(f))]]
            ELSE req
  /\ UNCHANGED <<file, active, live, resp>>

\* It becomes active; a file is read and validated once more for that.
Activate(p) ==
  LET r == req[p]
      ok == r.kind = "payload" \/ decodeAndValidateConfig(file)
  IN  /\ r.pc = "activate"
      /\ active' = IF ~ok THEN active ELSE IF r.kind = "payload" THEN r.next ELSE Compile(file)
      /\ req' = [req EXCEPT ![p] = IF ok THEN [pc |-> "publish", scopes |-> r.scopes] ELSE Idle]
      /\ UNCHANGED <<file, live, resp, asked, mixed>>

\* Every edge gets the active model and drops the responses of the scopes,
\* found by the beginning of their cache keys.
Begins(n, m) == n = m \/ <<n, m>> \in Longer
InScope(r, scopes) ==
  \E k \in scopes : IF k[2] = "" THEN Begins(r.prefix, k[1])
                    ELSE r.prefix = k[1] /\ Begins(r.service, k[2])
PublishConfig(p) ==
  /\ req[p].pc = "publish"
  /\ live' = active
  /\ resp' = {r \in resp : ~InScope(r, req[p].scopes)}
  /\ req' = [req EXCEPT ![p] = Idle]
  /\ UNCHANGED <<file, active, asked, mixed>>

\* What a response depends on, and a request that leaves one in the cache.
Behaviour(s) == <<s.target, s.transform, s.cache>>
Serve(k) ==
  LET s == FindService(live, k[1], k[2])[1]
  IN  /\ s.cache # <<>>
      /\ resp' = resp \cup {[prefix |-> k[1], service |-> k[2], made |-> Behaviour(s)]}
      /\ resp' # resp
      /\ UNCHANGED <<file, active, live, req, asked, mixed>>

ConfigNext ==
  \/ \E f \in Updates : Edit(f)
  \/ \E p \in Handlers : \E kind \in {"file", "payload"}, f \in Updates \cup {file} : Resolve(p, kind, f)
  \/ \E p \in Handlers : Activate(p)
  \/ \E p \in Handlers : PublishConfig(p)
  \/ \E k \in ServicesOf(live) : Serve(k)

ConfigSpec == ConfigInit /\ [][ConfigNext]_configVars

----------------------------------------------------------------------------
\* Reloads one at a time leave no response behind that the service's present
\* settings would not produce, a service that is taken out and brought back
\* with other settings included (analyzeConfigUpdate, Invalidate).
ResponsesCurrent ==
  ~mixed /\ (\A p \in Handlers : req[p] = Idle) =>
    \A r \in resp : LET s == FindService(live, r.prefix, r.service)
                     IN  s # <<>> /\ r.made = Behaviour(s[1])

\* What a service does, leaving out settings that make no difference: an
\* explicit api_key, the sampling of disabled analytics, the body of an error
\* answer that is not sent.
Meaning(c) ==
  [c EXCEPT !.prefixes = MapSeq(@, LAMBDA p : [p EXCEPT !.services = MapSeq(@, LAMBDA s :
     [s EXCEPT !.auth.type = OrDefault(@, "api_key"),
               !.analytics.rate = IF s.analytics.enabled THEN @ ELSE 100,
               !.onError.body = IF s.onError.mode = "fail-open" THEN @ ELSE ""])])]
\* Migrating an accepted model back to a file and compiling that gives what it
\* was, except where the code drops a cost of 1 beside a larger "*" cost or
\* the settings of retries that are switched off (FromInternal: "omitting
\* everything that equals a default").
Kept(s) ==
  /\ \A i \in DOMAIN s.tiers : LET c == s.tiers[i].costs
                              IN  c["*"] > 1 => \A m \in CostMethods : c[m] > 1
  /\ s.retries = 0 => s.policy = ""
MigrationKeepsMeaning ==
  EachOf(active.prefixes, LAMBDA p : EachOf(p.services, Kept))
    => /\ validate(FromInternal(active))
       /\ Meaning(Compile(FromInternal(active))) = Meaning(active)

\* Whatever is active, a caller that names no tier has one, it is defined, and
\* every request it makes costs something (validateAuth, defaultTier).
EveryCallerLimited ==
  EachOf(active.prefixes, LAMBDA p : EachOf(p.services, LAMBDA s :
    /\ \A i \in DOMAIN s.tiers : s.tiers[i].quota > 0 /\ \A m \in CostMethods : s.tiers[i].costs[m] > 0
    /\ s.auth.type = "none" \/ (s.auth.type = "jwt" /\ s.auth.jwt[1].claim = "")
         => \E i \in DOMAIN s.tiers : s.tiers[i].id = defaultTier(s)))

=============================================================================
