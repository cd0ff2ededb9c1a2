----------------------------- MODULE EdgeRequest -----------------------------
(***************************************************************************)
(* One service of an edge (packages/edge) and the requests it is handling: *)
(* routing, CORS and authentication, the response cache, the concurrency   *)
(* cap, the reservation of every limit with its fallback, rollback and     *)
(* settlement (packages/limiter), the replica pool with its breaker, and   *)
(* the proxy with its retries and failure policy.                          *)
(*                                                                         *)
(* A request is one goroutine; every access to shared memory is a step.    *)
(* Quota windows do not end here (QuotaLease and Ledger have them); the    *)
(* tier cache is in ControlPlane.                                          *)
(***************************************************************************)
EXTENDS Integers, Sequences, FiniteSets

CONSTANTS
  Requests,   \* requests, each made once
  Replicas,   \* the upstream's replicas
  Services    \* settings the service may have

NoTarget == "none"

\* Costs and limits are whole tokens, and a caller has a quota.
ASSUME ServiceSettings ==
  /\ IsFiniteSet(Requests) /\ NoTarget \notin Replicas
  /\ \A s \in Services :
       /\ s.auth \in {"jwt", "none", "api_key"}
       /\ s.concurrent \in Nat /\ s.retries \in Nat /\ s.estimate \in Nat
       /\ s.limits \in Seq([quota : Nat, shadow : BOOLEAN]) /\ s.limits # <<>>
       /\ \A m \in {"GET", "POST", "OPTIONS"} : s.costs[m] \in Nat /\ s.safety.costs[m] \in Nat

VARIABLES
  svc,      \* the service's settings
  req,      \* req[r]: request r
  slots,    \* slots[c]: the concurrency counters ever made for this caller
  table,    \* the number of the one in the table, 0 when there is none
  sweep,    \* the counter a sweep has just seen idle, 0 when none
  used,     \* used[i]: charged to limit i at the primary limiter
  safe,     \* safe[i]: charged to it at the edge's own limiter
  owed,     \* owed[i]: what the requests that finished should have been charged
  up,       \* up[t]: replica t
  cache,    \* where the cached response came from
  raced     \* a sweep dropped a counter that was in use

concurrency == <<slots, table, sweep, raced>>
accounts == <<used, safe, owed>>
edgeVars == <<svc, req, concurrency, accounts, up, cache>>

Fresh ==
  [pc |-> "new", method |-> "GET", asked |-> 0, slot |-> 0, i |-> 1, charged |-> <<>>, todo |-> {}, after |-> "new",
   large |-> FALSE, gone |-> FALSE, sent |-> 0, target |-> NoTarget, status |-> 0, from |-> "edge", failed |-> FALSE,
   actual |-> -1, aborted |-> FALSE]

EdgeInit ==
  /\ svc \in Services
  /\ req = [r \in Requests |-> Fresh]
  /\ slots = <<>> /\ table = 0 /\ sweep = 0 /\ raced = FALSE
  /\ used = [i \in DOMAIN svc.limits |-> 0] /\ safe = used /\ owed = used
  /\ up = [t \in Replicas |-> [inflight |-> 0, failures |-> 0, open |-> FALSE]]
  /\ cache = "none"

Step(r, from, q) == req[r].pc = from /\ req' = [req EXCEPT ![r] = q]
To(r, pc) == [req[r] EXCEPT !.pc = pc]
\* rateLimit has answered; it and the cache around it unwind from here.
Answer(r, code) == [req[r] EXCEPT !.status = code, !.pc = "unwind"]

----------------------------------------------------------------------------
\* route, cors and authenticate: 0 lets the request through.
route(method, found) ==
  IF ~found THEN 404
  ELSE IF method \notin svc.methods /\ ~(method = "OPTIONS" /\ svc.cors) THEN 405 ELSE 0
cors(method) == IF svc.cors /\ method = "OPTIONS" THEN 204 ELSE 0
\* When the tier cannot be looked up the service may have a tier to fall back to.
resolveTier(lookup) == IF lookup = "failed" /\ svc.default THEN "known" ELSE lookup
\* A key that is missing, malformed, never issued or revoked.
apiKey(lookup) ==
  CASE resolveTier(lookup) = "unknown" -> 401
    [] resolveTier(lookup) = "failed" -> 503
    [] resolveTier(lookup) \in {"known", "foreign"} -> 0
\* A token that is missing, or that does not verify for whatever reason.
bearerToken(lookup) == IF lookup \in {"unknown", "failed"} THEN 401 ELSE 0
Identify(lookup) ==
  CASE svc.auth = "jwt" -> bearerToken(lookup)
    [] svc.auth = "none" -> 0
    [] svc.auth = "api_key" -> apiKey(lookup)
\* "foreign" is a tier this service does not have.
authenticate(lookup) ==
  IF Identify(lookup) # 0 THEN Identify(lookup) ELSE IF lookup = "foreign" THEN 403 ELSE 0
FirstRefusal(a, b, c) == IF a # 0 THEN a ELSE IF b # 0 THEN b ELSE c
Arrive(r, method, found, lookup, asked) ==
  LET code == FirstRefusal(route(method, found), cors(method), authenticate(lookup))
  IN  /\ asked > 0 => svc.estimateHeader
      /\ Step(r, "new", [To(r, IF code = 0 THEN "cache" ELSE "done") EXCEPT
                          !.method = method, !.asked = asked, !.status = code])
      /\ UNCHANGED <<svc, concurrency, accounts, up, cache>>

\* serveFromCache: a hit is answered before anything is charged.
Caches(r) == svc.cache /\ req[r].method = "GET"
serveFromCache(r) ==
  /\ Step(r, "cache",
          IF Caches(r) /\ cache # "none" THEN [To(r, "done") EXCEPT !.status = 200]
          ELSE To(r, IF svc.concurrent > 0 THEN "slot" ELSE "reserve"))
  /\ UNCHANGED <<svc, concurrency, accounts, up, cache>>

----------------------------------------------------------------------------
\* Acquire: find or make the caller's counter; then add to it; then, when it
\* was full, take that back.
get(r) ==
  /\ Step(r, "slot", [To(r, "acquire") EXCEPT !.slot = IF table = 0 THEN Len(slots) + 1 ELSE table])
  /\ table' = IF table = 0 THEN Len(slots) + 1 ELSE table
  /\ slots' = IF table = 0 THEN Append(slots, 0) ELSE slots
  /\ UNCHANGED <<svc, sweep, raced, accounts, up, cache>>
Acquire(r) ==
  LET c == req[r].slot
      full == slots[c] + 1 > svc.concurrent
  IN  /\ Step(r, "acquire", To(r, IF full THEN "full" ELSE "reserve"))
      /\ slots' = [slots EXCEPT ![c] = @ + 1]
      /\ UNCHANGED <<svc, table, sweep, raced, accounts, up, cache>>
AcquireFull(r) ==
  /\ Step(r, "full", [Answer(r, 429) EXCEPT !.slot = 0])
  /\ slots' = [slots EXCEPT ![req[r].slot] = @ - 1]
  /\ UNCHANGED <<svc, table, sweep, raced, accounts, up, cache>>
\* The sweep reads a counter, and then removes what it saw idle.
SweepSees ==
  /\ sweep = 0 /\ table # 0 /\ slots[table] = 0
  /\ sweep' = table
  /\ UNCHANGED <<svc, req, slots, table, raced, accounts, up, cache>>
Holds(r, c) == req[r].slot = c /\ req[r].pc # "done"
SweepEvicts ==
  /\ sweep # 0
  /\ sweep' = 0 /\ table' = 0
  /\ raced' = (raced \/ \E r \in Requests : Holds(r, sweep))
  /\ UNCHANGED <<svc, req, slots, accounts, up, cache>>

----------------------------------------------------------------------------
\* Reserve asks one check after the other. charged[i] says where check i was
\* charged; the amount remembered for it is always the one asked for.
methodCost(r, costs) == costs[req[r].method]
\* The client's own estimate, the configured one, or the method's cost.
estimate(r) ==
  IF svc.cost = "none" THEN methodCost(r, svc.costs)
  ELSE IF req[r].asked > 0 THEN req[r].asked
  ELSE IF svc.estimate > 0 THEN svc.estimate ELSE methodCost(r, svc.costs)
\* The caller's quota, then the service's other limits, all at that cost.
checks(r) == [i \in DOMAIN svc.limits |-> [limit |-> svc.limits[i].quota, cost |-> estimate(r), shadow |-> svc.limits[i].shadow]]
Admit(r, at) ==
  LET q == [req[r] EXCEPT !.charged = Append(@, [at |-> at, cost |-> checks(r)[req[r].i].cost]), !.i = @ + 1]
  IN  [q EXCEPT !.pc = IF q.i > Len(svc.limits) THEN "pick" ELSE "reserve"]
\* One Adjust for each check that admitted the request, from the cost it reserved to `cost'.
Adjustments(r, cost) ==
  {[i |-> j, at |-> req[r].charged[j].at, delta |-> cost - req[r].charged[j].cost] :
     j \in {j \in DOMAIN req[r].charged : req[r].charged[j].at # "none"}}
rollbackFromSecond(r) == {a \in Adjustments(r, 0) : \E b \in Adjustments(r, 0) : b.i < a.i}
rollback(r) == Adjustments(r, 0)
\* Check i denied the request or failed: a shadow check is passed over, any
\* other refunds what the earlier ones charged.
Refuse(r, code) ==
  IF checks(r)[req[r].i].shadow THEN Admit(r, "none")
  ELSE [req[r] EXCEPT !.todo = rollback(r), !.status = code, !.pc = "adjust", !.after = "unwind", !.charged = <<>>]
\* Allow at the primary limiter.
AllowPrimary(r) ==
  LET i == req[r].i
      check == checks(r)[i]
      ok == used[i] + check.cost <= check.limit
  IN  /\ Step(r, "reserve", IF ok THEN Admit(r, "primary") ELSE Refuse(r, 429))
      /\ used' = IF ok THEN [used EXCEPT ![i] = @ + check.cost] ELSE used
      /\ UNCHANGED <<svc, concurrency, safe, owed, up, cache>>
\* It rejects the key; or it is unavailable, and Fallback has a rule or not.
AllowFails(r, rejected) ==
  /\ Step(r, "reserve", IF rejected THEN Refuse(r, 403)
                        ELSE IF svc.safety.on THEN To(r, "safety") ELSE Refuse(r, 503))
  /\ UNCHANGED <<svc, concurrency, accounts, up, cache>>
\* safetyRule: the caller's own limit becomes the safety tier's, at its cost.
safetyRule(r, i) ==
  IF i = 1 THEN [checks(r)[i] EXCEPT !.limit = svc.safety.quota, !.cost = methodCost(r, svc.safety.costs)]
  ELSE checks(r)[i]
\* Local.Allow adds, and takes it back when that is above the limit.
AllowLocal(r) ==
  LET i == req[r].i
      rule == safetyRule(r, i)
  IN  /\ Step(r, "safety", IF safe[i] + rule.cost > rule.limit THEN To(r, "undo") ELSE Admit(r, "safety"))
      /\ safe' = [safe EXCEPT ![i] = @ + rule.cost]
      /\ UNCHANGED <<svc, concurrency, used, owed, up, cache>>
AllowLocalUndo(r) ==
  /\ Step(r, "undo", Refuse(r, 429))
  /\ safe' = [safe EXCEPT ![req[r].i] = @ - safetyRule(r, req[r].i).cost]
  /\ UNCHANGED <<svc, concurrency, used, owed, up, cache>>
\* One Adjust of a rollback or of a settlement, in the order of the checks.
Adjust(r) ==
  LET a == CHOOSE a \in req[r].todo : \A b \in req[r].todo : a.i <= b.i
      q == [req[r] EXCEPT !.todo = @ \ {a}]
  IN  /\ IF req[r].todo = {}
         THEN Step(r, "adjust", To(r, req[r].after)) /\ UNCHANGED <<used, safe>>
         ELSE /\ Step(r, "adjust", q)
              /\ used' = IF a.at = "primary" THEN [used EXCEPT ![a.i] = @ + a.delta] ELSE used
              /\ safe' = IF a.at = "safety" THEN [safe EXCEPT ![a.i] = @ + a.delta] ELSE safe
      /\ UNCHANGED <<svc, concurrency, owed, up, cache>>

----------------------------------------------------------------------------
\* pick: a replica that is not ejected, another than avoid when there is one.
pick(avoid) ==
  LET healthy == {t \in Replicas : ~up[t].open}
      others == IF Cardinality(Replicas) > 1 THEN healthy \ {avoid} ELSE healthy
  IN  IF others = {} THEN healthy \cap {avoid}
      ELSE IF svc.least THEN {t \in others : \A u \in others : up[t].inflight <= up[u].inflight}
      ELSE others
\* report: the breaker opens at so many failures without a success between.
report(u, ok) ==
  IF svc.breaker = 0 THEN u
  ELSE IF ok THEN [u EXCEPT !.failures = 0]
  ELSE [u EXCEPT !.failures = @ + 1, !.open = @ \/ u.failures + 1 >= svc.breaker]
\* The cooldown of an ejected replica is over; its failure count stands.
Cooldown(t) ==
  /\ up[t].open
  /\ up' = [up EXCEPT ![t].open = FALSE]
  /\ UNCHANGED <<svc, req, concurrency, accounts, cache>>

Idempotent == {"GET", "OPTIONS", "PUT"}
retryable(method) == method \in Idempotent \/ svc.nonIdempotent
AttemptsAnyMethod(r) == 1 + svc.retries
Attempts(r) == 1 + IF retryable(req[r].method) THEN svc.retries ELSE 0
\* proxyError: the service's policy for an upstream that failed.
proxyError(r, why) ==
  [req[r] EXCEPT
    !.failed = TRUE, !.target = NoTarget, !.pc = "settle",
    !.status = CASE why = "large" -> 413
                 [] why = "gone" -> 0
                 [] why \notin {"large", "gone"} /\ svc.failOpen -> 200
                 [] why = "timeout" /\ ~svc.failOpen -> 504
                 [] why = "circuit" /\ ~svc.failOpen -> 503
                 [] why = "error" /\ ~svc.failOpen -> 502]
Picked(r, q) ==
  LET to == pick(req[r].target)
  IN  IF to = {} THEN Step(r, req[r].pc, proxyError(r, IF req[r].gone THEN "gone" ELSE "circuit"))
      ELSE \E t \in to : Step(r, req[r].pc, [q EXCEPT !.target = t])
\* forward: choose a replica; a body that may have to be sent again is read
\* first, and refused here when it is too large.
forward(r, large) ==
  /\ req[r].pc = "pick"
  /\ large => req[r].method \in {"POST", "PUT"}
  /\ Picked(r, IF large /\ Attempts(r) > 1
               THEN [req[r] EXCEPT !.status = 413, !.pc = "settle"]
               ELSE [req[r] EXCEPT !.large = large, !.pc = "send"])
  /\ UNCHANGED <<svc, concurrency, accounts, up, cache>>
\* RoundTrip: an attempt begins; it ends; after a backoff there may be another.
StartAttempt(r) ==
  /\ Step(r, "send", [To(r, "try") EXCEPT !.sent = @ + 1])
  /\ up' = [up EXCEPT ![req[r].target].inflight = @ + 1]
  /\ UNCHANGED <<svc, concurrency, accounts, cache>>
retryStatus(code) == code = 503
Released(u) == [u EXCEPT !.inflight = @ - 1]
\* A response that stands (101 gives up the replica at once): code is its status.
EndAttempt(r, code) ==
  LET t == req[r].target
      u == report(up[t], code < 500)
      q == [req[r] EXCEPT !.status = code, !.from = "upstream", !.pc = "body"]
  IN  /\ ~req[r].large /\ ~req[r].gone /\ ~retryStatus(code)
      /\ Step(r, "try", IF code = 101 THEN [q EXCEPT !.target = NoTarget] ELSE q)
      /\ up' = [up EXCEPT ![t] = IF code = 101 THEN Released(u) ELSE u]
      /\ UNCHANGED <<svc, concurrency, accounts, cache>>
\* An error, or a status the policy retries (also an "error" to proxyError).
Failure(r, why) == req[r].large = (why = "large") /\ (req[r].gone => why = "gone")
FailAttemptLeaks(r, why) ==
  LET again == req[r].sent < Attempts(r)
  IN  /\ Failure(r, why)
      /\ Step(r, "try", IF again THEN [To(r, "backoff") EXCEPT !.gone = why = "gone"] ELSE proxyError(r, why))
      /\ up' = [up EXCEPT ![req[r].target] = IF again THEN report(@, FALSE) ELSE Released(report(@, FALSE))]
      /\ UNCHANGED <<svc, concurrency, accounts, cache>>
FailAttempt(r, why) ==
  /\ Failure(r, why)
  /\ Step(r, "try", IF req[r].sent >= Attempts(r) THEN proxyError(r, why)
                    ELSE [To(r, "backoff") EXCEPT !.gone = why = "gone"])
  /\ up' = [up EXCEPT ![req[r].target] = Released(report(@, FALSE))]
  /\ UNCHANGED <<svc, concurrency, accounts, cache>>
\* sleepCtx: the request's context may end it.
Backoff(r, end) ==
  /\ req[r].pc = "backoff" /\ (req[r].gone => end # "timeout")
  /\ IF end = "slept" THEN Picked(r, To(r, "send")) ELSE Step(r, "backoff", proxyError(r, end))
  /\ UNCHANGED <<svc, concurrency, accounts, up, cache>>
\* The body has been copied and closed, and the upstream reported a cost or
\* not; or the copy broke off, which unwinds the handlers by a panic.
CloseBody(r, actual, broke) ==
  LET t == req[r].target
  IN  /\ (broke \/ svc.cost = "none") => actual = -1
      /\ Step(r, "body", [To(r, IF broke THEN "unwind" ELSE "settle") EXCEPT
                           !.actual = actual, !.aborted = broke, !.target = NoTarget])
      /\ up' = IF t = NoTarget THEN up ELSE [up EXCEPT ![t] = Released(@)]
      /\ UNCHANGED <<svc, concurrency, accounts, cache>>

----------------------------------------------------------------------------
\* Settle(actual), once, on every limit that admitted the request.
Settle(r, actual) == Adjustments(r, actual)
Settles(r) ==
  CASE svc.cost = "none" -> {}
    [] svc.cost # "none" /\ req[r].actual >= 0 -> Settle(r, req[r].actual)
    [] svc.cost # "none" /\ req[r].actual < 0 ->
         IF svc.cost = "refund" \/ req[r].failed THEN Settle(r, 0) ELSE {}
SettleCost(r) ==
  /\ Step(r, "settle", [To(r, "adjust") EXCEPT !.todo = Settles(r), !.after = "unwind"])
  /\ UNCHANGED <<svc, concurrency, accounts, up, cache>>

\* What the documentation has a request pay on a limit that admitted it: what
\* it reported, nothing when the upstream failed, else what was charged.
Owes(r, i) ==
  LET q == req[r]
      taken == IF q.charged[i].at = "safety" THEN safetyRule(r, i).cost ELSE checks(r)[i].cost
  IN  IF i > Len(q.charged) THEN 0
      ELSE IF q.charged[i].at = "none" THEN 0
      ELSE IF svc.cost = "none" \/ q.aborted THEN taken
      ELSE IF q.actual >= 0 THEN q.actual
      ELSE IF svc.cost = "refund" \/ q.failed THEN 0 ELSE taken
\* The deferred release, on every way out of rateLimit.
Unwound(r) == [To(r, IF req[r].aborted \/ ~Caches(r) THEN "done" ELSE "store") EXCEPT !.slot = 0]
ReleaseNotDeferred(r) ==
  /\ Step(r, "unwind", Unwound(r))
  /\ slots' = IF req[r].slot = 0 \/ req[r].aborted THEN slots ELSE [slots EXCEPT ![req[r].slot] = @ - 1]
  /\ owed' = [i \in DOMAIN owed |-> owed[i] + Owes(r, i)]
  /\ UNCHANGED <<svc, table, sweep, raced, used, safe, up, cache>>
Release(r) ==
  /\ Step(r, "unwind", Unwound(r))
  /\ slots' = IF req[r].slot = 0 THEN slots ELSE [slots EXCEPT ![req[r].slot] = @ - 1]
  /\ owed' = [i \in DOMAIN owed |-> owed[i] + Owes(r, i)]
  /\ UNCHANGED <<svc, table, sweep, raced, used, safe, up, cache>>
\* serveFromCache keeps a response that may be cached and is not too long.
cacheableStatus == {200, 404}
cacheableAny(r) == req[r].status \in cacheableStatus
cacheable(r) == req[r].status \in cacheableStatus /\ ~req[r].failed
StoreResponse(r, overflow) ==
  /\ Step(r, "store", To(r, "done"))
  /\ cache' = IF cacheable(r) /\ ~overflow THEN req[r].from ELSE cache
  /\ UNCHANGED <<svc, concurrency, accounts, up>>

----------------------------------------------------------------------------
EdgeNext ==
  \/ \E r \in Requests :
       \/ \E method \in {"GET", "POST", "OPTIONS"}, found \in BOOLEAN, lookup \in {"known", "unknown", "foreign", "failed"}, asked \in {0, 2} :
            Arrive(r, method, found, lookup, asked)
       \/ serveFromCache(r)
       \/ get(r)
       \/ Acquire(r)
       \/ AcquireFull(r)
       \/ AllowPrimary(r)
       \/ \E rejected \in BOOLEAN : AllowFails(r, rejected)
       \/ AllowLocal(r)
       \/ AllowLocalUndo(r)
       \/ Adjust(r)
       \/ \E large \in BOOLEAN : forward(r, large)
       \/ StartAttempt(r)
       \/ \E code \in {101, 200, 500} : EndAttempt(r, code)
       \/ \E why \in {"large", "gone", "timeout", "error"} : FailAttempt(r, why)
       \/ \E end \in {"slept", "gone", "timeout"} : Backoff(r, end)
       \/ \E actual \in {-1, 0, 2}, broke \in BOOLEAN : CloseBody(r, actual, broke)
       \/ SettleCost(r)
       \/ Release(r)
       \/ \E overflow \in BOOLEAN : StoreResponse(r, overflow)
  \/ SweepSees
  \/ SweepEvicts
  \/ \E t \in Replicas : Cooldown(t)

EdgeSpec == EdgeInit /\ [][EdgeNext]_edgeVars

----------------------------------------------------------------------------
Holders(c) == {r \in Requests : req[r].slot = c /\ req[r].pc # "acquire"}
Running == {r \in Requests : req[r].slot # 0 /\ req[r].pc \notin {"acquire", "full"}}
(* A slot is given back on every way out, the panic of a broken body       *)
(* included: each counter is exactly the requests that hold it (Acquire    *)
(* and its deferred release, concurrency.go:20-27, ratelimit.go:28-37).    *)
(* Unless a sweep dropped a counter in use, no more than the cap run.      *)
SlotsBalance ==
  /\ \A c \in DOMAIN slots : slots[c] = Cardinality(Holders(c))
  /\ ~raced => Cardinality(Running) <= svc.concurrent \/ svc.concurrent = 0

(* When no request is in progress, every limit has been charged what its   *)
(* requests owe, at the primary or at the edge's own limiter: a denial, a  *)
(* rejection or an outage part way through the checks costs nothing, and a *)
(* reported cost replaces the estimate once (Reserve, rollback, Settle,    *)
(* Fallback, reserve.go:40-141).                                           *)
AccountsBalance ==
  (\A r \in Requests : req[r].pc \in {"new", "done"}) =>
    \A i \in DOMAIN used : used[i] + safe[i] = owed[i]

(* The cache holds only what an upstream answered: not the body a service  *)
(* answers with in place of a failed upstream, whatever its status         *)
(* (serveFromCache, cache.go:49-56; proxyError, proxy.go:141-166).         *)
OnlyUpstreamCached == cache \in {"none", "upstream"}

(* A replica counts as busy exactly while an attempt on it is in progress  *)
(* or its body is open, whatever retries, cancellations, upgrades and      *)
(* broken bodies do: least_requests never starves a replica for a request  *)
(* that is over (RoundTrip and onClose, proxy.go:217-305).                 *)
ReplicasBalance ==
  \A t \in Replicas :
    up[t].inflight = Cardinality({r \in Requests : req[r].pc \in {"try", "body"} /\ req[r].target = t})

(* A request whose method is not idempotent reaches an upstream at most    *)
(* once unless the service asked for retries of it (retryable,             *)
(* proxy.go:200-203, 282-288).                                             *)
SentOnce ==
  \A r \in Requests : req[r].method = "POST" /\ ~svc.nonIdempotent => req[r].sent <= 1
=============================================================================
