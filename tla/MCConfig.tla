------------------------------ MODULE MCConfig ------------------------------
(***************************************************************************)
(* Files for GateConfig: a plain service, and one file for each setting    *)
(* that is compiled, converted or validated on its own.                    *)
(***************************************************************************)
EXTENDS GateConfig

URL(h, p) == [ok |-> TRUE, host |-> h, path |-> p]
BadURL == [ok |-> FALSE, host |-> "", path |-> ""]
Tier(n) == [algo |-> "", requests |-> n, rate |-> 0, burst |-> 0, cost |-> <<>>]
Bucket == [algo |-> "token_bucket", requests |-> 0, rate |-> 1, burst |-> 2, cost |-> <<>>]
L0 == [window |-> 60, lease |-> 0, algo |-> "", tiers |-> [gold |-> Tier(2)], default |-> "",
       fallback |-> <<>>, mode |-> "", leasing |-> <<>>, org |-> <<>>, also |-> <<>>, global |-> <<>>,
       cost |-> <<>>]
S0 == [name |-> "a", group |-> "v1", copied |-> "", upstream |-> <<URL("x", "")>>, upstreams |-> <<>>,
       breaker |-> <<>>, auth |-> <<>>, strip |-> <<>>, headers |-> <<>>, limits |-> L0, cache |-> <<>>,
       cors |-> <<>>, analytics |-> <<>>, retries |-> <<>>, onError |-> <<>>]
R0 == [lowWater |-> 0, events |-> 0, maxEvents |-> 0, other |-> 0]
F0(services) == [version |-> 2, runtime |-> R0, descriptors |-> <<>>, services |-> services]

Cached == [S0 EXCEPT !.cache = <<[ttl |-> 30, key |-> ""]>>]
TwoTiers == [gold |-> Tier(2), free |-> Tier(1)]
Limit(algo, n) == [algo |-> algo, requests |-> n, rate |-> 0, burst |-> 0, window |-> 0]
Also(n, per, algo) == Limit(algo, 3) @@ [name |-> n, per |-> per, mode |-> "shadow"]
Entry(k, l, es) == [key |-> k, value |-> "", mode |-> "", limit |-> l, entries |-> es]

LimitSettings ==
  {[L0 EXCEPT !.tiers = [gold |-> [Tier(2) EXCEPT !.cost = c]]] :
     c \in {[GET |-> 2], [POST |-> 2, GET |-> 3], [GET |-> 0], [TRACE |-> 1]}
           \cup {("*" :> 3), ("*" :> 3 @@ "GET" :> 2)}}
  \cup {[L0 EXCEPT !.tiers = [gold |-> Bucket]], [L0 EXCEPT !.algo = "token_bucket", !.tiers = [gold |-> Bucket]],
        [L0 EXCEPT !.algo = "fixed_window"], [L0 EXCEPT !.algo = "leaky"], [L0 EXCEPT !.tiers = <<>>],
        [L0 EXCEPT !.algo = "sliding_window", !.global = <<[eu |-> 50, us |-> 50]>>],
        [L0 EXCEPT !.tiers = TwoTiers], [L0 EXCEPT !.tiers = TwoTiers, !.default = "free"],
        [L0 EXCEPT !.default = "free"], [L0 EXCEPT !.fallback = <<1>>], [L0 EXCEPT !.fallback = <<0>>],
        [L0 EXCEPT !.mode = "shadow"], [L0 EXCEPT !.window = 0], [L0 EXCEPT !.lease = 5],
        [L0 EXCEPT !.leasing = <<[mode |-> "fixed", min |-> 1, max |-> 0]>>],
        [L0 EXCEPT !.leasing = <<[mode |-> "fixed", min |-> 2, max |-> 1]>>],
        [L0 EXCEPT !.org = <<[requests |-> 5, window |-> 0]>>],
        [L0 EXCEPT !.also = <<Also("ip", "client_ip", ""), Also("all", "", "sliding_window")>>],
        [L0 EXCEPT !.also = <<Also("gold", "key", "")>>],
        [L0 EXCEPT !.global = <<[eu |-> 60, us |-> 30]>>], [L0 EXCEPT !.global = <<[eu |-> 60, us |-> 50]>>],
        [L0 EXCEPT !.global = <<[eu |-> 60]>>, !.org = <<[requests |-> 5, window |-> 0]>>],
        [L0 EXCEPT !.cost = <<[header |-> "X-Cost", missing |-> "refund", estimate |-> 2, debt |-> 0]>>]}
Auths == {[type |-> "api_key", jwt |-> <<>>], [type |-> "none", jwt |-> <<>>]}
         \cup {[type |-> "jwt", jwt |-> <<[url |-> u, claim |-> c]>>] : u \in {URL("k", ""), BadURL}, c \in {"", "plan"}}
TwoReplicas == <<URL("x", ""), URL("y", "")>>
ServiceSettings ==
  {[S0 EXCEPT !.limits = l] : l \in LimitSettings}
  \cup {[S0 EXCEPT !.auth = <<a>>, !.limits.tiers = t] : a \in Auths, t \in {[gold |-> Tier(2)], TwoTiers}}
  \cup {[S0 EXCEPT !.upstream = <<>>, !.upstreams = u, !.breaker = b] :
          u \in {<<URL("x", "")>>, TwoReplicas, <<URL("x", ""), URL("y", "p")>>},
          b \in {<<>>, <<DefaultBreaker>>, <<[failures |-> 1, cooldown |-> 10]>>}}
  \cup {[S0 EXCEPT !.breaker = <<DefaultBreaker>>], [S0 EXCEPT !.upstream = <<BadURL>>],
        [S0 EXCEPT !.cors = <<[origins |-> {"o"}, methods |-> {"GET"}, maxAge |-> 300]>>],
        [S0 EXCEPT !.cors = <<[origins |-> {"o"}, methods |-> {}, maxAge |-> 10]>>],
        [S0 EXCEPT !.analytics = <<[enabled |-> <<FALSE>>, rate |-> <<50>>]>>],
        [S0 EXCEPT !.analytics = <<[enabled |-> <<>>, rate |-> <<50>>]>>],
        [S0 EXCEPT !.retries = <<[attempts |-> 3, policy |-> "p"]>>],
        [S0 EXCEPT !.retries = <<[attempts |-> 1, policy |-> ""]>>],
        [S0 EXCEPT !.onError = <<[mode |-> "fail-open", body |-> "b"]>>],
        [S0 EXCEPT !.onError = <<[mode |-> "fail-closed", body |-> "b"]>>]}
\* Changes to a service with a cache, a second service and a second group.
CachedSettings ==
  {Cached, [Cached EXCEPT !.upstream = <<URL("y", "")>>], [Cached EXCEPT !.strip = <<FALSE>>],
   [Cached EXCEPT !.headers = <<{"h"}>>, !.cache = <<[ttl |-> 30, key |-> "{path}"]>>],
   [Cached EXCEPT !.limits.tiers = [gold |-> Tier(1)]]}
Second == [Cached EXCEPT !.name = "ab"]
RolloutFiles ==
  {F0(<<s>>) : s \in CachedSettings}
  \cup {F0(<<Cached, Second>>), F0(<<Second>>), F0(<<[Cached EXCEPT !.group = "v2"]>>),
        F0(<<Cached, [Second EXCEPT !.limits.lease = 1]>>)}
SettingFiles ==
  {F0(<<s>>) : s \in ServiceSettings}
  \cup {[F0(<<S0>>) EXCEPT !.runtime = r] :
          r \in {[R0 EXCEPT !.lowWater = 30, !.other = 2], [R0 EXCEPT !.maxEvents = 50],
                 [R0 EXCEPT !.events = 40, !.maxEvents = 50], [R0 EXCEPT !.lowWater = 101]}}
  \cup {[F0(<<S0>>) EXCEPT !.descriptors = <<[domain |-> "d", entries |-> es]>>] :
          es \in {<<>>, <<Entry("ip", <<>>, <<>>)>>,
                  <<Entry("ip", <<[Limit("", 2) EXCEPT !.window = 1]>>, <<>>)>>,
                  <<Entry("ip", <<>>, <<[Entry("path", <<[Bucket EXCEPT !.rate = 2] @@ [window |-> 0]>>, <<>>)
                                          EXCEPT !.mode = "shadow"]>>)>>}}
  \cup {F0(<<>>), [F0(<<S0>>) EXCEPT !.version = 1]}
AllFiles == RolloutFiles \cup SettingFiles
LongerNames == {<<"ab", "a">>}

\* One reload at a time from here on, for the files with a cache.
ConfigScope == ~mixed /\ (file \in SettingFiles => asked = 0)
=============================================================================
