------------------------------- MODULE MCEdge -------------------------------
(***************************************************************************)
(* Two requests of one caller on a service with two replicas and two       *)
(* limits, under the settings that meet each other.                        *)
(***************************************************************************)
EXTENDS EdgeRequest

Costs(n) == [method \in {"GET", "POST", "OPTIONS"} |-> n]
Base ==
  [methods |-> {"GET", "POST"}, cors |-> TRUE, auth |-> "api_key", default |-> FALSE, cache |-> FALSE, concurrent |-> 0,
   limits |-> <<[quota |-> 2, shadow |-> FALSE]>>, costs |-> Costs(1),
   cost |-> "none", estimate |-> 0, estimateHeader |-> FALSE,
   safety |-> [on |-> FALSE, costs |-> Costs(1), quota |-> 1],
   retries |-> 0, nonIdempotent |-> FALSE, failOpen |-> FALSE, breaker |-> 0, least |-> FALSE]

TwoLimits == <<[quota |-> 2, shadow |-> FALSE], [quota |-> 1, shadow |-> FALSE]>>
ShadowFirst == <<[quota |-> 1, shadow |-> TRUE], [quota |-> 2, shadow |-> FALSE]>>
Safety(cost) == [on |-> TRUE, costs |-> Costs(cost), quota |-> 1]

CheckedServices == {
  [Base EXCEPT !.cache = TRUE, !.failOpen = TRUE, !.default = TRUE],
  [Base EXCEPT !.concurrent = 1, !.cors = FALSE],
  [Base EXCEPT !.limits = TwoLimits, !.safety = Safety(1)],
  [Base EXCEPT !.limits = ShadowFirst, !.cost = "estimate", !.estimateHeader = TRUE, !.auth = "jwt"],
  [Base EXCEPT !.cost = "refund", !.retries = 1],
  [Base EXCEPT !.retries = 1, !.breaker = 1, !.auth = "none"],
  [Base EXCEPT !.retries = 1, !.nonIdempotent = TRUE, !.breaker = 2, !.least = TRUE]}
=============================================================================
