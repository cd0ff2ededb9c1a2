------------------------------- MODULE Quota -------------------------------
(***************************************************************************)
(* What a rate limiter promises (packages/limiter/limiter.go), as its      *)
(* exact central implementation keeps it (redis_counter.go): one counter   *)
(* per window, a request admitted only while its cost fits under the       *)
(* limit, and a charge taken back at most once.  The leased limiter        *)
(* (QuotaLease) is shown to implement this.                                *)
(***************************************************************************)
EXTENDS Integers

CONSTANTS
  Limit,    \* cost admitted per window
  Windows,  \* the windows that exist
  Costs     \* costs of requests

VARIABLES
  window,  \* the window the clock is in
  count    \* count[w]: cost admitted in window w and not refunded

quotaVars == <<window, count>>

QuotaInit ==
  /\ window = 0
  /\ count = [w \in Windows |-> 0]

Roll ==
  /\ window' = window + 1
  /\ UNCHANGED count

\* counterLua: a request charges the window it arrived in, which may have
\* ended by the time it is counted.
Admit(w, cost) ==
  /\ w <= window
  /\ count[w] + cost <= Limit
  /\ count' = [count EXCEPT ![w] = @ + cost]
  /\ UNCHANGED window

\* Decision.Adjust with a negative delta: take back a charge that was made.
Refund(w, cost) ==
  /\ count[w] >= cost
  /\ count' = [count EXCEPT ![w] = @ - cost]
  /\ UNCHANGED window

QuotaNext == Roll \/ \E w \in Windows, cost \in Costs : Admit(w, cost) \/ Refund(w, cost)

QuotaSpec == QuotaInit /\ [][QuotaNext]_quotaVars

=============================================================================
