------------------------------ MODULE MCLedger ------------------------------
(* Instances of Ledger: two edges, each with its own key,                   *)
(* under every algorithm, alone and inside an organisation's budget.        *)
EXTENDS Ledger

CONSTANTS e1, e2, k1, k2

OwnKeys == [e \in Edges |-> IF e = e2 THEN k2 ELSE k1]
Windowed == {[algo |-> "fixed", limit |-> 2, win |-> 2, T |-> 0, ttl |-> 0],
             [algo |-> "sliding", limit |-> 3, win |-> 2, T |-> 0, ttl |-> 0]}
Buckets == {[algo |-> "bucket", limit |-> 2, win |-> 0, T |-> 1, ttl |-> 1]}
Budgets == {[limit |-> 2, win |-> 1], [limit |-> 3, win |-> 3]}
AllSpecs == Windowed \cup Buckets
WithAndWithout == Budgets \cup {NoOrg}

\* Bounds on what a behaviour explores: keys meet only in an organisation, so
\* alone one edge asks, and makes the most returns; in an organisation the
\* keys have fixed windows, one of the edges returns tokens, once, and a budget
\* shorter than the keys' windows is followed into their second window only.
LedgerScope ==
  IF org = NoOrg
  THEN \A e \in Edges \ {e1} : call[e] = NoCall
  ELSE /\ spec.algo = "fixed" /\ (org.win < spec.win => now <= spec.win)
       /\ \A e \in Edges : seq[e] <= (IF e = e1 THEN 1 ELSE 0)
=============================================================================
