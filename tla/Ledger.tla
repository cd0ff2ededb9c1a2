------------------------------- MODULE Ledger -------------------------------
(***************************************************************************)
(* The ledger with all it can enforce (packages/ledger): fixed and sliding *)
(* windows, token buckets and an organisation's budget around its keys,    *)
(* seen together with the leases edges hold and with what comes back to    *)
(* it: tokens given back by edges and reservations settled by the decision *)
(* service (packages/decide), both retried under a dedupe id.              *)
(*                                                                         *)
(* A script is one step.  Answers may arrive late or be lost; a return may *)
(* be lost, late, or executed any number of times while its sender may     *)
(* still retry it.  Edges read the ledger's clock here: the skew between   *)
(* the two is QuotaLease's subject.                                        *)
(***************************************************************************)
EXTENDS LedgerArith, FiniteSets

CONSTANTS
  Edges,       \* edges, and replicas of the decision service
  Keys,        \* the quotas, all under one spec and one organisation
  KeyOf,       \* KeyOf[e]: the quota edge e spends
  Specs,       \* specs a behaviour may run under
  Orgs,        \* organisation budgets it may run under
  NoOrg,       \* keys without an organisation
  Targets,     \* sizes of lease requests
  Actuals,     \* actual costs reported for a reservation of one token
  RetryFor,    \* how long an edge retries a return
  TokenLife,   \* how long a reservation may be settled (reservationTTL)
  MaxTime,     \* bound: the clock stops here
  MaxReturns   \* bound: returns and reservations of one edge

\* A window has a length, a bucket refills, and limits are whole tokens.
ASSUME LedgerSettings ==
  /\ IsFiniteSet(Edges) /\ KeyOf \in [Edges -> Keys]
  /\ \A s \in Specs :
       /\ s.limit \in Nat \ {0}
       /\ IF s.algo = "bucket" THEN s.T \in Nat \ {0} /\ s.ttl \in Nat ELSE s.win \in Nat \ {0}
  /\ \A o \in Orgs : o # NoOrg => o.limit \in Nat \ {0} /\ o.win \in Nat \ {0}
  /\ Targets \subseteq Nat \ {0} /\ Actuals \subseteq Nat
  /\ RetryFor \in Nat /\ TokenLife \in Nat /\ MaxTime \in Nat /\ MaxReturns \in Nat

VARIABLES
  spec,     \* [algo, limit, win, T, ttl]: T ticks refill a bucket by one token
  org,      \* [limit, win] of the enclosing fixed window, or NoOrg
  now,      \* the ledger's clock
  used,     \* used[<<k, w>>]: the counter of key k in window w
  pused,    \* pused[w]: the organisation's counter
  tat,      \* tat[k]: when the bucket of k would be full
  deduped,  \* deduped[i]: when the record of return i lapses
  call,     \* call[e]: the answer on its way to edge e
  held,     \* held[e]: the tokens edge e holds
  sent,     \* sent[i]: return i
  seq,      \* seq[e]: returns and reservations of edge e
  had,      \* had[<<k, w>>]: tokens spent or in hand, as their holders know
  phad,     \* phad[w]: the same over the organisation's keys
  applied   \* applied[i]: how often return i moved a counter

ledger == <<used, pused, tat, deduped>>
edges == <<call, held, sent, seq>>
history == <<had, phad, applied>>
vars == <<spec, org, now, ledger, edges, history>>

Bucket == spec.algo = "bucket"
Windows == 0 .. MaxTime
Entries == Keys \X Windows
Ids == Edges \X (1 .. MaxReturns)

wid == IF Bucket THEN 0 ELSE WindowOf(now, spec.win)
pwid == IF org = NoOrg THEN 0 ELSE WindowOf(now, org.win)
\* The time after which a quota is whole again.
Period == IF Bucket THEN spec.limit * spec.T ELSE spec.win

NoCall == [granted |-> -1, win |-> 0, pwin |-> 0, exp |-> 0]
Nothing == [n |-> 0, win |-> 0, pwin |-> 0, exp |-> 0]
NoReturn == [win |-> 0, pwin |-> 0, tokens |-> 0, until |-> -1]

Init ==
  /\ spec \in Specs /\ org \in Orgs /\ now = 0
  /\ used = [x \in Entries |-> 0] /\ pused = [w \in Windows |-> 0]
  /\ tat = [k \in Keys |-> 0] /\ deduped = [i \in Ids |-> 0]
  /\ call = [e \in Edges |-> NoCall] /\ held = [e \in Edges |-> Nothing]
  /\ sent = [i \in Ids |-> NoReturn] /\ seq = [e \in Edges |-> 0]
  /\ had = [x \in Entries |-> 0] /\ phad = [w \in Windows |-> 0]
  /\ applied = [i \in Ids |-> 0]

Tick ==
  /\ now < MaxTime
  /\ now' = now + 1
  /\ UNCHANGED <<spec, org, ledger, edges, history>>

----------------------------------------------------------------------------
\* What a sliding window counts of the window before: the part that still
\* overlaps, rounded up.
OverlapDown(n) == (n * (WindowEnd(wid, spec.win) - now)) \div spec.win
Overlap(n) == CeilDiv(n * (WindowEnd(wid, spec.win) - now), spec.win)
Weighted(k) ==
  used[<<k, wid>>] + (IF spec.algo = "sliding" /\ wid > 0 THEN Overlap(used[<<k, wid - 1>>]) ELSE 0)

Tat(k) == MaxOf(tat[k], now)
KeyAvail(k) ==
  IF Bucket THEN (now + spec.limit * spec.T - Tat(k)) \div spec.T
            ELSE spec.limit - Weighted(k)
AvailAlone(k) == KeyAvail(k)
Avail(k) == IF org = NoOrg THEN KeyAvail(k) ELSE MinOf(KeyAvail(k), org.limit - pused[pwid])

Lifetime == IF Bucket THEN spec.ttl ELSE WindowEnd(wid, spec.win) - now
ExpiresIn == IF org = NoOrg THEN Lifetime ELSE MinOf(Lifetime, WindowEnd(pwid, org.win) - now)

\* A lease request of edge e near whose end n edges are active: the key's
\* counter (or arrival time) and the organisation's move together.
Grant(e, target, n) ==
  LET k == KeyOf[e]
      g == IF Avail(k) <= 0 THEN 0 ELSE GrantSize(Avail(k), n, Capped(target, spec.limit))
  IN  /\ call[e] = NoCall
      /\ call' = [call EXCEPT ![e] = [granted |-> g, win |-> wid, pwin |-> pwid,
                                      exp |-> now + ExpiresIn]]
      /\ IF Bucket
         THEN /\ tat' = IF g = 0 THEN tat ELSE [tat EXCEPT ![k] = Tat(k) + g * spec.T]
              /\ UNCHANGED used
         ELSE /\ used' = [used EXCEPT ![<<k, wid>>] = @ + g]
              /\ UNCHANGED tat
      /\ pused' = IF org = NoOrg THEN pused ELSE [pused EXCEPT ![pwid] = @ + g]
      /\ had' = [had EXCEPT ![<<k, wid>>] = @ + g]
      /\ phad' = IF org = NoOrg THEN phad ELSE [phad EXCEPT ![pwid] = @ + g]
      /\ UNCHANGED <<spec, org, now, deduped, held, sent, seq, applied>>

\* The period a return's record must outlast: the key's or the organisation's.
DedupeOnePeriod == MaxOf(1, Period)
DedupeFor == 2 * MaxOf(1, IF org = NoOrg THEN Period ELSE MaxOf(Period, org.win))

\* Return i reaches the ledger: nothing if its record is still there, and
\* otherwise the bucket's arrival time or the counters of windows that are
\* still running move by its tokens (debt is negative).
Execute(i) ==
  LET k == KeyOf[i[1]]
      r == sent[i]
      new == deduped[i] <= now
      mine == new /\ ~Bucket /\ wid = r.win
      orgs == new /\ org # NoOrg /\ pwid = r.pwin
  IN  /\ r # NoReturn /\ now <= r.until
      /\ deduped' = IF new THEN [deduped EXCEPT ![i] = now + DedupeFor] ELSE deduped
      /\ tat' = IF new /\ Bucket
                THEN [tat EXCEPT ![k] = MaxOf(Tat(k) - r.tokens * spec.T, now)] ELSE tat
      /\ used' = IF mine THEN [used EXCEPT ![<<k, wid>>] = Credit(@, r.tokens)] ELSE used
      /\ pused' = IF orgs THEN [pused EXCEPT ![pwid] = Credit(@, r.tokens)] ELSE pused
      /\ applied' = IF mine \/ (new /\ Bucket) \/ orgs
                    THEN [applied EXCEPT ![i] = @ + 1] ELSE applied
      /\ UNCHANGED <<spec, org, now, edges, had, phad>>

----------------------------------------------------------------------------
\* The answer arrives: an older window's tokens are dropped, a newer window
\* replaces what is held, and the same window's are added to it.
Accept(h, a) ==
  IF a.win < h.win THEN h
  ELSE IF a.win > h.win
  THEN [n |-> a.granted, win |-> a.win, pwin |-> a.pwin, exp |-> a.exp]
  ELSE IF a.granted = 0 THEN h
  ELSE [h EXCEPT !.n = @ + a.granted, !.exp = a.exp]
Deliver(e) ==
  /\ call[e] # NoCall
  /\ held' = [held EXCEPT ![e] = Accept(@, call[e])]
  /\ call' = [call EXCEPT ![e] = NoCall]
  /\ UNCHANGED <<spec, org, now, ledger, sent, seq, history>>

Lose(e) ==
  /\ call[e] # NoCall
  /\ call' = [call EXCEPT ![e] = NoCall]
  /\ UNCHANGED <<spec, org, now, ledger, held, sent, seq, history>>

\* A request takes one token, or finds the lease expired and drops it.
Spend(e) ==
  /\ held[e].n > 0
  /\ held' = [held EXCEPT ![e].n = IF now >= held[e].exp THEN 0 ELSE @ - 1]
  /\ UNCHANGED <<spec, org, now, ledger, call, sent, seq, history>>

\* What a return says of the tokens of edge e, under its next id.
Send(e, tokens, until) ==
  LET i == <<e, seq[e] + 1>>
  IN  /\ seq[e] < MaxReturns
      /\ seq' = [seq EXCEPT ![e] = @ + 1]
      /\ sent' = [sent EXCEPT ![i] = [win |-> held[e].win, pwin |-> held[e].pwin,
                                      tokens |-> tokens, until |-> until]]

\* An idle key or a draining edge: the balance is swapped out first; expired
\* tokens are worth nothing and are not returned.
GiveBack(e) ==
  /\ held[e].n > 0 /\ now < held[e].exp
  /\ Send(e, held[e].n, now + RetryFor)
  /\ held' = [held EXCEPT ![e].n = 0]
  /\ had' = [had EXCEPT ![<<KeyOf[e], held[e].win>>] = @ - held[e].n]
  /\ phad' = IF org # NoOrg /\ pwid = held[e].pwin
             THEN [phad EXCEPT ![pwid] = @ - held[e].n] ELSE phad
  /\ UNCHANGED <<spec, org, now, ledger, call, applied>>

\* A reservation of one token is spent and its actual cost settled: the
\* difference goes to the ledger as a return that may be repeated for as long
\* as the reservation is good.  Descriptors have no organisation.
Settle(e, actual) ==
  /\ org = NoOrg /\ held[e].n > 0 /\ now < held[e].exp /\ actual # 1
  /\ Send(e, 1 - actual, now + TokenLife)
  /\ held' = [held EXCEPT ![e].n = @ - 1]
  /\ had' = [had EXCEPT ![<<KeyOf[e], held[e].win>>] = @ - MaxOf(1 - actual, 0)]
  /\ UNCHANGED <<spec, org, now, ledger, call, phad, applied>>

Next ==
  \/ Tick
  \/ \E e \in Edges : \E target \in Targets, n \in 1 .. Cardinality(Edges) : Grant(e, target, n)
  \/ \E e \in Edges : Deliver(e)
  \/ \E e \in Edges : Lose(e)
  \/ \E e \in Edges : Spend(e)
  \/ \E e \in Edges : GiveBack(e)
  \/ \E e \in Edges : \E actual \in Actuals : Settle(e, actual)
  \/ \E i \in Ids : Execute(i)

Spec == Init /\ [][Next]_vars

----------------------------------------------------------------------------
\* Whatever is returned, settled, repeated or lost: not counting cost beyond
\* the estimates, no window hands out more than its limit, and a bucket no
\* more than its burst and what refilled since it was full (Spec.Limit: "cost
\* per window, or the bucket's burst").
LimitHolds ==
  \A x \in Entries : had[x] <= spec.limit + (IF Bucket THEN now \div spec.T ELSE 0)

\* The keys of an organisation together are within its budget, although a
\* return may name a window of the organisation that its tokens are not from
\* (Ref: "an enclosing quota that every grant must also fit").
OrgBudgetHolds == org # NoOrg => \A w \in Windows : phad[w] <= org.limit

\* No burst across a reset: what the holders have had of this window and the
\* part of the last one that still overlaps fit the limit (SlidingWindow).
SlidingSmooth ==
  spec.algo = "sliding" /\ wid > 0 =>
    \A k \in Keys : had[<<k, wid>>] * spec.win + had[<<k, wid - 1>>] * (WindowEnd(wid, spec.win) - now)
                     <= spec.limit * spec.win

\* A return takes effect once however often it arrives (Return: "a retried
\* call is applied once"; docs/limiter.md on settling: "exactly once").
AppliedOnce == \A i \in Ids : applied[i] <= 1
=============================================================================
