----------------------------- MODULE EdgeProofs -----------------------------
(***************************************************************************)
(* Proofs about EdgeRequest, for any number of requests and replicas and   *)
(* any services: the replicas' counts, the limiters' accounts, the cache   *)
(* and the attempts of requests that may not be repeated.  EdgeInv is the  *)
(* inductive invariant.  ServeProofs states what follows from it.          *)
(***************************************************************************)
EXTENDS EdgeEffects

----------------------------------------------------------------------------
(* Replicas.                                                               *)

\* A replica's counters.
UpRec == [inflight : Int, failures : Int, open : BOOLEAN]
Busy(t) == {r \in Requests : req[r].pc \in {"try", "body"} /\ req[r].target = t}
ReplicasKept == up \in [Replicas -> UpRec] /\ \A t \in Replicas : up[t].inflight = Cardinality(Busy(t))

\* A report to the breaker leaves a replica's count in flight (pool.report).
LEMMA ReportFacts ==
  ASSUME NEW u \in UpRec
  PROVE  /\ report(u, TRUE) \in UpRec /\ report(u, TRUE).inflight = u.inflight
         /\ report(u, FALSE) \in UpRec /\ report(u, FALSE).inflight = u.inflight
<1>1. CASE svc.breaker = 0 BY <1>1, Zenon DEF report
<1>2. svc.breaker # 0 => report(u, TRUE) \in UpRec /\ report(u, TRUE).inflight = u.inflight
  BY DEF report, UpRec
<1>3. CASE svc.breaker # 0
  <2>1. PICK b \in BOOLEAN : b = (u.open \/ u.failures + 1 >= svc.breaker) BY Zenon
  <2>2. PICK n \in Int : n = u.failures + 1 BY DEF UpRec
  <2>3. report(u, FALSE) = [u EXCEPT !.failures = n, !.open = b] BY <1>3, <2>1, <2>2, Zenon DEF report
  <2>4. [u EXCEPT !.failures = n, !.open = b] \in UpRec
          /\ [u EXCEPT !.failures = n, !.open = b].inflight = u.inflight
    BY Zenon DEF UpRec
  <2> QED BY <1>2, <1>3, <2>3, <2>4, Zenon
<1> QED BY <1>1, <1>3, Zenon

\* Letting go of a replica takes one from its count in flight.
LEMMA ReleasedFacts ==
  ASSUME NEW u \in UpRec
  PROVE  Released(u) \in UpRec /\ Released(u).inflight = u.inflight - 1
BY DEF Released, UpRec

\* How the number of attempts at a replica changes when one request changes.
LEMMA BusyMove ==
  ASSUME NEW r \in Requests, Changed(r), NEW t
  PROVE  /\ Cardinality(Busy(t)) \in Nat /\ Cardinality(Busy(t)') \in Nat
         /\ (r \in Busy(t) <=> r \in Busy(t)') => Busy(t)' = Busy(t)
         /\ r \in Busy(t)' /\ r \notin Busy(t) => Cardinality(Busy(t)') = Cardinality(Busy(t)) + 1
         /\ r \in Busy(t) /\ r \notin Busy(t)' => Cardinality(Busy(t)') = Cardinality(Busy(t)) - 1
<1>1. PICK A, B : A = Busy(t) /\ B = Busy(t)' BY Zenon
<1>2. A \in SUBSET Requests /\ B \in SUBSET Requests BY <1>1, Zenon DEF Busy
<1>3. \A o \in Requests \ {r} : o \in A <=> o \in B BY <1>1, Zenon DEF Busy, Changed
<1>4. IsFiniteSet(Requests) BY ServiceSettings, Zenon
<1>5. Counts(A, B, r) BY <1>2, <1>3, <1>4, CountMoves, Zenon
<1> QED BY <1>1, <1>5, Zenon DEF Counts

\* A step that is about no attempt keeps the replicas' counts.
LEMMA ReplicasSteadyKept ==
  ASSUME ReplicasKept, NEW r \in Requests, Changed(r), ReplicasSteady(r)
  PROVE  ReplicasKept'
<1>1. ASSUME NEW t PROVE Busy(t)' = Busy(t)
  <2>1. r \notin Busy(t) /\ r \notin Busy(t)' BY Zenon DEF Busy, ReplicasSteady
  <2> QED BY <2>1, BusyMove, Zenon
<1> QED BY <1>1, Zenon DEF ReplicasKept, ReplicasSteady

\* A step that counts one request in or out of one replica.
LEMMA ReplicaMoved ==
  ASSUME ReplicasKept, NEW r \in Requests, Changed(r), NEW t \in Replicas, NEW v \in UpRec,
         up' = [up EXCEPT ![t] = v],
         \A s \in Replicas \ {t} : r \in Busy(s) <=> r \in Busy(s)',
         \/ v.inflight = up[t].inflight + 1 /\ r \notin Busy(t) /\ r \in Busy(t)'
         \/ v.inflight = up[t].inflight - 1 /\ r \in Busy(t) /\ r \notin Busy(t)'
         \/ v.inflight = up[t].inflight /\ (r \in Busy(t) <=> r \in Busy(t)')
  PROVE  ReplicasKept'
<1>1. up' \in [Replicas -> UpRec] /\ up'[t] = v /\ \A s \in Replicas \ {t} : up'[s] = up[s]
  BY Zenon DEF ReplicasKept
<1>2. \A s \in Replicas : up[s].inflight = Cardinality(Busy(s)) BY Zenon DEF ReplicasKept
<1>3. ASSUME NEW s \in Replicas PROVE up'[s].inflight = Cardinality(Busy(s)')
  <2>1. CASE s = t BY <1>1, <1>2, <2>1, BusyMove, Zenon
  <2>2. CASE s # t BY <1>1, <1>2, <2>2, BusyMove, Zenon
  <2> QED BY <2>1, <2>2, Zenon
<1> QED BY <1>1, <1>3, Zenon DEF ReplicasKept

\* The start of an attempt keeps the replicas' counts those of the attempts under way (RoundTrip).
LEMMA ReplicasStart ==
  ASSUME Typed, ReplicasKept, NEW r \in Requests, StartAttempt(r)
  PROVE  ReplicasKept'
<1>1. PICK t \in Replicas : t = req[r].target BY StartEffect, Zenon
<1>2. /\ Changed(r) /\ req[r].pc = "send" /\ req'[r].pc = "try" /\ req'[r].target = t
      /\ up' = [up EXCEPT ![t].inflight = @ + 1]
  BY <1>1, StartEffect, Zenon DEF Called
<1>3. up[t] \in UpRec BY Zenon DEF ReplicasKept
<1>4. PICK v : v = [up[t] EXCEPT !.inflight = @ + 1] BY Zenon
<1>5. v \in UpRec /\ v.inflight = up[t].inflight + 1 BY <1>3, <1>4 DEF UpRec
<1>6. up' = [up EXCEPT ![t] = v] BY <1>2, <1>4, Zenon DEF ReplicasKept
<1>7. \A s \in Replicas \ {t} : r \notin Busy(s) /\ r \notin Busy(s)' BY <1>2, Zenon DEF Busy
<1>8. r \notin Busy(t) /\ r \in Busy(t)' BY <1>2, Zenon DEF Busy
<1> QED BY <1>2, <1>5, <1>6, <1>7, <1>8, ReplicaMoved, Zenon

\* A response keeps the replicas' counts those of the attempts under way (RoundTrip).
LEMMA ReplicasEnd ==
  ASSUME Typed, ReplicasKept, NEW r \in Requests, NEW code \in {101, 200, 500}, EndAttempt(r, code)
  PROVE  ReplicasKept'
<1>1. PICK t \in Replicas : t = req[r].target BY EndEffect
<1>2. PICK u : u = report(up[t], code < 500) BY Zenon
<1>3. PICK v : v = IF code = 101 THEN Released(u) ELSE u OBVIOUS
<1>4. /\ Changed(r) /\ req[r].pc = "try" /\ req'[r].pc = "body"
      /\ req'[r].target = (IF code = 101 THEN NoTarget ELSE t)
      /\ up' = [up EXCEPT ![t] = v]
  BY <1>1, <1>2, <1>3, EndEffect DEF Called
<1>5. up[t] \in UpRec BY Zenon DEF ReplicasKept
<1>6. u \in UpRec /\ u.inflight = up[t].inflight
  <2>1. u = report(up[t], TRUE) \/ u = report(up[t], FALSE) BY <1>2, Zenon DEF report
  <2>2. /\ report(up[t], TRUE) \in UpRec /\ report(up[t], TRUE).inflight = up[t].inflight
        /\ report(up[t], FALSE) \in UpRec /\ report(up[t], FALSE).inflight = up[t].inflight
    BY <1>5, ReportFacts, Zenon
  <2> QED BY <2>1, <2>2, Zenon
<1>7. NoTarget \notin Replicas BY ServiceSettings, Zenon
<1>8. \A s \in Replicas \ {t} : r \notin Busy(s) /\ r \notin Busy(s)' BY <1>1, <1>4, <1>7 DEF Busy
<1>9. r \in Busy(t) /\ (r \in Busy(t)' <=> code # 101) BY <1>1, <1>4, <1>7 DEF Busy
<1>10. v \in UpRec /\ v.inflight = IF code = 101 THEN up[t].inflight - 1 ELSE up[t].inflight
  BY <1>3, <1>6, ReleasedFacts
<1>11. Changed(r) /\ up' = [up EXCEPT ![t] = v] /\ v \in UpRec BY <1>4, <1>10, Zenon
<1>12. CASE code = 101
  <2>1. v.inflight = up[t].inflight - 1 /\ r \in Busy(t) /\ r \notin Busy(t)' BY <1>9, <1>10, <1>12, Zenon
  <2> QED BY <1>8, <1>11, <2>1, ReplicaMoved, Zenon
<1>13. CASE code # 101
  <2>1. v.inflight = up[t].inflight /\ r \in Busy(t) /\ r \in Busy(t)' BY <1>9, <1>10, <1>13, Zenon
  <2> QED BY <1>8, <1>11, <2>1, ReplicaMoved, Zenon
<1> QED BY <1>12, <1>13, Zenon

\* A failed attempt keeps the replicas' counts those of the attempts under way (RoundTrip).
LEMMA ReplicasFail ==
  ASSUME Typed, ReplicasKept, NEW r \in Requests, NEW why \in {"large", "gone", "timeout", "error"},
         FailAttempt(r, why)
  PROVE  ReplicasKept'
<1>1. PICK t \in Replicas : t = req[r].target BY FailEffect, Zenon
<1>2. PICK v : v = Released(report(up[t], FALSE)) BY Zenon
<1>3. up[t] \in UpRec BY Zenon DEF ReplicasKept
<1>4. /\ Changed(r) /\ req[r].pc = "try" /\ req'[r].pc \in {"backoff", "settle"}
      /\ up' = [up EXCEPT ![t] = v]
  BY <1>1, <1>2, FailEffect, Zenon DEF Called, ReplicasKept
<1>5. v \in UpRec /\ v.inflight = up[t].inflight - 1 BY <1>2, <1>3, ReportFacts, ReleasedFacts, Zenon
<1>6. \A s \in Replicas \ {t} : r \notin Busy(s) /\ r \notin Busy(s)' BY <1>1, <1>4, Zenon DEF Busy
<1>7. r \in Busy(t) /\ r \notin Busy(t)' BY <1>1, <1>4, Zenon DEF Busy
<1> QED BY <1>4, <1>5, <1>6, <1>7, ReplicaMoved, Zenon

\* Closing a body keeps the replicas' counts those of the attempts under way (Close).
LEMMA ReplicasClose ==
  ASSUME Typed, ReplicasKept, NEW r \in Requests, NEW actual \in {-1, 0, 2}, NEW broke \in BOOLEAN,
         CloseBody(r, actual, broke)
  PROVE  ReplicasKept'
<1>1. /\ Changed(r) /\ req[r].pc = "body" /\ req'[r].pc \in {"settle", "unwind"}
      /\ up' = IF req[r].target = NoTarget THEN up ELSE [up EXCEPT ![req[r].target] = Released(@)]
  BY CloseEffect, Zenon DEF Called
<1>2. req[r].target \in Replicas \cup {NoTarget} BY Zenon DEF Typed, ReqType, ReqRec
<1>3. NoTarget \notin Replicas BY ServiceSettings, Zenon
<1>4. CASE req[r].target = NoTarget
  <2>1. ASSUME NEW t \in Replicas PROVE Busy(t)' = Busy(t)
    <3>1. r \notin Busy(t) /\ r \notin Busy(t)' BY <1>1, <1>3, <1>4, Zenon DEF Busy
    <3> QED BY <1>1, <3>1, BusyMove, Zenon
  <2> QED BY <1>1, <1>4, <2>1, Zenon DEF ReplicasKept
<1>5. CASE req[r].target \in Replicas
  <2>1. PICK t \in Replicas : t = req[r].target BY <1>5, Zenon
  <2>2. PICK v : v = Released(up[t]) BY Zenon
  <2>3. up[t] \in UpRec BY Zenon DEF ReplicasKept
  <2>4. up' = [up EXCEPT ![t] = v] BY <1>1, <1>3, <2>1, <2>2, Zenon DEF ReplicasKept
  <2>5. v \in UpRec /\ v.inflight = up[t].inflight - 1 BY <2>2, <2>3, ReleasedFacts, Zenon
  <2>6. \A s \in Replicas \ {t} : r \notin Busy(s) /\ r \notin Busy(s)' BY <1>1, <2>1, Zenon DEF Busy
  <2>7. r \in Busy(t) /\ r \notin Busy(t)' BY <1>1, <2>1, Zenon DEF Busy
  <2> QED BY <1>1, <2>4, <2>5, <2>6, <2>7, ReplicaMoved, Zenon
<1> QED BY <1>2, <1>4, <1>5, Zenon

\* The end of a breaker's cooldown keeps the replicas' counts.
LEMMA ReplicasCooldown ==
  ASSUME ReplicasKept, NEW t \in Replicas, Cooldown(t)
  PROVE  ReplicasKept'
<1>1. up' = [up EXCEPT ![t].open = FALSE] /\ req' = req BY Zenon DEF Cooldown
<1>2. up[t] \in UpRec BY Zenon DEF ReplicasKept
<1>3. PICK v : v = [up[t] EXCEPT !.open = FALSE] BY Zenon
<1>4. v \in UpRec /\ v.inflight = up[t].inflight BY <1>2, <1>3, Zenon DEF UpRec
<1>5. up' = [up EXCEPT ![t] = v] BY <1>1, <1>3, Zenon DEF ReplicasKept
<1>6. \A s : Busy(s)' = Busy(s) BY <1>1, Zenon DEF Busy
<1> QED BY <1>4, <1>5, <1>6, Zenon DEF ReplicasKept


----------------------------------------------------------------------------
(* The limits charge what their requests owe.                              *)

\* What the requests have been charged on limit i beyond what they owe.
Nets(i) == [r \in Requests |-> Net(svc, req[r], i)]
Accounts == [DOMAIN svc.limits -> Int]
AccountsKept ==
  /\ used \in Accounts /\ safe \in Accounts /\ owed \in Accounts
  /\ \A i \in DOMAIN svc.limits : used[i] + safe[i] = owed[i] + SumFunctionOnSet(Nets(i), Requests)

\* Charges, dues and nets are numbers.
LEMMA NetInt ==
  ASSUME NEW s \in Services, NEW q \in ReqRec, Booked(s, q), NEW i \in DOMAIN s.limits
  PROVE  Est(s, q) \in Int /\ Paid(q, i) \in Int /\ Due(s, q, i) \in Int /\ Net(s, q, i) \in Int
<1>1. /\ q.method \in Methods /\ q.asked \in Nat /\ q.actual \in Int /\ q.charged \in Seq(Charge)
      /\ q.todo \in SUBSET Adjustment
  BY Zenon DEF ReqRec
<1>2. s.costs[q.method] \in Nat /\ s.estimate \in Nat BY <1>1, ServiceSettings, Zenon DEF Methods
<1>3. Est(s, q) \in Int BY <1>1, <1>2 DEF Est
<1>4. ChargedAt(q, i) => q.charged[i].cost \in Int
  <2>1. ChargedAt(q, i) => q.charged[i] \in Charge BY <1>1 DEF ChargedAt
  <2> QED BY <2>1, Zenon DEF Charge
<1>5. Paid(q, i) \in Int /\ Due(s, q, i) \in Int BY <1>1, <1>4 DEF Paid, Due
<1>6. Pending(q.todo, i) \in Int
  <2>1. CASE \E a \in q.todo : a.i = i
    <3>1. PICK a : a = CHOOSE b \in q.todo : b.i = i BY Zenon
    <3>2. a \in Adjustment BY <1>1, <2>1, <3>1, Zenon
    <3> QED BY <2>1, <3>1, <3>2, Zenon DEF Pending, Adjustment
  <2>2. CASE ~\E a \in q.todo : a.i = i BY <2>2 DEF Pending
  <2> QED BY <2>1, <2>2, Zenon
<1> QED BY <1>3, <1>5, <1>6 DEF Net

\* A step that charges the limits what it changes one request's net by.
LEMMA AccountsMove ==
  ASSUME Typed, Typed', AccountsKept, NEW r \in Requests, Changed(r), svc' = svc,
         used' \in Accounts, safe' \in Accounts, owed' \in Accounts,
         \A i \in DOMAIN svc.limits :
           used'[i] + safe'[i] + Net(svc, req[r], i) + owed[i]
             = used[i] + safe[i] + owed'[i] + Net(svc, req'[r], i)
  PROVE  AccountsKept'
<1>1. \A o \in Requests : svc \in Services /\ req[o] \in ReqRec /\ req'[o] \in ReqRec /\ Booked(svc, req[o])
        /\ Booked(svc, req'[o])
  BY Zenon DEF Typed, ReqType
<1>2. IsFiniteSet(Requests) BY ServiceSettings, Zenon
<1>3. ASSUME NEW i \in DOMAIN svc.limits
      PROVE  used'[i] + safe'[i] = owed'[i] + SumFunctionOnSet(Nets(i)', Requests)
  <2>1. PICK f, e : f = Nets(i) /\ e = Nets(i)' BY Zenon
  <2>2. \A o \in Requests : f[o] = Net(svc, req[o], i) /\ e[o] = Net(svc, req'[o], i)
    BY <2>1, Zenon DEF Nets
  <2>3. \A o \in Requests : f[o] \in Int /\ e[o] \in Int BY <1>1, <1>3, <2>2, NetInt, Zenon
  <2>4. \A o \in Requests \ {r} : e[o] = f[o] BY <2>2, Zenon DEF Changed
  <2>5. SumFunctionOnSet(e, Requests) = SumFunctionOnSet(f, Requests) + (e[r] - f[r])
    BY <1>2, <2>3, <2>4, SumUpdate
  <2>6. SumFunctionOnSet(f, Requests) \in Int BY <1>2, <2>3, SumType, Zenon
  <2>7. used[i] + safe[i] = owed[i] + SumFunctionOnSet(f, Requests) BY <1>3, <2>1, Zenon DEF AccountsKept
  <2>8. used'[i] + safe'[i] + f[r] + owed[i] = used[i] + safe[i] + owed'[i] + e[r] BY <1>3, <2>2, Zenon
  <2>9. /\ used[i] \in Int /\ safe[i] \in Int /\ owed[i] \in Int
        /\ used'[i] \in Int /\ safe'[i] \in Int /\ owed'[i] \in Int
    BY <1>3, Zenon DEF AccountsKept, Accounts
  <2> QED BY <2>1, <2>3, <2>5, <2>6, <2>7, <2>8, <2>9
<1>4. used' \in Accounts' /\ safe' \in Accounts' /\ owed' \in Accounts' BY Zenon DEF Accounts
<1> QED BY <1>3, <1>4, Zenon DEF AccountsKept

\* A step that charges nothing and leaves what one request has been charged.
LEMMA AccountsSame ==
  ASSUME Typed, Typed', AccountsKept, NEW r \in Requests, Changed(r), UNCHANGED <<svc, used, safe, owed>>,
         \A i \in DOMAIN svc.limits : Net(svc, req'[r], i) = Net(svc, req[r], i)
  PROVE  AccountsKept'
<1>1. used' \in Accounts /\ safe' \in Accounts /\ owed' \in Accounts BY Zenon DEF AccountsKept
<1>2. \A i \in DOMAIN svc.limits :
        used'[i] + safe'[i] + Net(svc, req[r], i) + owed[i]
          = used[i] + safe[i] + owed'[i] + Net(svc, req'[r], i)
  <2> SUFFICES ASSUME NEW i \in DOMAIN svc.limits
               PROVE  used'[i] + safe'[i] + Net(svc, req[r], i) + owed[i]
                        = used[i] + safe[i] + owed'[i] + Net(svc, req'[r], i)
    BY Zenon
  <2>1. Net(svc, req[r], i) \in Int BY NetInt, Zenon DEF Typed, ReqType
  <2>2. used[i] \in Int /\ safe[i] \in Int /\ owed[i] \in Int BY Zenon DEF AccountsKept, Accounts
  <2> QED BY <2>1, <2>2
<1> QED BY <1>1, <1>2, AccountsMove, Zenon

\* A request without charges, or one between its checks and its settlement.
LEMMA NetNothing ==
  ASSUME Typed, NEW r \in Requests, Changed(r), SameAccount(req'[r], req[r]),
         req[r].pc \in {"new", "cache", "slot", "acquire", "full"}, req'[r].pc \notin {"adjust", "undo"}
  PROVE  \A i \in DOMAIN svc.limits : Net(svc, req'[r], i) = Net(svc, req[r], i)
<1>1. req[r].charged = <<>> BY Zenon DEF Typed, Booked
<1>2. \A i : ~ChargedAt(req[r], i) /\ ~ChargedAt(req'[r], i) BY <1>1 DEF ChargedAt, SameAccount
<1> QED BY <1>2, Zenon DEF Net, Paid, Due

\* Away from the steps that take or give back, what a request has taken of a limit is its charge.
LEMMA NetPlain ==
  ASSUME NEW r \in Requests, SameAccount(req'[r], req[r]),
         req[r].pc \notin {"undo", "adjust", "unwind", "store", "done"},
         req'[r].pc \notin {"undo", "adjust", "unwind", "store", "done"}
  PROVE  \A i \in DOMAIN svc.limits : Net(svc, req'[r], i) = Net(svc, req[r], i)
BY Zenon DEF Net, Paid, ChargedAt, SameAccount

\* What a request has been charged while it is being checked.
LEMMA NetChecking ==
  ASSUME Typed, NEW r \in Requests, req[r].pc \in {"reserve", "safety", "undo"}
  PROVE  /\ req[r].i \in DOMAIN svc.limits /\ Paid(req[r], req[r].i) = 0
         /\ \A i \in DOMAIN svc.limits :
              Net(svc, req[r], i)
                = IF req[r].pc = "undo" /\ i = req[r].i THEN Est(svc, req[r]) ELSE Paid(req[r], i)
<1>1. req[r].charged \in Seq(Charge) BY Zenon DEF Typed, ReqType, ReqRec
<1>2. req[r].i = Len(req[r].charged) + 1 /\ req[r].i <= Len(svc.limits) BY Zenon DEF Typed, Booked
<1>3. Len(req[r].charged) \in Nat /\ DOMAIN req[r].charged = 1 .. Len(req[r].charged) BY <1>1
<1>4. req[r].i \in DOMAIN svc.limits /\ ~ChargedAt(req[r], req[r].i) BY <1>2, <1>3, LimitFacts DEF ChargedAt
<1> QED BY <1>4, Zenon DEF Paid, Net

\* A check that charges it, or does not.
LEMMA NetCharged ==
  ASSUME Typed, NEW r \in Requests, NEW at, Charged(r, at), req[r].pc \in {"reserve", "safety", "undo"}
  PROVE  \A i \in DOMAIN svc.limits :
           Net(svc, req'[r], i) = IF i = req[r].i /\ at # "none" THEN Est(svc, req[r]) ELSE Paid(req[r], i)
<1> DEFINE charge == [at |-> at, cost |-> Est(svc, req[r])]
           charged == req[r].charged
<1>1. charged \in Seq(Charge) BY Zenon DEF Typed, ReqType, ReqRec
<1>2. req[r].i = Len(charged) + 1 /\ req[r].i <= Len(svc.limits) BY Zenon DEF Typed, Booked
<1>3. charge.at = at /\ charge.cost = Est(svc, req[r]) BY Zenon
<1>4. req'[r].charged = Append(charged, charge) /\ req'[r].pc \in {"pick", "reserve"} BY Zenon DEF Charged
<1> HIDE DEF charge
<1>5. SUFFICES ASSUME NEW i \in DOMAIN svc.limits
               PROVE  Paid(req'[r], i)
                        = IF i = req[r].i /\ at # "none" THEN Est(svc, req[r]) ELSE Paid(req[r], i)
  BY <1>4, Zenon DEF Net
<1>6. i \in Nat /\ i >= 1 BY LimitFacts
<1>7. \A c : \A s \in Seq(Charge) :
        /\ DOMAIN Append(s, c) = 1 .. Len(s) + 1 /\ Append(s, c)[Len(s) + 1] = c
        /\ \A j \in 1 .. Len(s) : Append(s, c)[j] = s[j]
        /\ DOMAIN s = 1 .. Len(s) /\ Len(s) \in Nat
  OBVIOUS
<1> HIDE DEF charged
<1>8. CASE i = Len(charged) + 1
  <2>1. i \in DOMAIN req'[r].charged /\ req'[r].charged[i] = charge /\ i \notin DOMAIN charged
    BY <1>1, <1>4, <1>6, <1>7, <1>8
  <2> QED BY <1>2, <1>3, <1>8, <2>1, Zenon DEF Paid, ChargedAt, charged
<1>9. CASE i # Len(charged) + 1
  <2>1. i \in DOMAIN req'[r].charged <=> i \in DOMAIN charged BY <1>1, <1>4, <1>6, <1>7, <1>9
  <2>2. i \in DOMAIN charged => req'[r].charged[i] = charged[i] BY <1>1, <1>4, <1>6, <1>7, <1>9
  <2> QED BY <1>2, <1>9, <2>1, <2>2, Zenon DEF Paid, ChargedAt, charged
<1> QED BY <1>8, <1>9, Zenon

\* A rollback has as much to give back as the request was charged.
LEMMA NetRolled ==
  ASSUME Typed, NEW r \in Requests, RolledBackTo(r)
  PROVE  \A i \in DOMAIN svc.limits : Net(svc, req'[r], i) = Paid(req[r], i)
<1> SUFFICES ASSUME NEW i \in DOMAIN svc.limits PROVE Net(svc, req'[r], i) = Paid(req[r], i) BY Zenon
<1>1. Pending(Adjustments(r, 0), i) = IF ChargedAt(req[r], i) THEN 0 - req[r].charged[i].cost ELSE 0
  BY AdjustmentFacts
<1>2. Paid(req[r], i) \in Int BY NetInt, Zenon DEF Typed, ReqType
<1>3. Pending(Adjustments(r, 0), i) = 0 - Paid(req[r], i) BY <1>1, <1>2 DEF Paid
<1>4. ~ChargedAt(req'[r], i) BY DEF RolledBackTo, ChargedAt
<1>5. Net(svc, req'[r], i) = 0 - Pending(Adjustments(r, 0), i) BY <1>4, Zenon DEF RolledBackTo, Net, Due
<1> QED BY <1>2, <1>3, <1>5

\* The checks keep the accounts.
LEMMA AccountsPrimary ==
  ASSUME Typed, AccountsKept, NEW r \in Requests, AllowPrimary(r)
  PROVE  AccountsKept'
<1>1. PICK k, e : k = req[r].i /\ e = Est(svc, req[r]) BY Zenon
<1>2. /\ Changed(r) /\ Typed' /\ req[r].pc = "reserve" /\ UNCHANGED <<svc, safe, owed>>
      /\ \/ Charged(r, "primary") /\ used' = [used EXCEPT ![k] = @ + e]
         \/ (Charged(r, "none") \/ RolledBackTo(r)) /\ used' = used
  BY <1>1, PrimaryEffect, Zenon
<1>3. /\ k \in DOMAIN svc.limits /\ Paid(req[r], k) = 0
      /\ \A i \in DOMAIN svc.limits : Net(svc, req[r], i) = Paid(req[r], i)
  BY <1>1, <1>2, NetChecking, Zenon
<1>4. e \in Int BY <1>1, EstFacts
<1>5. used \in Accounts /\ safe \in Accounts /\ owed \in Accounts BY Zenon DEF AccountsKept
<1>6. CASE Charged(r, "primary") /\ used' = [used EXCEPT ![k] = @ + e]
  <2>1. \A i \in DOMAIN svc.limits : Net(svc, req'[r], i) = IF i = k THEN e ELSE Paid(req[r], i)
    BY <1>1, <1>2, <1>6, NetCharged
  <2>2. used' \in Accounts /\ \A i \in DOMAIN svc.limits : used'[i] = IF i = k THEN used[i] + e ELSE used[i]
    BY <1>3, <1>4, <1>5, <1>6 DEF Accounts
  <2>3. \A i \in DOMAIN svc.limits : used[i] \in Int /\ safe[i] \in Int /\ owed[i] \in Int
    BY <1>5, Zenon DEF Accounts
  <2>4. \A i \in DOMAIN svc.limits : Paid(req[r], i) \in Int BY NetInt, Zenon DEF Typed, ReqType
  <2>5. \A i \in DOMAIN svc.limits :
          used'[i] + safe'[i] + Net(svc, req[r], i) + owed[i]
            = used[i] + safe[i] + owed'[i] + Net(svc, req'[r], i)
    BY <1>2, <1>3, <1>4, <2>1, <2>2, <2>3, <2>4
  <2> QED BY <1>2, <1>5, <2>2, <2>5, AccountsMove, Zenon
<1>7. CASE (Charged(r, "none") \/ RolledBackTo(r)) /\ used' = used
  <2>1. \A i \in DOMAIN svc.limits : Net(svc, req'[r], i) = Paid(req[r], i)
    BY <1>2, <1>7, NetCharged, NetRolled, Zenon
  <2> QED BY <1>2, <1>3, <1>7, <2>1, AccountsSame, Zenon
<1> QED BY <1>2, <1>6, <1>7, Zenon

\* A failed check of the primary limiter keeps the accounts (Reserve).
LEMMA AccountsFails ==
  ASSUME Typed, AccountsKept, NEW r \in Requests, NEW rejected \in BOOLEAN, AllowFails(r, rejected)
  PROVE  AccountsKept'
<1>1. /\ Changed(r) /\ Typed' /\ req[r].pc = "reserve" /\ UNCHANGED <<svc, used, safe, owed>>
      /\ \/ req'[r].pc = "safety" /\ SameAccount(req'[r], req[r])
         \/ Charged(r, "none")
         \/ RolledBackTo(r)
  BY FailsEffect, Zenon
<1>2. \A i \in DOMAIN svc.limits : Net(svc, req[r], i) = Paid(req[r], i) BY <1>1, NetChecking, Zenon
<1>3. CASE req'[r].pc = "safety" /\ SameAccount(req'[r], req[r])
  BY <1>1, <1>3, NetPlain, AccountsSame, Zenon
<1>4. CASE Charged(r, "none") \/ RolledBackTo(r)
  <2>1. \A i \in DOMAIN svc.limits : Net(svc, req'[r], i) = Paid(req[r], i)
    BY <1>1, <1>4, NetCharged, NetRolled, Zenon
  <2> QED BY <1>1, <1>2, <2>1, AccountsSame, Zenon
<1> QED BY <1>1, <1>3, <1>4, Zenon

\* A check of the safety limiter keeps the accounts (Reserve).
LEMMA AccountsLocal ==
  ASSUME Typed, SafetyAgrees, AccountsKept, NEW r \in Requests, AllowLocal(r)
  PROVE  AccountsKept'
<1>1. PICK k, e : k = req[r].i /\ e = Est(svc, req[r]) BY Zenon
<1>2. /\ Changed(r) /\ Typed' /\ req[r].pc = "safety" /\ svc.safety.on /\ UNCHANGED <<svc, used, owed>>
      /\ \/ req'[r].pc = "undo" /\ SameAccount(req'[r], req[r]) /\ Est(svc, req'[r]) = e
         \/ Charged(r, "safety")
      /\ safe' = [safe EXCEPT ![k] = @ + safetyRule(r, k).cost]
  BY <1>1, LocalEffect, Zenon
<1>3. /\ k \in DOMAIN svc.limits /\ Paid(req[r], k) = 0
      /\ \A i \in DOMAIN svc.limits : Net(svc, req[r], i) = Paid(req[r], i)
  BY <1>1, <1>2, NetChecking, Zenon
<1>4. e \in Int /\ safetyRule(r, k).cost = e BY <1>1, <1>2, <1>3, EstFacts, SafetyCost
<1>5. used \in Accounts /\ safe \in Accounts /\ owed \in Accounts BY Zenon DEF AccountsKept
<1>6. safe' \in Accounts /\ \A i \in DOMAIN svc.limits : safe'[i] = IF i = k THEN safe[i] + e ELSE safe[i]
  BY <1>2, <1>3, <1>4, <1>5 DEF Accounts
<1>7. \A i \in DOMAIN svc.limits : Net(svc, req'[r], i) = IF i = k THEN e ELSE Paid(req[r], i)
  <2>1. CASE req'[r].pc = "undo" /\ SameAccount(req'[r], req[r]) /\ Est(svc, req'[r]) = e
    <3>1. \A i \in DOMAIN svc.limits : Paid(req'[r], i) = Paid(req[r], i)
      BY <2>1, Zenon DEF Paid, ChargedAt, SameAccount
    <3>2. req'[r].i = k BY <1>1, <2>1, Zenon DEF SameAccount
    <3> QED BY <2>1, <3>1, <3>2, Zenon DEF Net
  <2>2. CASE Charged(r, "safety") BY <1>1, <1>2, <2>2, NetCharged, Zenon
  <2> QED BY <1>2, <2>1, <2>2, Zenon
<1>8. \A i \in DOMAIN svc.limits : used[i] \in Int /\ safe[i] \in Int /\ owed[i] \in Int
  BY <1>5, Zenon DEF Accounts
<1>9. \A i \in DOMAIN svc.limits : Paid(req[r], i) \in Int BY NetInt, Zenon DEF Typed, ReqType
<1>10. \A i \in DOMAIN svc.limits :
         used'[i] + safe'[i] + Net(svc, req[r], i) + owed[i]
           = used[i] + safe[i] + owed'[i] + Net(svc, req'[r], i)
  BY <1>2, <1>3, <1>4, <1>6, <1>7, <1>8, <1>9
<1> QED BY <1>2, <1>5, <1>6, <1>10, AccountsMove, Zenon

\* Taking back a refused check of the safety limiter keeps the accounts (Reserve).
LEMMA AccountsUndo ==
  ASSUME Typed, SafetyAgrees, AccountsKept, NEW r \in Requests, AllowLocalUndo(r)
  PROVE  AccountsKept'
<1>1. PICK k, e : k = req[r].i /\ e = Est(svc, req[r]) BY Zenon
<1>2. /\ Changed(r) /\ Typed' /\ req[r].pc = "undo" /\ svc.safety.on /\ UNCHANGED <<svc, used, owed>>
      /\ Charged(r, "none") \/ RolledBackTo(r)
      /\ safe' = [safe EXCEPT ![k] = @ - safetyRule(r, k).cost]
  BY <1>1, UndoEffect, Zenon
<1>3. /\ k \in DOMAIN svc.limits /\ Paid(req[r], k) = 0
      /\ \A i \in DOMAIN svc.limits : Net(svc, req[r], i) = IF i = k THEN e ELSE Paid(req[r], i)
  BY <1>1, <1>2, NetChecking, Zenon
<1>4. e \in Int /\ safetyRule(r, k).cost = e BY <1>1, <1>2, <1>3, EstFacts, SafetyCost
<1>5. used \in Accounts /\ safe \in Accounts /\ owed \in Accounts BY Zenon DEF AccountsKept
<1>6. safe' \in Accounts /\ \A i \in DOMAIN svc.limits : safe'[i] = IF i = k THEN safe[i] - e ELSE safe[i]
  BY <1>2, <1>3, <1>4, <1>5 DEF Accounts
<1>7. \A i \in DOMAIN svc.limits : Net(svc, req'[r], i) = Paid(req[r], i)
  BY <1>2, NetCharged, NetRolled, Zenon
<1>8. \A i \in DOMAIN svc.limits : used[i] \in Int /\ safe[i] \in Int /\ owed[i] \in Int
  BY <1>5, Zenon DEF Accounts
<1>9. \A i \in DOMAIN svc.limits : Paid(req[r], i) \in Int BY NetInt, Zenon DEF Typed, ReqType
<1>10. \A i \in DOMAIN svc.limits :
         used'[i] + safe'[i] + Net(svc, req[r], i) + owed[i]
           = used[i] + safe[i] + owed'[i] + Net(svc, req'[r], i)
  BY <1>2, <1>3, <1>4, <1>6, <1>7, <1>8, <1>9
<1> QED BY <1>2, <1>5, <1>6, <1>10, AccountsMove, Zenon

\* What is left to adjust after one adjustment.
LEMMA PendingLess ==
  ASSUME NEW s, NEW todo \in SUBSET Adjustment, Distinct(s, todo), NEW a \in todo
  PROVE  /\ a.i \in DOMAIN s.limits /\ a.at # "none" /\ a.delta \in Int
         /\ Pending(todo, a.i) = a.delta /\ Pending(todo \ {a}, a.i) = 0
         /\ \A i : i # a.i => Pending(todo \ {a}, i) = Pending(todo, i)
<1>1. \A b \in todo : b.i = a.i => b = a BY Zenon DEF Distinct
<1>2. a.i \in DOMAIN s.limits /\ a.at # "none" /\ a.delta \in Int BY Zenon DEF Distinct, Adjustment
<1>3. Pending(todo, a.i) = a.delta
  <2>1. PICK b : b = CHOOSE c \in todo : c.i = a.i BY Zenon
  <2>2. b = a BY <1>1, <2>1, Zenon
  <2> QED BY <2>1, <2>2, Zenon DEF Pending
<1>4. Pending(todo \ {a}, a.i) = 0 BY <1>1, Zenon DEF Pending
<1>5. ASSUME NEW i, i # a.i PROVE Pending(todo \ {a}, i) = Pending(todo, i)
  <2>1. \A b : (b \in todo \ {a} /\ b.i = i) <=> (b \in todo /\ b.i = i) BY <1>5, Zenon
  <2>2. (CHOOSE b \in todo \ {a} : b.i = i) = (CHOOSE b \in todo : b.i = i) BY <2>1, Zenon
  <2> QED BY <2>1, <2>2, Zenon DEF Pending
<1> QED BY <1>2, <1>3, <1>4, <1>5, Zenon

\* What a request owes depends on its charges and its answer.
LEMMA DueKept ==
  ASSUME NEW s, NEW q, NEW p, NEW i, SameCost(q, p), SameResponse(q, p), q.charged = p.charged
  PROVE  Due(s, q, i) = Due(s, p, i)
BY Zenon DEF Due, ChargedAt, SameCost, SameResponse

\* Applying one adjustment keeps the accounts (Adjust).
LEMMA AccountsAdjusted ==
  ASSUME Typed, Typed', AccountsKept, NEW r \in Requests, Changed(r), req[r].pc = "adjust",
         NEW a \in Adjustment, Adjusts(r, a),
         SameCost(req'[r], req[r]), SameResponse(req'[r], req[r]), req'[r].charged = req[r].charged,
         UNCHANGED <<svc, owed>>
  PROVE  AccountsKept'
<1>1. PICK todo, k, d : todo = req[r].todo /\ k = a.i /\ d = a.delta BY Zenon
<1>2. todo \in SUBSET Adjustment /\ Distinct(svc, todo) /\ a \in todo
  BY <1>1, Zenon DEF Typed, ReqType, ReqRec, Booked, Adjusts
<1>3. /\ k \in DOMAIN svc.limits /\ a.at # "none" /\ d \in Int
      /\ Pending(todo, k) = d /\ Pending(todo \ {a}, k) = 0
      /\ \A i : i # k => Pending(todo \ {a}, i) = Pending(todo, i)
  BY <1>1, <1>2, PendingLess, Zenon
<1>4. a.at \in {"primary", "safety"} BY <1>3, Zenon DEF Adjustment
<1>5. used \in Accounts /\ safe \in Accounts /\ owed \in Accounts BY Zenon DEF AccountsKept
<1>6. /\ used' = IF a.at = "primary" THEN [used EXCEPT ![k] = @ + d] ELSE used
      /\ safe' = IF a.at = "safety" THEN [safe EXCEPT ![k] = @ + d] ELSE safe
  BY <1>1, Zenon DEF Adjusts
<1>7. \A i \in DOMAIN svc.limits : used[i] \in Int /\ safe[i] \in Int /\ owed[i] \in Int
  BY <1>5, Zenon DEF Accounts
<1>8. /\ used' \in Accounts /\ safe' \in Accounts
      /\ \A i \in DOMAIN svc.limits : used'[i] + safe'[i]
           = IF i = k THEN used[i] + safe[i] + d ELSE used[i] + safe[i]
  <2>1. CASE a.at = "primary" BY <1>3, <1>5, <1>6, <1>7, <2>1 DEF Accounts
  <2>2. CASE a.at = "safety" BY <1>3, <1>5, <1>6, <1>7, <2>2 DEF Accounts
  <2> QED BY <1>4, <2>1, <2>2, Zenon
<1>9. ASSUME NEW i \in DOMAIN svc.limits
      PROVE  used'[i] + safe'[i] + Net(svc, req[r], i) + owed[i]
               = used[i] + safe[i] + owed'[i] + Net(svc, req'[r], i)
  <2>1. PICK due : due = Due(svc, req[r], i) BY Zenon
  <2>2. due \in Int /\ Net(svc, req[r], i) \in Int BY <1>9, <2>1, NetInt, Zenon DEF Typed, ReqType
  <2>3. Net(svc, req[r], i) = due - Pending(todo, i) BY <1>1, <2>1, Zenon DEF Net
  <2>4. Net(svc, req'[r], i) = due - Pending(todo \ {a}, i) BY <1>1, <2>1, DueKept, Zenon DEF Net, Adjusts
  <2>5. Net(svc, req'[r], i) \in Int BY <1>9, NetInt, Zenon DEF Typed, ReqType
  <2>6. used'[i] \in Int /\ safe'[i] \in Int BY <1>8, <1>9, Zenon DEF Accounts
  <2>7. CASE i = k BY <1>3, <1>7, <1>8, <2>2, <2>3, <2>4, <2>6, <2>7
  <2>8. CASE i # k
    <3>1. Net(svc, req'[r], i) = Net(svc, req[r], i) BY <1>3, <2>3, <2>4, <2>8, Zenon
    <3> QED BY <1>7, <1>8, <1>9, <2>2, <2>6, <2>8, <3>1
  <2> QED BY <2>7, <2>8, Zenon
<1> QED BY <1>5, <1>8, <1>9, AccountsMove, Zenon

\* A step of a rollback or of a settlement keeps the accounts (Adjust).
LEMMA AccountsAdjust ==
  ASSUME Typed, AccountsKept, NEW r \in Requests, Adjust(r)
  PROVE  AccountsKept'
<1>1. /\ Changed(r) /\ Typed' /\ req[r].pc = "adjust" /\ UNCHANGED <<svc, owed>>
      /\ SameCost(req'[r], req[r]) /\ SameResponse(req'[r], req[r]) /\ req'[r].charged = req[r].charged
      /\ \/ req[r].todo = {} /\ req'[r].pc = "unwind" /\ UNCHANGED <<used, safe>>
         \/ \E a \in Adjustment : Adjusts(r, a)
  BY AdjustEffect, Zenon
<1>2. CASE \E a \in Adjustment : Adjusts(r, a)
  <2>1. PICK a \in Adjustment : Adjusts(r, a) BY <1>2, Zenon
  <2> QED BY <1>1, <2>1, AccountsAdjusted, Zenon
<1>3. CASE req[r].todo = {} /\ req'[r].pc = "unwind" /\ UNCHANGED <<used, safe>>
  <2>1. \A i \in DOMAIN svc.limits : Net(svc, req'[r], i) = Net(svc, req[r], i)
    <3> SUFFICES ASSUME NEW i \in DOMAIN svc.limits PROVE Net(svc, req'[r], i) = Net(svc, req[r], i)
      BY Zenon
    <3>1. Due(svc, req'[r], i) = Due(svc, req[r], i) BY <1>1, DueKept, Zenon
    <3>2. Due(svc, req[r], i) \in Int BY NetInt, Zenon DEF Typed, ReqType
    <3>3. Pending(req[r].todo, i) = 0 BY <1>3, Zenon DEF Pending
    <3> QED BY <1>1, <1>3, <3>1, <3>2, <3>3 DEF Net
  <2> QED BY <1>1, <1>3, <2>1, AccountsSame, Zenon
<1> QED BY <1>1, <1>2, <1>3, Zenon

\* A broken body leaves the estimate charged.
LEMMA AccountsClose ==
  ASSUME Typed, AccountsKept, NEW r \in Requests, NEW actual \in {-1, 0, 2}, NEW broke \in BOOLEAN,
         CloseBody(r, actual, broke)
  PROVE  AccountsKept'
<1>1. /\ Changed(r) /\ Typed' /\ SameAccount(req'[r], req[r]) /\ req[r].pc = "body"
           /\ UNCHANGED <<svc, used, safe, owed>>
      /\ req'[r].pc = "settle" \/ (req'[r].pc = "unwind" /\ req'[r].aborted)
  BY CloseEffect, Zenon DEF Called
<1>2. CASE req'[r].pc = "settle" BY <1>1, <1>2, NetPlain, AccountsSame, Zenon
<1>3. CASE req'[r].pc = "unwind" /\ req'[r].aborted
  <2>1. \A i \in DOMAIN svc.limits : Net(svc, req'[r], i) = Net(svc, req[r], i)
    BY <1>1, <1>3, Zenon DEF Net, Due, Paid, ChargedAt, SameAccount
  <2> QED BY <1>1, <2>1, AccountsSame, Zenon
<1> QED BY <1>1, <1>2, <1>3, Zenon

\* A settlement plans what makes the charge what is due.
LEMMA AccountsSettle ==
  ASSUME Typed, AccountsKept, NEW r \in Requests, SettleCost(r)
  PROVE  AccountsKept'
<1>1. /\ Changed(r) /\ Typed' /\ req[r].pc = "settle" /\ req'[r].pc = "adjust" /\ req'[r].todo = Settles(r)
      /\ req'[r].charged = req[r].charged /\ SameResponse(req'[r], req[r]) /\ SameCost(req'[r], req[r])
      /\ UNCHANGED <<svc, used, safe, owed>>
  BY SettleEffect, Zenon
<1>2. ~req[r].aborted BY <1>1, Zenon DEF Typed, Booked
<1>3. \A i \in DOMAIN svc.limits : Net(svc, req'[r], i) = Net(svc, req[r], i)
  <2> SUFFICES ASSUME NEW i \in DOMAIN svc.limits PROVE Net(svc, req'[r], i) = Net(svc, req[r], i) BY Zenon
  <2>1. PICK due, paid : due = Due(svc, req[r], i) /\ paid = Paid(req[r], i) BY Zenon
  <2>2. Pending(Settles(r), i) = due - paid BY <1>2, <2>1, SettlesFacts, Zenon
  <2>3. due \in Int /\ paid \in Int BY <2>1, NetInt, Zenon DEF Typed, ReqType
  <2>4. Net(svc, req'[r], i) = due - Pending(Settles(r), i) BY <1>1, <2>1, DueKept, Zenon DEF Net
  <2>5. Net(svc, req[r], i) = paid BY <1>1, <2>1, Zenon DEF Net
  <2> QED BY <2>2, <2>3, <2>4, <2>5
<1> QED BY <1>1, <1>3, AccountsSame, Zenon

\* A request over owes what it is left charged.
LEMMA AccountsRelease ==
  ASSUME Typed, SafetyAgrees, AccountsKept, NEW r \in Requests, Release(r)
  PROVE  AccountsKept'
<1>1. /\ Changed(r) /\ Typed' /\ req[r].pc = "unwind" /\ req'[r].pc \in {"store", "done"}
      /\ owed' = [i \in DOMAIN owed |-> owed[i] + Owes(r, i)] /\ UNCHANGED <<svc, used, safe>>
  BY ReleaseEffect, Zenon
<1>2. used \in Accounts /\ safe \in Accounts /\ owed \in Accounts BY Zenon DEF AccountsKept
<1>3. \A i \in DOMAIN svc.limits : used[i] \in Int /\ safe[i] \in Int /\ owed[i] \in Int
  BY <1>2, Zenon DEF Accounts
<1>4. \A i \in DOMAIN svc.limits : Owes(r, i) = Net(svc, req[r], i) /\ Net(svc, req'[r], i) = 0
  BY <1>1, OwesFacts, Zenon DEF Net
<1>5. \A i \in DOMAIN svc.limits : Net(svc, req[r], i) \in Int BY NetInt, Zenon DEF Typed, ReqType
<1>6. owed' \in Accounts /\ \A i \in DOMAIN svc.limits : owed'[i] = owed[i] + Net(svc, req[r], i)
  BY <1>1, <1>2, <1>3, <1>4, <1>5 DEF Accounts
<1>7. \A i \in DOMAIN svc.limits :
        used'[i] + safe'[i] + Net(svc, req[r], i) + owed[i]
          = used[i] + safe[i] + owed'[i] + Net(svc, req'[r], i)
  BY <1>1, <1>3, <1>4, <1>5, <1>6
<1> QED BY <1>1, <1>2, <1>6, <1>7, AccountsMove, Zenon

----------------------------------------------------------------------------
(* The inductive invariant of an edge.                                     *)

EdgeInv == Typed /\ SlotsKept /\ ReplicasKept /\ AccountsKept /\ OnlyUpstreamCached

\* A fresh request.
LEMMA FreshFacts ==
  ASSUME NEW s \in Services
  PROVE  /\ Fresh \in ReqRec /\ Sound(s, Fresh) /\ Booked(s, Fresh) /\ Fresh.pc = "new" /\ Fresh.slot = 0
         /\ \A i : Net(s, Fresh, i) = 0
<1> DEFINE none == <<>>
<1>1. none \in Seq(Charge) /\ Len(none) = 0 /\ DOMAIN none = {} OBVIOUS
<1>2. /\ Fresh.pc = "new" /\ Fresh.slot = 0 /\ Fresh.charged = none /\ Fresh.i = 1 /\ Fresh.sent = 0
           /\ ~Fresh.aborted
      /\ Fresh.target = NoTarget
  BY Zenon DEF Fresh
<1> HIDE DEF none
<1>3. Fresh \in ReqRec BY <1>1 DEF Fresh, ReqRec, Labels, Methods, Origins, none
<1>4. Len(s.limits) \in Nat BY ServiceSettings
<1>5. Sound(s, Fresh) BY <1>2 DEF Sound, Answered
<1>6. Booked(s, Fresh) BY <1>1, <1>2, <1>4 DEF Booked, none
<1>7. \A i : ~ChargedAt(Fresh, i) BY <1>1, <1>2, Zenon DEF ChargedAt
<1> QED BY <1>2, <1>3, <1>5, <1>6, <1>7, Zenon DEF Net, Paid

\* It holds at the start.
LEMMA EdgeStart ==
  ASSUME EdgeInit
  PROVE  EdgeInv
<1>1. svc \in Services /\ req \in [Requests -> ReqRec] /\ \A r \in Requests : req[r] = Fresh
  BY FreshFacts, Zenon DEF EdgeInit
<1>2. Typed BY <1>1, FreshFacts, Zenon DEF Typed, ReqType
<1>3. SlotsKept
  <2> DEFINE none == <<>>
  <2>1. none \in Seq(Int) /\ Len(none) = 0 /\ DOMAIN none = {} OBVIOUS
  <2>2. slots = none /\ table = 0 /\ sweep = 0 /\ raced = FALSE BY Zenon DEF EdgeInit
  <2> HIDE DEF none
  <2>3. SlotsType
    <3>1. slots \in Seq(Int) /\ Len(slots) = 0 BY <2>1, <2>2, Zenon
    <3>2. table \in 0 .. Len(slots) /\ sweep \in {0, table} BY <2>2, <3>1
    <3>3. raced \in BOOLEAN BY <2>2, Zenon
    <3> QED BY <3>1, <3>2, <3>3, Zenon DEF SlotsType
  <2>4. \A r \in Requests : req[r].pc = "new" /\ req[r].slot = 0 BY <1>1, FreshFacts, Zenon
  <2>5. \A r \in Requests : Slotting(r) BY <2>1, <2>2, <2>4 DEF Slotting
  <2>6. Running = {} BY <2>4, Zenon DEF Running
  <2>7. svc.concurrent \in Nat BY <1>1, ServiceSettings, Zenon
  <2>8. Cardinality(Running) <= svc.concurrent BY <2>6, <2>7, FS_EmptySet
  <2>9. SlotsBalance BY <2>1, <2>2, <2>8, Zenon DEF SlotsBalance
  <2> QED BY <2>3, <2>5, <2>9, Zenon DEF SlotsKept
<1>4. ReplicasKept
  <2>1. up \in [Replicas -> UpRec] /\ \A t \in Replicas : up[t].inflight = 0 BY DEF EdgeInit, UpRec
  <2>2. \A r \in Requests : req[r].pc = "new" BY <1>1, FreshFacts, Zenon
  <2>3. \A t \in Replicas : Busy(t) = {} BY <2>2, Zenon DEF Busy
  <2> QED BY <2>1, <2>3, FS_EmptySet, Zenon DEF ReplicasKept
<1>5. AccountsKept
  <2>1. /\ used \in Accounts /\ safe \in Accounts /\ owed \in Accounts
        /\ \A i \in DOMAIN svc.limits : used[i] = 0 /\ safe[i] = 0 /\ owed[i] = 0
    BY DEF EdgeInit, Accounts
  <2>2. ASSUME NEW i \in DOMAIN svc.limits PROVE SumFunctionOnSet(Nets(i), Requests) = 0
    <3>1. PICK f : f = Nets(i) BY Zenon
    <3>2. \A r \in Requests : f[r] = 0 BY <1>1, <3>1, FreshFacts, Zenon DEF Nets
    <3>3. IsFiniteSet(Requests) BY ServiceSettings, Zenon
    <3> QED BY <3>1, <3>2, <3>3, SumZero, Zenon
  <2> QED BY <2>1, <2>2, Zenon DEF AccountsKept
<1>6. OnlyUpstreamCached BY Zenon DEF EdgeInit, OnlyUpstreamCached
<1> QED BY <1>2, <1>3, <1>4, <1>5, <1>6, Zenon DEF EdgeInv

\* What keeps the parts of it.
LEMMA Untouched ==
  ASSUME EdgeInv, UNCHANGED <<svc, req, cache>>
  PROVE  /\ Typed' /\ OnlyUpstreamCached'
         /\ up' = up => ReplicasKept'
         /\ UNCHANGED <<used, safe, owed>> => AccountsKept'
         /\ UNCHANGED <<slots, table, sweep, raced>> => SlotsKept'
<1>1. Typed' /\ OnlyUpstreamCached' BY Zenon DEF EdgeInv, Typed, ReqType, OnlyUpstreamCached
<1>2. up' = up => ReplicasKept' BY Zenon DEF EdgeInv, ReplicasKept, Busy
<1>3. UNCHANGED <<used, safe, owed>> => AccountsKept' BY Zenon DEF EdgeInv, AccountsKept, Accounts, Nets
<1>4. UNCHANGED <<slots, table, sweep, raced>> => SlotsKept'
  BY DEF EdgeInv, SlotsKept, SlotsType, Slotting, SlotsBalance, Holders, Running
<1> QED BY <1>1, <1>2, <1>3, <1>4, Zenon

\* A step that concerns neither the slots nor the replicas.
LEMMA AsideKept ==
  ASSUME EdgeInv, NEW r \in Requests, Changed(r), Typed', SlotsSteady(r), ReplicasSteady(r), svc' = svc,
         cache' \in {cache, "upstream"}, AccountsKept'
  PROVE  EdgeInv'
<1>1. SlotsKept' /\ ReplicasKept' BY SlotsSteadyKept, ReplicasSteadyKept, Zenon DEF EdgeInv
<1>2. OnlyUpstreamCached' BY Zenon DEF EdgeInv, OnlyUpstreamCached
<1> QED BY <1>1, <1>2, Zenon DEF EdgeInv

\* A request comes in and is answered from the cache or not.
LEMMA ArrivalStep ==
  ASSUME EdgeInv, NEW r \in Requests,
         \/ \E method \in {"GET", "POST", "OPTIONS"}, found \in BOOLEAN,
               lookup \in {"known", "unknown", "foreign", "failed"}, asked \in {0, 2} :
              Arrive(r, method, found, lookup, asked)
         \/ serveFromCache(r)
  PROVE  EdgeInv'
<1>1. /\ Changed(r) /\ Typed' /\ SlotsSteady(r) /\ ReplicasSteady(r) /\ SameAccount(req'[r], req[r])
      /\ req[r].pc \in {"new", "cache"} /\ req'[r].pc \in {"cache", "slot", "reserve", "done"}
      /\ UNCHANGED <<svc, used, safe, owed, cache>>
  BY ArriveEffect, CacheEffect DEF EdgeInv
<1>2. AccountsKept' BY <1>1, NetNothing, AccountsSame, Zenon DEF EdgeInv
<1> QED BY <1>1, <1>2, AsideKept, Zenon

\* It waits its turn.
LEMMA SlotStep ==
  ASSUME EdgeInv, NEW r \in Requests, get(r) \/ Acquire(r) \/ AcquireFull(r)
  PROVE  EdgeInv'
<1>1. slots \in Seq(Int) /\ table \in Nat /\ (req[r].pc = "acquire" => slots[req[r].slot] \in Int)
  <2>1. /\ slots \in Seq(Int) /\ table \in 0 .. Len(slots) /\ Len(slots) \in Nat
        /\ req[r].slot \in 0 .. Len(slots) /\ (req[r].pc = "acquire" => req[r].slot # 0)
    BY DEF EdgeInv, SlotsKept, SlotsType, Slotting
  <2>2. DOMAIN slots = 1 .. Len(slots) BY <2>1
  <2> QED BY <2>1, <2>2
<1>2. Acquire(r) => req[r].pc = "acquire" BY Zenon DEF Acquire, Step
<1>3. /\ Changed(r) /\ Typed' /\ ReplicasSteady(r) /\ SameAccount(req'[r], req[r])
      /\ req[r].pc \in {"slot", "acquire", "full"}
           /\ req'[r].pc \in {"acquire", "full", "reserve", "unwind"}
      /\ UNCHANGED <<svc, used, safe, owed, cache>>
  BY <1>1, <1>2, GetEffect, AcquireEffect, FullEffect, Zenon DEF EdgeInv
<1>4. AccountsKept' BY <1>3, NetNothing, AccountsSame, Zenon DEF EdgeInv
<1>5. SlotsKept' BY SlotsGet, SlotsAcquire, SlotsFull, Zenon DEF EdgeInv
<1>6. ReplicasKept' BY <1>3, ReplicasSteadyKept, Zenon DEF EdgeInv
<1>7. OnlyUpstreamCached' BY <1>3, Zenon DEF EdgeInv, OnlyUpstreamCached
<1> QED BY <1>3, <1>4, <1>5, <1>6, <1>7, Zenon DEF EdgeInv

\* It is checked, and charged or rolled back.
LEMMA CheckStep ==
  ASSUME SafetyAgrees, EdgeInv, NEW r \in Requests,
         \/ AllowPrimary(r) \/ (\E rejected \in BOOLEAN : AllowFails(r, rejected))
         \/ AllowLocal(r) \/ AllowLocalUndo(r) \/ Adjust(r)
  PROVE  EdgeInv'
<1>1. /\ Changed(r) /\ Typed' /\ SlotsSteady(r) /\ ReplicasSteady(r) /\ UNCHANGED <<svc, cache>>
  BY PrimaryEffect, FailsEffect, LocalEffect, UndoEffect, AdjustEffect, Zenon DEF EdgeInv
<1>2. AccountsKept'
  BY AccountsPrimary, AccountsFails, AccountsLocal, AccountsUndo, AccountsAdjust, Zenon DEF EdgeInv
<1> QED BY <1>1, <1>2, AsideKept, Zenon

\* It is passed on.
LEMMA ForwardStep ==
  ASSUME EdgeInv, NEW r \in Requests,
         \/ \E large \in BOOLEAN : forward(r, large)
         \/ \E end \in {"slept", "gone", "timeout"} : Backoff(r, end)
  PROVE  EdgeInv'
<1>1. Passed(r) BY ForwardEffect, BackoffEffect, Zenon DEF EdgeInv
<1>2. /\ Changed(r) /\ Typed' /\ SlotsSteady(r) /\ ReplicasSteady(r) /\ SameAccount(req'[r], req[r])
      /\ req[r].pc \in {"pick", "backoff"} /\ req'[r].pc \in {"send", "settle"}
      /\ UNCHANGED <<svc, used, safe, owed, cache>>
  BY <1>1, Zenon DEF Passed
<1>3. AccountsKept' BY <1>2, NetPlain, AccountsSame, Zenon DEF EdgeInv
<1> QED BY <1>2, <1>3, AsideKept, Zenon

\* It is tried on a replica.
LEMMA AttemptStep ==
  ASSUME EdgeInv, NEW r \in Requests,
         \/ StartAttempt(r)
         \/ \E code \in {101, 200, 500} : EndAttempt(r, code)
         \/ \E why \in {"large", "gone", "timeout", "error"} : FailAttempt(r, why)
         \/ \E actual \in {-1, 0, 2}, broke \in BOOLEAN : CloseBody(r, actual, broke)
  PROVE  EdgeInv'
<1>1. Called(r)
  <2>1. CASE StartAttempt(r) BY <2>1, StartEffect, Zenon DEF EdgeInv
  <2>2. CASE \E code \in {101, 200, 500} : EndAttempt(r, code)
    <3>1. PICK code \in {101, 200, 500} : EndAttempt(r, code) BY <2>2, Zenon
    <3> QED BY <3>1, EndEffect DEF EdgeInv
  <2>3. CASE \E why \in {"large", "gone", "timeout", "error"} : FailAttempt(r, why)
    BY <2>3, FailEffect, Zenon DEF EdgeInv
  <2>4. CASE \E actual \in {-1, 0, 2}, broke \in BOOLEAN : CloseBody(r, actual, broke)
    BY <2>4, CloseEffect, Zenon DEF EdgeInv
  <2> QED BY <2>1, <2>2, <2>3, <2>4, Zenon
<1>2. /\ Changed(r) /\ Typed' /\ SlotsSteady(r) /\ SameAccount(req'[r], req[r])
           /\ UNCHANGED <<svc, used, safe, owed, cache>>
  BY <1>1, Zenon DEF Called
<1>3. AccountsKept'
  <2>1. CASE \E actual \in {-1, 0, 2}, broke \in BOOLEAN : CloseBody(r, actual, broke)
    BY <2>1, AccountsClose, Zenon DEF EdgeInv
  <2>2. CASE ~\E actual \in {-1, 0, 2}, broke \in BOOLEAN : CloseBody(r, actual, broke)
    <3>1. req[r].pc \in {"send", "try"} /\ req'[r].pc \in {"try", "body", "backoff", "settle"}
      <4>1. CASE StartAttempt(r) BY <4>1, StartEffect, Zenon DEF EdgeInv
      <4>2. CASE \E code \in {101, 200, 500} : EndAttempt(r, code)
        <5>1. PICK code \in {101, 200, 500} : EndAttempt(r, code) BY <4>2, Zenon
        <5> QED BY <5>1, EndEffect DEF EdgeInv
      <4>3. CASE \E why \in {"large", "gone", "timeout", "error"} : FailAttempt(r, why)
        BY <4>3, FailEffect, Zenon DEF EdgeInv
      <4> QED BY <2>2, <4>1, <4>2, <4>3, Zenon
    <3> QED BY <1>2, <3>1, NetPlain, AccountsSame, Zenon DEF EdgeInv
  <2> QED BY <2>1, <2>2, Zenon
<1>4. ReplicasKept' BY ReplicasStart, ReplicasEnd, ReplicasFail, ReplicasClose DEF EdgeInv
<1>5. SlotsKept' BY <1>2, SlotsSteadyKept, Zenon DEF EdgeInv
<1>6. OnlyUpstreamCached' BY <1>2, Zenon DEF EdgeInv, OnlyUpstreamCached
<1> QED BY <1>2, <1>3, <1>4, <1>5, <1>6, Zenon DEF EdgeInv

\* It is settled, lets go of what it holds, and is stored.
LEMMA FinishStep ==
  ASSUME SafetyAgrees, EdgeInv, NEW r \in Requests,
         SettleCost(r) \/ Release(r) \/ \E overflow \in BOOLEAN : StoreResponse(r, overflow)
  PROVE  EdgeInv'
<1>1. CASE SettleCost(r) BY <1>1, SettleEffect, AccountsSettle, AsideKept, Zenon DEF EdgeInv
<1>2. CASE Release(r)
  <2>1. /\ Changed(r) /\ Typed' /\ ReplicasSteady(r) /\ req[r].pc = "unwind"
             /\ req'[r].pc \in {"store", "done"}
        /\ req'[r].slot = 0
             /\ slots' = IF req[r].slot = 0 THEN slots ELSE [slots EXCEPT ![req[r].slot] = @ - 1]
        /\ UNCHANGED <<svc, cache, table, sweep, raced>>
    BY <1>2, ReleaseEffect, Zenon DEF EdgeInv
  <2>2. svc \in Services BY Zenon DEF EdgeInv, Typed, ReqType
  <2>3. SlotsKept' BY <2>1, <2>2, SlotsLetGo, Zenon DEF EdgeInv, Free
  <2>4. ReplicasKept' BY <2>1, ReplicasSteadyKept, Zenon DEF EdgeInv
  <2>5. AccountsKept' BY <1>2, AccountsRelease, Zenon DEF EdgeInv
  <2> QED BY <2>1, <2>3, <2>4, <2>5, Zenon DEF EdgeInv, OnlyUpstreamCached
<1>3. CASE \E overflow \in BOOLEAN : StoreResponse(r, overflow)
  <2>1. /\ Changed(r) /\ Typed' /\ SlotsSteady(r) /\ ReplicasSteady(r) /\ req[r].pc = "store"
             /\ req'[r].pc = "done"
        /\ cache' \in {cache, "upstream"} /\ UNCHANGED <<svc, used, safe, owed>>
    BY <1>3, StoreEffect, Zenon DEF EdgeInv
  <2>2. AccountsKept' BY <2>1, AccountsSame, Zenon DEF EdgeInv, Net
  <2> QED BY <2>1, <2>2, AsideKept, Zenon
<1> QED BY <1>1, <1>2, <1>3, Zenon

\* The invariant of an edge is inductive.
LEMMA EdgeStep ==
  ASSUME SafetyAgrees, EdgeInv, [EdgeNext]_edgeVars
  PROVE  EdgeInv'
<1>1. CASE UNCHANGED edgeVars BY <1>1, Untouched, Zenon DEF EdgeInv, edgeVars, concurrency, accounts
<1>2. CASE SweepSees \/ SweepEvicts
  <2>1. SlotsKept' BY <1>2, SlotsSweep, Zenon DEF EdgeInv
  <2>2. UNCHANGED <<svc, req, used, safe, owed, up, cache>>
    BY <1>2, Zenon DEF SweepSees, SweepEvicts, accounts
  <2> QED BY <2>1, <2>2, Untouched, Zenon DEF EdgeInv
<1>3. ASSUME NEW t \in Replicas, Cooldown(t) PROVE EdgeInv'
  <2>1. ReplicasKept' BY <1>3, ReplicasCooldown, Zenon DEF EdgeInv
  <2>2. UNCHANGED <<svc, req, slots, table, sweep, raced, used, safe, owed, cache>>
    BY <1>3, Zenon DEF Cooldown, concurrency, accounts
  <2> QED BY <2>1, <2>2, Untouched, Zenon DEF EdgeInv
<1> QED
  BY <1>1, <1>2, <1>3, ArrivalStep, SlotStep, CheckStep, ForwardStep, AttemptStep, FinishStep DEF EdgeNext

\* What it says of an edge.
LEMMA EdgeConsequences ==
  ASSUME EdgeInv
  PROVE  SlotsBalance /\ AccountsBalance /\ OnlyUpstreamCached /\ ReplicasBalance /\ SentOnce
<1>1. SlotsBalance /\ OnlyUpstreamCached BY Zenon DEF EdgeInv, SlotsKept
<1>2. ReplicasBalance BY Zenon DEF EdgeInv, ReplicasKept, Busy, ReplicasBalance
<1>3. SentOnce BY Zenon DEF EdgeInv, Typed, Sound, SentOnce
<1>4. AccountsBalance
  <2> SUFFICES ASSUME \A r \in Requests : req[r].pc \in {"new", "done"}, NEW i \in DOMAIN used
               PROVE  used[i] + safe[i] = owed[i]
    BY Zenon DEF AccountsBalance
  <2>1. i \in DOMAIN svc.limits /\ owed[i] \in Int BY Zenon DEF EdgeInv, AccountsKept, Accounts
  <2>2. PICK f : f = Nets(i) BY Zenon
  <2>3. ASSUME NEW r \in Requests PROVE f[r] = 0
    <3>1. req[r].pc = "new" => req[r].charged = <<>> BY Zenon DEF EdgeInv, Typed, Booked
    <3>2. req[r].pc = "new" => ~ChargedAt(req[r], i) BY <3>1 DEF ChargedAt
    <3>3. Net(svc, req[r], i) = 0 BY <3>2, Zenon DEF Net, Paid
    <3> QED BY <2>2, <3>3, Zenon DEF Nets
  <2>4. SumFunctionOnSet(f, Requests) = 0 BY <2>3, SumZero, ServiceSettings, Zenon
  <2>5. used[i] + safe[i] = owed[i] + SumFunctionOnSet(f, Requests)
    BY <2>1, <2>2, Zenon DEF EdgeInv, AccountsKept
  <2> QED BY <2>1, <2>4, <2>5
<1> QED BY <1>1, <1>2, <1>3, <1>4, Zenon
=============================================================================
