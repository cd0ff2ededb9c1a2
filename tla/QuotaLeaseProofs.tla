-------------------------- MODULE QuotaLeaseProofs --------------------------
(***************************************************************************)
(* QuotaLease is correct for any number of edges, requests, cells, windows *)
(* and faults: IInv is inductive, the quota is never exceeded, every token *)
(* is backed by a grant, no lease outlasts its window, and the leased      *)
(* limiter implements the central counter of Quota.  First the sums the    *)
(* invariant is about and how a step changes them, then one lemma for each *)
(* action, then the theorems.                                              *)
(***************************************************************************)
EXTENDS QuotaLease, Sums

\* Windows tile the clock: a time lies in its window, later times lie in the
\* same or later windows, and two window lengths on is a later window.
LEMMA WindowFacts ==
  ASSUME NEW t \in Nat, NEW win \in Nat \ {0}
  PROVE  /\ WindowOf(t, win) \in Nat
         /\ t < WindowEnd(WindowOf(t, win), win)
         /\ WindowOf(t + 2 * win, win) > WindowOf(t, win)
         /\ \A u \in Nat : u >= t => WindowOf(u, win) >= WindowOf(t, win)
BY DEF WindowOf, WindowEnd

\* The index sets are finite.
LEMMA IndexSetsFinite == IsFiniteSet(Heap) /\ IsFiniteSet(Reqs) /\ IsFiniteSet(ReturnIds)
                     /\ IsFiniteSet(Edges)
<1>1. IsFiniteSet(Cells) /\ IsFiniteSet(1 .. MaxReturns)
  BY FS_Interval, LeaseConstants, LedgerConstants DEF Cells
<1> QED
  BY <1>1, FS_Product, LeaseConstants, LedgerConstants, Zenon DEF Heap, Reqs, ReturnIds

HeapFn == [Heap -> CellRec]
FlightFn == [Edges -> FlightRec]
ReqFn == [Reqs -> ReqRec]
RetFn == [ReturnIds -> ReturnRec]
HeldSum(h, w) == SumFunctionOnSet(HeldIn(h, w), Heap)
FlyingSum(f, w) == SumFunctionOnSet(FlyingIn(f, w), Edges)
ReturningSum(d, m, w) == SumFunctionOnSet(ReturningIn(d, m, w), ReturnIds)
PendingSum(q, h, w) == SumFunctionOnSet(PendingIn(q, h, w), Reqs)

\* What an edge holds: naturals; less when cells are emptied; and changed by
\* what one cell changes by.
LEMMA HeldNat ==
  ASSUME NEW h \in HeapFn, NEW w
  PROVE  HeldSum(h, w) \in Nat
<1>1. \A x \in Heap : HeldIn(h, w)[x] \in Nat
  BY Zenon DEF HeldIn, HeapFn, CellRec
<1> QED BY <1>1, SumBound, IndexSetsFinite, Zenon DEF HeldSum

\* Emptying cells lowers what is held.
LEMMA HeldLess ==
  ASSUME NEW h \in HeapFn, NEW k \in HeapFn, NEW w,
         \A x \in Heap : \/ k[x].tokens = 0
                         \/ k[x].win = h[x].win /\ k[x].tokens <= h[x].tokens
  PROVE  HeldSum(k, w) <= HeldSum(h, w)
<1>1. \A x \in Heap : /\ HeldIn(h, w)[x] \in Int /\ HeldIn(k, w)[x] \in Int
                      /\ HeldIn(k, w)[x] <= HeldIn(h, w)[x]
  BY DEF HeldIn, HeapFn, CellRec
<1> QED BY <1>1, SumMonotone, IndexSetsFinite, Zenon DEF HeldSum

\* A change of one cell's tokens changes what is held by as much.
LEMMA HeldAt ==
  ASSUME NEW h \in HeapFn, NEW k \in HeapFn, NEW w, NEW x \in Heap,
         \A y \in Heap \ {x} : k[y].win = h[y].win /\ k[y].tokens = h[y].tokens,
         k[x].win = h[x].win
  PROVE  HeldSum(k, w) = HeldSum(h, w) + (IF h[x].win = w THEN k[x].tokens - h[x].tokens ELSE 0)
<1>1. \A y \in Heap : HeldIn(h, w)[y] \in Int /\ HeldIn(k, w)[y] \in Int
  BY DEF HeldIn, HeapFn, CellRec
<1>2. \A y \in Heap \ {x} : HeldIn(k, w)[y] = HeldIn(h, w)[y]
  BY Zenon DEF HeldIn
<1>3. HeldSum(k, w) = HeldSum(h, w) + (HeldIn(k, w)[x] - HeldIn(h, w)[x])
  BY <1>1, <1>2, SumUpdate, IndexSetsFinite DEF HeldSum
<1>4. HeldSum(h, w) \in Nat
  BY HeldNat, Zenon
<1> QED BY <1>3, <1>4 DEF HeldIn, HeapFn, CellRec

\* The same for answers on their way, ...
FlyingOf(f, e, w) ==
  IF f[e].pc \in {"answered", "adding"} /\ f[e].resp.win = w THEN f[e].resp.granted ELSE 0
\* What is on its way to the edges is a natural.
LEMMA FlyingNat ==
  ASSUME NEW f \in FlightFn, NEW w
  PROVE  FlyingSum(f, w) \in Nat
<1>1. \A e \in Edges : FlyingIn(f, w)[e] \in Nat
  BY Zenon DEF FlyingIn, FlightFn, FlightRec, AnswerRec
<1> QED BY <1>1, SumBound, IndexSetsFinite, Zenon DEF FlyingSum

\* One call's change changes what is on its way by as much.
LEMMA FlyingAt ==
  ASSUME NEW f \in FlightFn, NEW g \in FlightFn, NEW w, NEW x \in Edges,
         \A y \in Edges \ {x} : g[y] = f[y]
  PROVE  FlyingSum(g, w) = FlyingSum(f, w) + (FlyingOf(g, x, w) - FlyingOf(f, x, w))
<1> DEFINE old == FlyingIn(f, w)
           new == FlyingIn(g, w)
<1>1. \A y \in Edges : old[y] \in Int /\ new[y] \in Int
  BY DEF FlyingIn, FlightFn, FlightRec, AnswerRec
<1>2. \A y \in Edges \ {x} : new[y] = old[y]
  BY Zenon DEF FlyingIn
<1>3. SumFunctionOnSet(new, Edges) = SumFunctionOnSet(old, Edges) + (new[x] - old[x])
  <2> HIDE DEF old, new
  <2> QED BY <1>1, <1>2, SumUpdate, IndexSetsFinite
<1> QED BY <1>3, Zenon DEF FlyingIn, FlyingOf, FlyingSum

\* ... for returns on their way, ...
ReturningOf(d, m, i, w) == IF d[i] = 0 /\ m[i].win = w THEN m[i].tokens ELSE 0
\* What is being returned is a natural that covers each return.
LEMMA ReturningNat ==
  ASSUME NEW d, NEW m \in RetFn, NEW w
  PROVE  /\ ReturningSum(d, m, w) \in Nat
         /\ \A i \in ReturnIds : ReturningOf(d, m, i, w) <= ReturningSum(d, m, w)
<1>1. \A i \in ReturnIds : ReturningIn(d, m, w)[i] \in Nat
  BY Zenon DEF ReturningIn, RetFn, ReturnRec
<1>2. \A i \in ReturnIds : ReturningIn(d, m, w)[i] = ReturningOf(d, m, i, w)
  BY Zenon DEF ReturningIn, ReturningOf
<1> QED BY <1>1, <1>2, SumBound, IndexSetsFinite, Zenon DEF ReturningSum

\* One return's change changes what is being returned by as much.
LEMMA ReturningAt ==
  ASSUME NEW d, NEW m \in RetFn, NEW d2, NEW m2 \in RetFn, NEW w, NEW i \in ReturnIds,
         \A y \in ReturnIds \ {i} : d2[y] = d[y] /\ m2[y] = m[y]
  PROVE  ReturningSum(d2, m2, w) =
           ReturningSum(d, m, w) + (ReturningOf(d2, m2, i, w) - ReturningOf(d, m, i, w))
<1>1. \A y \in ReturnIds : ReturningIn(d, m, w)[y] \in Int /\ ReturningIn(d2, m2, w)[y] \in Int
  BY DEF ReturningIn, RetFn, ReturnRec
<1>2. \A y \in ReturnIds \ {i} : ReturningIn(d2, m2, w)[y] = ReturningIn(d, m, w)[y]
  BY Zenon DEF ReturningIn
<1>3. ReturningSum(d2, m2, w) =
        ReturningSum(d, m, w) + (ReturningIn(d2, m2, w)[i] - ReturningIn(d, m, w)[i])
  BY <1>1, <1>2, SumUpdate, IndexSetsFinite DEF ReturningSum
<1> QED BY <1>3, Zenon DEF ReturningIn, ReturningOf

\* ... and for charges that may yet be refunded.
PendingOf(q, h, r, w) ==
  IF q[r].pc \in {"count", "charged"} /\ h[<<r[1], q[r].h>>].win = w THEN q[r].cost ELSE 0
\* What may yet be refunded is a natural that covers each charge.
LEMMA PendingNat ==
  ASSUME NEW q \in ReqFn, NEW h, NEW w
  PROVE  /\ PendingSum(q, h, w) \in Nat
         /\ \A r \in Reqs : PendingOf(q, h, r, w) <= PendingSum(q, h, w)
<1>1. \A r \in Reqs : PendingIn(q, h, w)[r] \in Nat
  BY Zenon DEF PendingIn, ReqFn, ReqRec
<1>2. \A r \in Reqs : PendingIn(q, h, w)[r] = PendingOf(q, h, r, w)
  BY Zenon DEF PendingIn, PendingOf
<1> QED BY <1>1, <1>2, SumBound, IndexSetsFinite, Zenon DEF PendingSum

\* Fewer pending charges, less to refund.
LEMMA PendingLess ==
  ASSUME NEW q \in ReqFn, NEW h, NEW p \in ReqFn, NEW k, NEW w,
         \A r \in Reqs : PendingOf(p, k, r, w) <= PendingOf(q, h, r, w)
  PROVE  PendingSum(p, k, w) <= PendingSum(q, h, w)
<1>1. \A r \in Reqs : PendingIn(q, h, w)[r] \in Int /\ PendingIn(p, k, w)[r] \in Int
  BY DEF PendingIn, ReqFn, ReqRec
<1>2. \A r \in Reqs : PendingIn(p, k, w)[r] <= PendingIn(q, h, w)[r]
  BY Zenon DEF PendingIn, PendingOf
<1> QED BY <1>1, <1>2, SumMonotone, IndexSetsFinite, Zenon DEF PendingSum

\* One request's change changes what may be refunded by as much.
LEMMA PendingAt ==
  ASSUME NEW q \in ReqFn, NEW h, NEW p \in ReqFn, NEW k, NEW w, NEW r \in Reqs,
         \A y \in Reqs \ {r} : PendingOf(p, k, y, w) = PendingOf(q, h, y, w)
  PROVE  PendingSum(p, k, w) =
           PendingSum(q, h, w) + (PendingOf(p, k, r, w) - PendingOf(q, h, r, w))
<1>1. \A y \in Reqs : PendingIn(q, h, w)[y] \in Int /\ PendingIn(p, k, w)[y] \in Int
  BY DEF PendingIn, ReqFn, ReqRec
<1>2. \A y \in Reqs \ {r} : PendingIn(p, k, w)[y] = PendingIn(q, h, w)[y]
  BY Zenon DEF PendingIn, PendingOf
<1>3. PendingSum(p, k, w) =
        PendingSum(q, h, w) + (PendingIn(p, k, w)[r] - PendingIn(q, h, w)[r])
  BY <1>1, <1>2, SumUpdate, IndexSetsFinite DEF PendingSum
<1> QED BY <1>3, Zenon DEF PendingIn, PendingOf

-----------------------------------------------------------------------------
(***************************************************************************)
(* Accounting.                                                             *)
(***************************************************************************)

Accounts(ch, h, f, d, m, u, w) ==
  ch[w] + (HeldSum(h, w) + FlyingSum(f, w) + ReturningSum(d, m, w)) <= u[w]

\* TokensBacked, before and after a step, as accounts per window.
LEMMA BackedAccounts ==
  /\ TokensBacked <=>
       \A w \in Windows : Accounts(charged, held, flight, deduped, rets, used, w)
  /\ TokensBacked' <=>
       \A w \in Windows : Accounts(charged', held', flight', deduped', rets', used', w)
  /\ RefundsCovered <=> \A w \in Windows : PendingSum(req, held, w) <= charged[w]
  /\ RefundsCovered' <=> \A w \in Windows : PendingSum(req', held', w) <= charged'[w]
BY Zenon DEF TokensBacked, Outstanding, Accounts, HeldSum, FlyingSum, ReturningSum,
     RefundsCovered, PendingSum

\* Fewer tokens on their way after a step than before it.
LEMMA FlyingLess ==
  ASSUME NEW f \in FlightFn, NEW g \in FlightFn, NEW w,
         \A x \in Edges : FlyingOf(g, x, w) <= FlyingOf(f, x, w)
  PROVE  FlyingSum(g, w) <= FlyingSum(f, w)
<1> DEFINE old == FlyingIn(f, w)
           new == FlyingIn(g, w)
<1>1. \A y \in Edges : old[y] \in Int /\ new[y] \in Int
  BY DEF FlyingIn, FlightFn, FlightRec, AnswerRec
<1>2. \A y \in Edges : new[y] <= old[y]
  BY Zenon DEF FlyingIn, FlyingOf
<1>3. SumFunctionOnSet(new, Edges) <= SumFunctionOnSet(old, Edges)
  <2> HIDE DEF old, new
  <2> QED BY <1>1, <1>2, SumMonotone, IndexSetsFinite, Zenon
<1> QED BY <1>3, Zenon DEF FlyingSum

\* A step that neither grants, charges nor returns: cells are emptied, kept
\* or replaced by empty ones, answers are dropped, charges are kept or
\* settled.
Pending == {"count", "charged"}
Shrinks ==
  /\ UNCHANGED <<ledgerVars, rets, charged>>
  /\ \A x \in Heap : \/ held'[x].tokens = 0
                     \/ held'[x].win = held[x].win /\ held'[x].tokens <= held[x].tokens
  /\ \A x \in Edges : \/ flight'[x].pc \notin {"answered", "adding"}
                      \/ /\ flight[x].pc \in {"answered", "adding"}
                         /\ flight'[x].resp = flight[x].resp
  /\ \A r \in Reqs : req'[r].pc \in Pending =>
       /\ req[r].pc \in Pending /\ req'[r].cost = req[r].cost
       /\ held'[<<r[1], req'[r].h>>].win = held[<<r[1], req[r].h>>].win

\* A shrinking step keeps the accounts: no token appears (take on expiry,
\* install, a lost answer).
LEMMA ShrinkingStep ==
  ASSUME TypeOK, TypeOK', TokensBacked, RefundsCovered, GrantsWithinLimit, Shrinks
  PROVE  TokensBacked' /\ RefundsCovered' /\ GrantsWithinLimit'
<1>1. ASSUME NEW w \in Windows
      PROVE  Accounts(charged', held', flight', deduped', rets', used', w)
  <2>1. HeldSum(held', w) <= HeldSum(held, w)
    BY HeldLess, Zenon DEF TypeOK, HeapFn, Shrinks
  <2>2. FlyingSum(flight', w) <= FlyingSum(flight, w)
    <3>1. \A x \in Edges : FlyingOf(flight', x, w) <= FlyingOf(flight, x, w)
      BY DEF TypeOK, FlightRec, AnswerRec, Shrinks, FlyingOf
    <3> QED BY <3>1, FlyingLess, Zenon DEF TypeOK, FlightFn
  <2>3. /\ HeldSum(held, w) \in Nat /\ HeldSum(held', w) \in Nat
        /\ FlyingSum(flight, w) \in Nat /\ FlyingSum(flight', w) \in Nat
        /\ ReturningSum(deduped, rets, w) \in Nat
    BY HeldNat, FlyingNat, ReturningNat, Zenon DEF TypeOK, HeapFn, FlightFn, RetFn
  <2>4. Accounts(charged, held, flight, deduped, rets, used, w)
    BY BackedAccounts, Zenon
  <2>5. charged[w] \in Int /\ used[w] \in Nat
    BY Zenon DEF TypeOK, LedgerTypeOK
  <2> QED BY <2>1, <2>2, <2>3, <2>4, <2>5 DEF Accounts, Shrinks, ledgerVars
<1>2. ASSUME NEW w \in Windows
      PROVE  PendingSum(req', held', w) <= charged'[w]
  <2>1. ASSUME NEW r \in Reqs
        PROVE  PendingOf(req', held', r, w) <= PendingOf(req, held, r, w)
    <3>1. req[r].cost \in Nat /\ req'[r].cost \in Nat
      BY Zenon DEF TypeOK, ReqRec
    <3> QED BY <3>1 DEF Shrinks, PendingOf, Pending
  <2>2. PendingSum(req', held', w) <= PendingSum(req, held, w)
    BY <2>1, PendingLess, Zenon DEF TypeOK, ReqFn
  <2>3. PendingSum(req, held, w) \in Nat /\ PendingSum(req', held', w) \in Nat
    BY PendingNat, Zenon DEF TypeOK, ReqFn
  <2>4. PendingSum(req, held, w) <= charged[w] /\ charged[w] \in Int
    BY BackedAccounts, Zenon DEF TypeOK
  <2> QED BY <2>2, <2>3, <2>4 DEF Shrinks
<1>3. GrantsWithinLimit'
  BY Zenon DEF GrantsWithinLimit, Shrinks, ledgerVars
<1> QED BY <1>1, <1>2, <1>3, BackedAccounts, Zenon

-----------------------------------------------------------------------------
(***************************************************************************)
(* The steps.                                                              *)
(***************************************************************************)

\* Constants and indices.
LEMMA Basics ==
  /\ Window \in Nat \ {0} /\ Limit \in Nat \ {0} /\ MaxTime \in Nat /\ Backoff \in Nat
  /\ Costs \subseteq Nat \ {0} /\ Cells \subseteq Nat /\ 1 \in Cells /\ Windows \subseteq Nat
  /\ \A r \in Reqs : r[1] \in Edges
  /\ \A x \in Heap : x[1] \in Edges /\ x[2] \in Cells /\ x = <<x[1], x[2]>>
  /\ \A i \in ReturnIds : i[1] \in Edges /\ i[2] \in Nat /\ i = <<i[1], i[2]>>
  /\ \A e \in Edges, c \in Cells : <<e, c>> \in Heap
  /\ 0 \in Windows
<1>1. 0 \in Windows
  BY LedgerConstants, WindowFacts DEF Windows
<1>2. Cells \subseteq Nat /\ 1 \in Cells /\ Windows \subseteq Nat
  BY LeaseConstants DEF Cells, Windows
<1> QED BY <1>1, <1>2, LedgerConstants, LeaseConstants DEF Reqs, Heap, ReturnIds

\* The current window exists.
LEMMA WidFacts ==
  ASSUME TypeOK
  PROVE  wid \in Windows /\ now < WindowEnd(wid, Window) /\ now \in Nat
<1>1. now \in Nat /\ now <= MaxTime
  BY DEF TypeOK, LedgerTypeOK
<1> QED BY <1>1, WindowFacts, LedgerConstants DEF Windows, wid

\* A step of one request that holds no charge afterwards and touches nothing
\* but the times kept with the counter.
LEMMA RequestStep ==
  ASSUME IInv, NEW r \in Reqs, NEW q \in ReqRec,
         q.pc \notin Pending,
         q.pc \in HasCell => q.h \in Cells,
         q.pc # "idle" => q.cost \in Costs,
         req' = [req EXCEPT ![r] = q],
         resetAt' \in [Edges -> Nat], retryAt' \in [Edges -> Nat],
         UNCHANGED <<ledgerVars, cur, held, renewing, backoffUntil, flight, netVars, charged>>
  PROVE  IInv'
<1> USE Basics
<1>1. TypeOK'
  BY Zenon DEF IInv, TypeOK, LedgerTypeOK, ledgerVars, netVars
<1>2. PointersValid'
  BY Zenon DEF IInv, TypeOK, PointersValid
<1>3. WindowsBegun' /\ DedupeOutlivesWindow'
  BY Zenon DEF IInv, WindowsBegun, DedupeOutlivesWindow, ledgerVars, netVars, wid
<1>4. LeasesEnd'
  BY Zenon DEF IInv, TypeOK, LeasesEnd, ledgerVars, Pending
<1>5. Shrinks
  <2>1. \A x \in Heap : held'[x].tokens <= held[x].tokens
    BY DEF IInv, TypeOK, CellRec
  <2>2. \A y \in Reqs : req'[y].pc \in Pending => req'[y] = req[y]
    BY Zenon DEF IInv, TypeOK
  <2> QED BY <2>1, <2>2, Zenon DEF Shrinks, ledgerVars, netVars
<1> QED BY <1>1, <1>2, <1>3, <1>4, <1>5, ShrinkingStep, Zenon DEF IInv

\* An idle slot is a request record.
LEMMA IdleReq == Idle \in ReqRec /\ Idle.pc = "idle"
BY Zenon DEF Idle, ReqRec, NoCell

\* A fresh cell is installed where nobody points, and the cells somebody
\* points to stay: what the heap k is after e installs a cell for window w.
AfterInstall(k, e, w, S) ==
  /\ NewCell(e) \in Cells
  /\ k \in HeapFn
  /\ k[<<e, NewCell(e)>>] = Fresh(w)
  /\ \A x \in Heap : k[x] = held[x] \/ k[x] \in {Fresh(0), Fresh(w)}
  /\ \A s \in S : <<e, req[<<e, s>>].h>> \in Heap =>
       k[<<e, req[<<e, s>>].h>>] = held[<<e, req[<<e, s>>].h>>]
  /\ <<e, flight[e].h>> \in Heap => k[<<e, flight[e].h>>] = held[<<e, flight[e].h>>]
  /\ \A x \in Heap : x[1] # e => k[x] = held[x]

\* install does what AfterInstall says.
LEMMA InstalledFacts ==
  ASSUME TypeOK, NEW e \in Edges, NEW w \in Windows, NEW S \in SUBSET Slots,
         Cells \ Pointed(e, Slots) # {}
  PROVE  AfterInstall(Installed(e, w, S), e, w, S)
<1> USE Basics
<1>1. NewCell(e) \in Cells \ Pointed(e, Slots)
  BY Zenon DEF NewCell
<1>2. Fresh(0) \in CellRec /\ Fresh(w) \in CellRec
  BY DEF Fresh, CellRec
<1>3. Installed(e, w, S) \in HeapFn
  BY <1>2, Zenon DEF Installed, HeapFn, TypeOK
<1>4. \A s \in S : req[<<e, s>>].h \in Pointed(e, S) /\ req[<<e, s>>].h \in Pointed(e, Slots)
  BY Zenon DEF Pointed
<1>5. flight[e].h \in Pointed(e, S) /\ flight[e].h \in Pointed(e, Slots)
  BY Zenon DEF Pointed
<1> HIDE DEF NewCell, Pointed
<1> QED BY <1>1, <1>3, <1>4, <1>5, Zenon DEF Installed, AfterInstall

\* An empty cell of a window that has begun.
LEMMA FreshFacts ==
  ASSUME TypeOK, NEW w \in Windows
  PROVE  /\ Fresh(w) \in CellRec /\ Fresh(w).tokens = 0 /\ Fresh(w).win = w
         /\ Fresh(w).expiresAt = 0 /\ 0 <= WindowEnd(w, Window) /\ wid \in Nat
BY Basics, WidFacts DEF Fresh, CellRec, WindowEnd

\* A step that grants, charges and returns nothing.  Cells lose tokens or are
\* replaced by empty ones, except that those with a charge or a half-applied
\* grant keep their window and expiry; requests keep their charge or give it
\* up; calls stay as they are, end or begin.
Kept(x) == /\ held'[x].win = held[x].win
           /\ held'[x].tokens <= held[x].tokens
           /\ held'[x].expiresAt = held[x].expiresAt
Quiet(w) ==
  /\ UNCHANGED <<ledgerVars, rets, seq, charged>>
  /\ \A x \in Heap : Kept(x) \/ held'[x] \in {Fresh(0), Fresh(w)}
  /\ \A r \in Reqs :
       /\ req'[r].pc \in HasCell => req'[r].h \in Cells
       /\ req'[r].pc # "idle" => req'[r].cost \in Costs
       /\ req'[r].pc \in Pending =>
            /\ req[r].pc \in Pending /\ req'[r].cost = req[r].cost /\ req'[r].h = req[r].h
            /\ Kept(<<r[1], req[r].h>>)
  /\ \A e \in Edges :
       \/ /\ flight'[e] = flight[e]
          /\ flight[e].pc = "adding" => Kept(<<e, flight[e].h>>)
       \/ /\ flight'[e].pc \in {"idle", "sent"}
          /\ flight'[e].sent <= now /\ flight'[e].resp.win <= wid

\* A quiet step keeps the invariant.
LEMMA QuietStep ==
  ASSUME IInv, TypeOK', NEW w \in Windows, w <= wid, Quiet(w)
  PROVE  IInv'
<1> USE Basics
<1>1. wid' = wid /\ wid \in Nat
  BY FreshFacts, Zenon DEF Quiet, ledgerVars, wid, IInv
<1>2. ASSUME NEW x \in Heap
      PROVE  /\ held'[x].win <= wid
             /\ \/ held'[x].tokens = 0
                \/ held'[x].win = held[x].win /\ held'[x].tokens <= held[x].tokens
             /\ held'[x].expiresAt <= WindowEnd(held'[x].win, Window)
             /\ held'[x].tokens > 0 => held'[x].expiresAt > 0
  <2>1. CASE Kept(x)
    <3>1. held[x].tokens \in Nat /\ held'[x].tokens \in Nat
      BY Zenon DEF IInv, TypeOK, CellRec
    <3> QED BY <2>1, <3>1 DEF Kept, IInv, WindowsBegun, LeasesEnd
  <2>2. CASE held'[x] \in {Fresh(0), Fresh(w)}
    BY <2>2, <1>1, FreshFacts DEF IInv
  <2> QED BY <2>1, <2>2, Zenon DEF Quiet
<1>3. PointersValid'
  <2>1. ASSUME NEW e \in Edges, flight'[e].pc = "adding"
        PROVE  flight'[e].h \in Cells /\ held'[<<e, flight'[e].h>>].win = flight'[e].resp.win
    <3>1. flight'[e] = flight[e] /\ Kept(<<e, flight[e].h>>)
      BY <2>1, Zenon DEF Quiet
    <3> QED BY <2>1, <3>1, Zenon DEF IInv, PointersValid, Kept
  <2>2. \A r \in Reqs : /\ req'[r].pc \in HasCell => req'[r].h \in Cells
                        /\ req'[r].pc # "idle" => req'[r].cost \in Costs
    BY Zenon DEF Quiet
  <2> QED BY <2>1, <2>2, Zenon DEF PointersValid
<1>4. WindowsBegun' /\ DedupeOutlivesWindow'
  BY <1>1, <1>2, Zenon DEF IInv, WindowsBegun, DedupeOutlivesWindow, Quiet, ledgerVars
<1>5. LeasesEnd'
  <2>1. \A r \in Reqs : req'[r].pc \in Pending => held'[<<r[1], req'[r].h>>].expiresAt > 0
    BY Zenon DEF IInv, LeasesEnd, Quiet, Kept, Pending
  <2>2. \A e \in Edges :
          /\ flight'[e].sent <= now'
          /\ flight'[e].pc = "adding" => held'[<<e, flight'[e].h>>].expiresAt > 0
          /\ flight'[e].pc \in {"answered", "adding"} =>
               /\ flight'[e].resp.expires > 0
               /\ flight'[e].sent + flight'[e].resp.expires
                    <= WindowEnd(flight'[e].resp.win, Window)
    BY Zenon DEF IInv, LeasesEnd, Quiet, Kept, ledgerVars
  <2> QED BY <1>2, <2>1, <2>2, Zenon DEF LeasesEnd, Pending
<1>6. Shrinks
  BY <1>2, Zenon DEF Shrinks, Quiet, Kept
<1> QED BY <1>3, <1>4, <1>5, <1>6, ShrinkingStep, Zenon DEF IInv

\* A cell left alone is kept.
LEMMA KeptSame ==
  ASSUME TypeOK, NEW x \in Heap, held'[x] = held[x]
  PROVE  Kept(x)
BY DEF Kept, TypeOK, CellRec

\* What the invariant says of the cells that requests and calls point to.
LEMMA PointedCells ==
  ASSUME IInv
  PROVE  /\ \A r \in Reqs : req[r].pc \in HasCell => <<r[1], req[r].h>> \in Heap
         /\ \A r \in Reqs : req[r].pc \in Pending => <<r[1], req[r].h>> \in Heap
         /\ \A e \in Edges : flight[e].pc = "adding" => <<e, flight[e].h>> \in Heap
         /\ \A e \in Edges : <<e, cur[e]>> \in Heap
         /\ \A e \in Edges : flight[e] \in FlightRec /\ flight[e].sent <= now
                             /\ flight[e].resp.win <= wid
         /\ \A r \in Reqs : req[r] \in ReqRec
         /\ \A x \in Heap : held[x] \in CellRec
BY Basics, Zenon DEF IInv, TypeOK, PointersValid, HasCell, Pending, LeasesEnd, WindowsBegun

\* An answer that is not stale is from the current window or a later one.
LEMMA NotStale ==
  ASSUME IInv, NEW e \in Edges
  PROVE  ~Stale(e) <=> flight[e].resp.win >= held[<<e, cur[e]>>].win
BY Basics, PointedCells DEF Stale, FlightRec, AnswerRec, CellRec

\* A step that moves tokens between the cells, the calls and the returns:
\* those of no window grow in all, and cells keep window and expiry unless
\* they are replaced by empty ones.
Same(x) == held'[x].win = held[x].win /\ held'[x].expiresAt = held[x].expiresAt
Moves ==
  /\ UNCHANGED <<ledgerVars, charged>>
  /\ \A x \in Heap : \/ held'[x] = Fresh(0)
                     \/ Same(x) /\ (held'[x].tokens > 0 => held'[x].expiresAt > 0)
  /\ \A r \in Reqs :
       /\ req'[r].pc \in HasCell => req'[r].h \in Cells
       /\ req'[r].pc # "idle" => req'[r].cost \in Costs
       /\ req'[r].pc \in Pending => req'[r] = req[r] /\ Same(<<r[1], req[r].h>>)
  /\ \A e \in Edges :
       \/ /\ flight'[e] = flight[e]
          /\ flight[e].pc = "adding" => Same(<<e, flight[e].h>>)
       \/ /\ flight'[e].pc = "idle"
          /\ flight'[e].sent <= now /\ flight'[e].resp.win <= wid
  /\ \A i \in ReturnIds : rets'[i].win <= wid
  /\ \A w \in Windows : HeldSum(held', w) + FlyingSum(flight', w) + ReturningSum(deduped', rets', w)
                          <= HeldSum(held, w) + FlyingSum(flight, w) + ReturningSum(deduped, rets, w)

\* Moving tokens keeps the invariant.
LEMMA MoveStep ==
  ASSUME IInv, TypeOK', DedupeOutlivesWindow', Moves
  PROVE  IInv'
<1> USE Basics, PointedCells
<1>1. wid' = wid /\ wid \in Nat /\ TypeOK
  BY FreshFacts, Zenon DEF Moves, ledgerVars, wid, IInv
<1>2. ASSUME NEW x \in Heap
      PROVE  /\ held'[x].win <= wid
             /\ held'[x].expiresAt <= WindowEnd(held'[x].win, Window)
             /\ held'[x].tokens > 0 => held'[x].expiresAt > 0
  <2>1. CASE Same(x) /\ (held'[x].tokens > 0 => held'[x].expiresAt > 0)
    BY <2>1, Zenon DEF Same, IInv, WindowsBegun, LeasesEnd
  <2>2. CASE held'[x] = Fresh(0)
    BY <2>2, <1>1, FreshFacts
  <2> QED BY <2>1, <2>2, Zenon DEF Moves
<1>3. PointersValid'
  <2>1. ASSUME NEW e \in Edges, flight'[e].pc = "adding"
        PROVE  flight'[e].h \in Cells /\ held'[<<e, flight'[e].h>>].win = flight'[e].resp.win
    <3>1. flight'[e] = flight[e] /\ Same(<<e, flight[e].h>>)
      BY <2>1, Zenon DEF Moves
    <3> QED BY <2>1, <3>1, Zenon DEF IInv, PointersValid, Same
  <2>2. \A r \in Reqs : /\ req'[r].pc \in HasCell => req'[r].h \in Cells
                        /\ req'[r].pc # "idle" => req'[r].cost \in Costs
    BY Zenon DEF Moves
  <2> QED BY <2>1, <2>2, Zenon DEF PointersValid
<1>4. WindowsBegun' /\ GrantsWithinLimit'
  BY <1>1, <1>2, Zenon DEF IInv, WindowsBegun, GrantsWithinLimit, Moves, ledgerVars
<1>5. LeasesEnd'
  <2>1. ASSUME NEW r \in Reqs, req'[r].pc \in Pending
        PROVE  held'[<<r[1], req'[r].h>>].expiresAt > 0
    <3>1. req'[r] = req[r] /\ Same(<<r[1], req[r].h>>)
      BY <2>1, Zenon DEF Moves
    <3> QED BY <2>1, <3>1, Zenon DEF IInv, LeasesEnd, Same, Pending
  <2>2. \A e \in Edges :
          /\ flight'[e].sent <= now'
          /\ flight'[e].pc = "adding" => held'[<<e, flight'[e].h>>].expiresAt > 0
          /\ flight'[e].pc \in {"answered", "adding"} =>
               /\ flight'[e].resp.expires > 0
               /\ flight'[e].sent + flight'[e].resp.expires
                    <= WindowEnd(flight'[e].resp.win, Window)
    <3> TAKE e \in Edges
    <3>1. now' = now
      BY Zenon DEF Moves, ledgerVars
    <3>2. CASE flight'[e].pc = "idle" /\ flight'[e].sent <= now
      BY ONLY <3>1, <3>2, Zenon
    <3>3. CASE flight'[e] = flight[e] /\ (flight[e].pc = "adding" => Same(<<e, flight[e].h>>))
      BY <3>1, <3>3, Zenon DEF IInv, LeasesEnd, Same
    <3> QED BY <3>2, <3>3, Zenon DEF Moves
  <2> QED BY <1>2, <2>1, <2>2, Zenon DEF LeasesEnd, Pending
<1>6. ASSUME NEW w \in Windows
      PROVE  Accounts(charged', held', flight', deduped', rets', used', w)
  <2>1. /\ HeldSum(held, w) \in Nat /\ FlyingSum(flight, w) \in Nat
        /\ ReturningSum(deduped, rets, w) \in Nat
        /\ HeldSum(held', w) \in Nat /\ FlyingSum(flight', w) \in Nat
        /\ ReturningSum(deduped', rets', w) \in Nat
    BY <1>1, HeldNat, FlyingNat, ReturningNat, Zenon DEF TypeOK, HeapFn, FlightFn, RetFn
  <2>2. Accounts(charged, held, flight, deduped, rets, used, w)
        /\ charged[w] \in Int /\ used[w] \in Nat
    BY <1>1, BackedAccounts, Zenon DEF IInv, TypeOK, LedgerTypeOK
  <2>3. HeldSum(held', w) + FlyingSum(flight', w) + ReturningSum(deduped', rets', w)
          <= HeldSum(held, w) + FlyingSum(flight, w) + ReturningSum(deduped, rets, w)
        /\ charged' = charged /\ used' = used
    BY Zenon DEF Moves, ledgerVars
  <2>4. charged'[w] = charged[w] /\ used'[w] = used[w]
    BY ONLY <2>3, Zenon
  <2>5. charged[w] + (HeldSum(held, w) + FlyingSum(flight, w) + ReturningSum(deduped, rets, w))
          <= used[w]
    BY ONLY <2>2, Zenon DEF Accounts
  <2> QED BY ONLY <2>1, <2>2, <2>3, <2>4, <2>5 DEF Accounts
<1>7. ASSUME NEW w \in Windows
      PROVE  PendingSum(req', held', w) <= charged'[w]
  <2>1. ASSUME NEW r \in Reqs
        PROVE  PendingOf(req', held', r, w) <= PendingOf(req, held, r, w)
    <3>1. req[r].cost \in Nat
      BY <1>1, Zenon DEF TypeOK, ReqRec
    <3> QED BY <3>1 DEF Moves, PendingOf, Pending, Same
  <2>2. PendingSum(req', held', w) <= PendingSum(req, held, w)
    BY <1>1, <2>1, PendingLess, Zenon DEF TypeOK, ReqFn
  <2>3. PendingSum(req, held, w) \in Nat /\ PendingSum(req', held', w) \in Nat
    BY <1>1, PendingNat, Zenon DEF TypeOK, ReqFn
  <2>4. PendingSum(req, held, w) <= charged[w] /\ charged[w] \in Int /\ charged' = charged
    BY <1>1, BackedAccounts, Zenon DEF TypeOK, IInv, Moves
  <2> QED BY <2>2, <2>3, <2>4
<1> QED BY <1>3, <1>4, <1>5, <1>6, <1>7, BackedAccounts, Zenon DEF IInv

-----------------------------------------------------------------------------
(***************************************************************************)
(* The steps of an edge by itself.                                         *)
(***************************************************************************)

\* Allow reads the clock and perhaps claims the reset.
LEMMA EnterInv ==
  ASSUME IInv, NEW r \in Reqs, Enter(r)
  PROVE  IInv'
<1> USE Basics
<1> DEFINE due == resetAt[r[1]] > 0 /\ now >= resetAt[r[1]]
           pc == IF due THEN "reset" ELSE "check"
<1>1. PICK c \in Costs :
        req' = [req EXCEPT ![r] = [Idle EXCEPT !.pc = pc, !.cost = c, !.t = now]]
  BY Zenon DEF Enter
<1> DEFINE q == [Idle EXCEPT !.pc = pc, !.cost = c, !.t = now]
<1>2. now \in Nat
  BY DEF IInv, TypeOK, LedgerTypeOK
<1>3. pc \in {"reset", "check"}
  BY Zenon
<1>4. q \in ReqRec /\ q.pc \in {"reset", "check"} /\ q.cost \in Costs
  <2> HIDE DEF pc
  <2> QED BY <1>2, <1>3, Zenon DEF Idle, ReqRec, NoCell
<1>5. resetAt' \in [Edges -> Nat] /\ retryAt' \in [Edges -> Nat]
  BY Zenon DEF Enter, IInv, TypeOK
<1>6. UNCHANGED <<ledgerVars, cur, held, renewing, backoffUntil, flight, netVars, charged>>
  BY Zenon DEF Enter
<1>7. req' = [req EXCEPT ![r] = q]
  BY <1>1, Zenon
<1>8. q.pc \notin Pending /\ q.pc \notin HasCell
  BY <1>4, Zenon DEF Pending, HasCell
<1> HIDE DEF q
<1> QED BY ONLY IInv, r \in Reqs, <1>4, <1>5, <1>6, <1>7, <1>8, RequestStep, Zenon

\* reset loads the current cell.
LEMMA ResetLoadInv ==
  ASSUME IInv, NEW r \in Reqs, ResetLoad(r)
  PROVE  IInv'
<1> USE Basics
<1> DEFINE q == [req[r] EXCEPT !.pc = "install", !.h = cur[r[1]]]
<1>1. q \in ReqRec /\ q.pc = "install" /\ q.h \in Cells /\ q.cost \in Costs
  <2>1. req[r] \in ReqRec /\ cur[r[1]] \in Cells /\ req[r].cost \in Costs
    BY Zenon DEF ResetLoad, IInv, TypeOK, PointersValid
  <2> QED BY ONLY <2>1, Zenon DEF ReqRec
<1>2. req' = [req EXCEPT ![r] = q]
  BY Zenon DEF ResetLoad, IInv, TypeOK
<1>3. resetAt' \in [Edges -> Nat] /\ retryAt' \in [Edges -> Nat]
  BY Zenon DEF ResetLoad, leaseVars, IInv, TypeOK
<1>4. UNCHANGED <<ledgerVars, cur, held, renewing, backoffUntil, flight, netVars, charged>>
  BY Zenon DEF ResetLoad, leaseVars
<1> HIDE DEF q
<1> QED BY <1>1, <1>2, <1>3, <1>4, RequestStep, Zenon DEF Pending

\* Allow applies the guard and begins to take.
LEMMA CheckInv ==
  ASSUME IInv, NEW r \in Reqs, Check(r)
  PROVE  IInv'
<1> USE Basics
<1> DEFINE x == <<r[1], cur[r[1]]>>
           pc == IF Expired(x, req[r].t) THEN "expire" ELSE "spend"
           waiting == retryAt[r[1]] > req[r].t
           go == [req[r] EXCEPT !.pc = pc, !.h = cur[r[1]], !.waiting = waiting]
           q == IF OverGuard(x, req[r].cost) THEN Idle ELSE go
<1>1. go \in ReqRec /\ go.pc \in {"expire", "spend"} /\ go.h \in Cells /\ go.cost \in Costs
  <2>1. pc \in {"expire", "spend"} /\ waiting \in BOOLEAN
    OBVIOUS
  <2>2. req[r] \in ReqRec /\ cur[r[1]] \in Cells /\ req[r].cost \in Costs
    BY Zenon DEF Check, IInv, TypeOK, PointersValid
  <2> HIDE DEF pc, waiting
  <2> QED BY <2>1, <2>2, Zenon DEF ReqRec
<1>2. req' = [req EXCEPT ![r] = q]
  BY Zenon DEF Check
<1>3. resetAt' \in [Edges -> Nat] /\ retryAt' \in [Edges -> Nat]
  BY Zenon DEF Check, IInv, TypeOK
<1>4. UNCHANGED <<ledgerVars, cur, held, renewing, backoffUntil, flight, netVars, charged>>
  BY Zenon DEF Check
<1>5. /\ q \in ReqRec /\ q.pc \notin Pending
      /\ q.pc # "idle" => q.h \in Cells /\ q.cost \in Costs
  <2> HIDE DEF go
  <2> QED BY <1>1, IdleReq, Zenon DEF Pending
<1> HIDE DEF q
<1> QED BY <1>2, <1>3, <1>4, <1>5, RequestStep, Zenon DEF HasCell

\* A caller gives up waiting.
LEMMA CancelInv ==
  ASSUME IInv, NEW r \in Reqs, Cancel(r)
  PROVE  IInv'
<1>1. resetAt' \in [Edges -> Nat] /\ retryAt' \in [Edges -> Nat]
  BY Zenon DEF Cancel, leaseVars, IInv, TypeOK
<1>2. /\ req' = [req EXCEPT ![r] = Idle]
      /\ UNCHANGED <<ledgerVars, cur, held, renewing, backoffUntil, flight, netVars, charged>>
  BY Zenon DEF Cancel, leaseVars
<1>3. Idle.pc \notin Pending /\ Idle.pc \notin HasCell
  BY IdleReq, Zenon DEF Pending, HasCell
<1> QED BY ONLY IInv, r \in Reqs, <1>1, <1>2, <1>3, IdleReq, RequestStep, Zenon

\* Allow takes again once its fetch has returned.
LEMMA RetakeInv ==
  ASSUME IInv, NEW r \in Reqs, Retake(r)
  PROVE  IInv'
<1> USE Basics
<1> DEFINE x == <<r[1], cur[r[1]]>>
           pc == IF Expired(x, now) THEN "expire" ELSE "spend"
           go == [req[r] EXCEPT !.pc = pc, !.h = cur[r[1]]]
           q == IF OverGuard(x, req[r].cost) THEN Idle ELSE go
<1>1. go \in ReqRec /\ go.pc \in {"expire", "spend"} /\ go.h \in Cells /\ go.cost \in Costs
  <2>1. req[r] \in ReqRec /\ cur[r[1]] \in Cells /\ req[r].cost \in Costs
    BY Zenon DEF Retake, IInv, TypeOK, PointersValid
  <2>2. pc \in {"expire", "spend"}
    BY Zenon
  <2> HIDE DEF pc
  <2> QED BY ONLY <2>1, <2>2, Zenon DEF ReqRec
<1>2. req' = [req EXCEPT ![r] = q]
  BY Zenon DEF Retake, IInv, TypeOK
<1>3. resetAt' \in [Edges -> Nat] /\ retryAt' \in [Edges -> Nat]
  BY Zenon DEF Retake, leaseVars, IInv, TypeOK
<1>4. UNCHANGED <<ledgerVars, cur, held, renewing, backoffUntil, flight, netVars, charged>>
  BY Zenon DEF Retake, leaseVars
<1>5. /\ q \in ReqRec /\ q.pc \notin Pending
      /\ q.pc # "idle" => q.h \in Cells /\ q.cost \in Costs
  <2> HIDE DEF go
  <2> QED BY <1>1, IdleReq, Zenon DEF Pending
<1> HIDE DEF q
<1> QED BY <1>2, <1>3, <1>4, <1>5, RequestStep, Zenon DEF HasCell

\* reset replaces the cell, or finds a newer window there.
LEMMA ResetInstallInv ==
  ASSUME IInv, NEW r \in Reqs, ResetInstall(r)
  PROVE  IInv'
<1> USE Basics, PointedCells
<1> DEFINE e == r[1]
           w == held[<<e, req[r].h>>].win
           S == Slots \ {r[2]}
           q == [req[r] EXCEPT !.pc = "check", !.h = NoCell]
<1>1. req[r].pc = "install" /\ req[r].cost \in Costs /\ w \in Windows /\ w <= wid
  BY Zenon DEF ResetInstall, ResetWin, IInv, PointersValid, HasCell, WindowsBegun, CellRec
<1>2. q \in ReqRec /\ q.pc = "check" /\ q.cost \in Costs
  BY <1>1, Zenon DEF ReqRec
<1>3. req' = [req EXCEPT ![r] = q]
  BY Zenon DEF ResetInstall, ResetWin, IInv, TypeOK
<1>4. CASE Superseded(e, req[r].h, w)
  <2>1. resetAt' \in [Edges -> Nat] /\ retryAt' \in [Edges -> Nat]
    BY Zenon DEF ResetInstall, ResetWin, IInv, TypeOK
  <2>2. UNCHANGED <<ledgerVars, cur, held, renewing, backoffUntil, flight, netVars, charged>>
    BY <1>4, Zenon DEF ResetInstall, ResetWin
  <2> HIDE DEF q
  <2> QED BY <1>2, <1>3, <2>1, <2>2, RequestStep, Zenon DEF Pending, HasCell
<1>5. CASE ~Superseded(e, req[r].h, w)
  <2>1. /\ Cells \ Pointed(e, Slots) # {}
        /\ held' = Installed(e, w, S)
        /\ cur' = [cur EXCEPT ![e] = NewCell(e)]
    BY <1>5, Zenon DEF ResetInstall, ResetWin, Install
  <2>2. /\ UNCHANGED <<ledgerVars, resetAt, retryAt, renewing, backoffUntil,
                       flight, netVars, charged>>
        /\ TypeOK
    BY Zenon DEF ResetInstall, ResetWin, IInv
  <2>3. S \in SUBSET Slots
    BY Zenon
  <2> HIDE DEF w, S, q
  <2>4. AfterInstall(held', e, w, S)
    BY <1>1, <2>1, <2>2, <2>3, InstalledFacts, Zenon
  <2>5. TypeOK'
    <3>1. cur' \in [Edges -> Cells]
      BY <2>1, <2>2, <2>4, Zenon DEF TypeOK, AfterInstall
    <3>2. req' \in [Reqs -> ReqRec]
      BY <1>2, <1>3, <2>2, Zenon DEF TypeOK
    <3> QED BY <2>2, <2>4, <3>1, <3>2, Zenon DEF TypeOK, LedgerTypeOK, ledgerVars, netVars, HeapFn,
           AfterInstall
  <2>6. ASSUME NEW y \in Reqs, req'[y].pc \in Pending
        PROVE  req'[y] = req[y] /\ Kept(<<y[1], req[y].h>>)
    <3>1. y # r /\ req'[y] = req[y]
      BY <1>2, <1>3, <2>2, <2>6, Zenon DEF TypeOK, Pending
    <3>2. <<y[1], req[y].h>> \in Heap
      BY <2>6, <3>1, Zenon
    <3>3. CASE y[1] # e
      <4>1. held'[<<y[1], req[y].h>>] = held[<<y[1], req[y].h>>]
        BY <2>4, <3>2, <3>3, Zenon DEF AfterInstall
      <4> QED BY <2>2, <3>1, <3>2, <4>1, KeptSame, Zenon
    <3>4. CASE y[1] = e
      <4>1. y = <<e, y[2]>> /\ y[2] \in S
        BY <3>1, <3>4 DEF Reqs, S
      <4>2. held'[<<e, req[y].h>>] = held[<<e, req[y].h>>]
        BY <2>4, <3>2, <3>4, <4>1 DEF AfterInstall
      <4> QED BY <3>1, <3>2, <3>4, <4>2, <2>2, KeptSame, Zenon
    <3> QED BY <3>3, <3>4, Zenon
  <2>7. ASSUME NEW y \in Edges, flight[y].pc = "adding"
        PROVE  Kept(<<y, flight[y].h>>)
    <3>1. held'[<<y, flight[y].h>>] = held[<<y, flight[y].h>>]
      BY <2>4, <2>7, Zenon DEF AfterInstall
    <3> QED BY <2>2, <2>7, <3>1, KeptSame, Zenon
  <2>8. ASSUME NEW y \in Reqs
        PROVE  /\ req'[y].pc \in HasCell => req'[y].h \in Cells
               /\ req'[y].pc # "idle" => req'[y].cost \in Costs
    BY <1>2, <1>3, <2>2, Zenon DEF TypeOK, HasCell, IInv, PointersValid
  <2>9. Quiet(w)
    BY <2>2, <2>4, <2>6, <2>7, <2>8, KeptSame, Zenon DEF Quiet, netVars, AfterInstall
  <2> QED BY <1>1, <2>5, <2>9, QuietStep, Zenon
<1> QED BY <1>4, <1>5, Zenon

\* Joining a call leaves it as it is, or starts one.
LEMMA JoinedFacts ==
  ASSUME IInv, NEW e \in Edges
  PROVE  /\ Joined(e) \in FlightFn
         /\ \A y \in Edges : \/ Joined(e)[y] = flight[y]
                             \/ /\ Joined(e)[y].pc = "sent" /\ Joined(e)[y].sent = now
                                /\ Joined(e)[y].resp = flight[y].resp
<1>1. now \in Nat
  BY DEF IInv, TypeOK, LedgerTypeOK
<1>2. flight \in FlightFn
  BY Zenon DEF IInv, TypeOK, FlightFn
<1>3. [flight[e] EXCEPT !.pc = "sent", !.sent = now] \in FlightRec
  BY <1>1, <1>2, Zenon DEF FlightFn, FlightRec
<1> QED BY <1>1, <1>2, <1>3, Zenon DEF Joined, FlightFn, FlightRec

\* A miss that may also empty cells: the request waits for a call or gives up.
LEMMA MissStep ==
  ASSUME IInv, NEW r \in Reqs, req[r].pc # "idle", Miss(r),
         held' \in HeapFn, \A x \in Heap : Kept(x),
         UNCHANGED <<ledgerVars, cur, resetAt, retryAt, renewing, backoffUntil, netVars, charged>>
  PROVE  IInv'
<1> USE Basics, PointedCells
<1> DEFINE fetch == ~req[r].waiting /\ req[r].tries < MissRetries /\ ~Down(r[1])
           go == [req[r] EXCEPT !.pc = "wait", !.tries = req[r].tries + 1, !.h = NoCell]
           q == IF fetch THEN go ELSE Idle
<1>1. req' = [req EXCEPT ![r] = q] /\ flight' = IF fetch THEN Joined(r[1]) ELSE flight
  BY Zenon DEF Miss
<1>2. go \in ReqRec /\ go.pc = "wait" /\ go.cost = req[r].cost
  <2>1. req[r] \in ReqRec /\ NoCell \in Cells \cup {NoCell}
    BY Zenon
  <2>2. req[r].tries + 1 \in Nat
    BY <2>1 DEF ReqRec
  <2> QED BY <2>1, <2>2, Zenon DEF ReqRec
<1>3. req[r].cost \in Costs
  BY Zenon DEF IInv, PointersValid
<1> HIDE DEF fetch, go
<1>4. q \in ReqRec /\ q.pc \in {"wait", "idle"} /\ (q.pc # "idle" => q.cost \in Costs)
  BY <1>2, <1>3, IdleReq, Zenon
<1>5. /\ flight' \in FlightFn
      /\ \A y \in Edges : \/ flight'[y] = flight[y]
                          \/ /\ flight'[y].pc = "sent" /\ flight'[y].sent = now
                             /\ flight'[y].resp = flight[y].resp
  BY <1>1, JoinedFacts, Zenon DEF IInv, TypeOK, FlightFn
<1> HIDE DEF q
<1>6. req' \in ReqFn /\ req'[r] = q /\ \A y \in Reqs \ {r} : req'[y] = req[y]
  BY <1>1, <1>4, Zenon DEF IInv, TypeOK, ReqFn
<1>7. TypeOK'
  BY <1>5, <1>6, Zenon DEF IInv, TypeOK, LedgerTypeOK, ledgerVars, netVars, HeapFn, FlightFn, ReqFn
<1>8. ASSUME NEW y \in Reqs
      PROVE  /\ req'[y].pc \in HasCell => req'[y].h \in Cells
             /\ req'[y].pc # "idle" => req'[y].cost \in Costs
             /\ req'[y].pc \in Pending => req'[y] = req[y]
  BY <1>4, <1>6, Zenon DEF IInv, PointersValid, HasCell, Pending
<1>9. Quiet(0)
  <2>1. now \in Nat /\ now <= now
    BY DEF IInv, TypeOK, LedgerTypeOK
  <2> QED BY <1>5, <1>8, <2>1, Zenon DEF Quiet, netVars
<1> QED BY <1>7, <1>9, QuietStep, FreshFacts DEF IInv

\* One cell changes, not its window or expiry, and gains no tokens.
LEMMA CellChange ==
  ASSUME TypeOK, NEW x \in Heap, NEW c \in CellRec, held' = [held EXCEPT ![x] = c],
         c.win = held[x].win, c.tokens <= held[x].tokens, c.expiresAt = held[x].expiresAt
  PROVE  held' \in HeapFn /\ \A y \in Heap : Kept(y)
<1>1. held' \in HeapFn
  BY Zenon DEF TypeOK, HeapFn
<1>2. \A y \in Heap \ {x} : held'[y] = held[y]
  BY Zenon DEF TypeOK
<1>3. held'[x] = c
  BY Zenon DEF TypeOK
<1> QED BY <1>1, <1>2, <1>3, KeptSame, Zenon DEF Kept

\* take drops an expired balance.
LEMMA ExpireInv ==
  ASSUME IInv, NEW r \in Reqs, Expire(r)
  PROVE  IInv'
<1> USE Basics, PointedCells
<1> DEFINE x == <<r[1], req[r].h>>
<1>1. x \in Heap /\ held' = [held EXCEPT ![x].tokens = 0]
  BY Zenon DEF Expire, HasCell
<1>2. held' \in HeapFn /\ \A y \in Heap : Kept(y)
  <2> DEFINE c == [held[x] EXCEPT !.tokens = 0]
  <2>1. /\ c \in CellRec /\ c.win = held[x].win /\ c.tokens <= held[x].tokens
        /\ c.expiresAt = held[x].expiresAt
    BY <1>1 DEF CellRec
  <2>2. held' = [held EXCEPT ![x] = c]
    BY <1>1, Zenon
  <2> HIDE DEF c, x
  <2> QED BY <1>1, <2>1, <2>2, CellChange, Zenon DEF IInv
<1> QED BY <1>2, MissStep, Zenon DEF Expire

\* Allow counts the charge for the guard.
LEMMA CountInv ==
  ASSUME IInv, NEW r \in Reqs, Count(r)
  PROVE  IInv'
<1> USE Basics, PointedCells
<1> DEFINE x == <<r[1], req[r].h>>
<1>1. x \in Heap /\ held' = [held EXCEPT ![x].consumed = @ + req[r].cost]
  BY Zenon DEF Count, HasCell
<1>2. held' \in HeapFn /\ \A y \in Heap : Kept(y)
  <2> DEFINE c == [held[x] EXCEPT !.consumed = @ + req[r].cost]
  <2>1. held[x] \in CellRec /\ held[x].consumed + req[r].cost \in Int
    BY <1>1 DEF CellRec, ReqRec
  <2>2. /\ c \in CellRec /\ c.win = held[x].win /\ c.tokens <= held[x].tokens
        /\ c.expiresAt = held[x].expiresAt
    BY <2>1 DEF CellRec
  <2>3. held' = [held EXCEPT ![x] = c]
    BY <1>1, Zenon
  <2> HIDE DEF c, x
  <2> QED BY <1>1, <2>2, <2>3, CellChange, Zenon DEF IInv
<1>3. /\ req' \in ReqFn /\ \A y \in Reqs \ {r} : req'[y] = req[y]
      /\ \/ req'[r] = Idle
         \/ /\ req'[r].pc = "charged" /\ req'[r].h = req[r].h /\ req'[r].cost = req[r].cost
  <2>1. req' = [req EXCEPT ![r] = Idle] \/ req' = [req EXCEPT ![r].pc = "charged"]
    BY Zenon DEF Count
  <2>2. req \in [Reqs -> ReqRec]
    BY Zenon DEF IInv, TypeOK
  <2>3. [req[r] EXCEPT !.pc = "charged"] \in ReqRec
    BY <2>2, Zenon DEF ReqRec
  <2> QED BY <2>1, <2>2, <2>3, IdleReq DEF ReqFn, ReqRec
<1>4. TypeOK'
  BY <1>2, <1>3 DEF Count, IInv, TypeOK, LedgerTypeOK, ledgerVars, netVars, HeapFn, ReqFn
<1>5. ASSUME NEW y \in Reqs
      PROVE  /\ req'[y].pc \in HasCell => req'[y].h \in Cells
             /\ req'[y].pc # "idle" => req'[y].cost \in Costs
             /\ req'[y].pc \in Pending =>
                  req[y].pc \in Pending /\ req'[y].cost = req[y].cost /\ req'[y].h = req[y].h
  BY <1>3, IdleReq, Zenon DEF Count, IInv, PointersValid, HasCell, Pending
<1>6. Quiet(0)
  BY <1>2, <1>5, Zenon DEF Quiet, Count, netVars
<1> QED BY <1>4, <1>6, QuietStep, FreshFacts DEF IInv

\* The background renewal joins or starts a call.
LEMMA RenewFetchInv ==
  ASSUME IInv, NEW e \in Edges, RenewFetch(e)
  PROVE  IInv'
<1> USE Basics, PointedCells
<1>1. /\ flight' \in FlightFn
      /\ \A y \in Edges : \/ flight'[y] = flight[y]
                          \/ /\ flight'[y].pc = "sent" /\ flight'[y].sent = now
                             /\ flight'[y].resp = flight[y].resp
  BY JoinedFacts, Zenon DEF RenewFetch, IInv, TypeOK, FlightFn
<1>2. TypeOK'
  BY <1>1, Zenon DEF RenewFetch, IInv, TypeOK, LedgerTypeOK, ledgerVars, netVars, FlightFn
<1>3. \A x \in Heap : Kept(x)
  BY KeptSame, Zenon DEF RenewFetch, IInv
<1>4. Quiet(0)
  <2>1. now \in Nat /\ now <= now
    BY DEF IInv, TypeOK, LedgerTypeOK
  <2> QED BY <1>1, <1>3, <2>1, Zenon DEF Quiet, RenewFetch, netVars, IInv, PointersValid
<1> QED BY <1>2, <1>4, QuietStep, FreshFacts DEF IInv

\* A step that moves d tokens from a cell to the charges of its window (or
\* back, for d < 0), and d with them to what may yet be refunded.
LEMMA ChargeStep ==
  ASSUME IInv, NEW r \in Reqs, NEW x \in Heap, NEW d \in Int, NEW c \in CellRec, NEW q \in ReqRec,
         c.win = held[x].win, c.expiresAt = held[x].expiresAt,
         c.tokens = held[x].tokens - d, held[x].expiresAt > 0,
         q.pc \in HasCell => <<r[1], q.h>> = x,
         q.pc # "idle" => q.cost \in Costs,
         held' = [held EXCEPT ![x] = c],
         charged' = [charged EXCEPT ![held[x].win] = charged[held[x].win] + d],
         req' = [req EXCEPT ![r] = q],
         \A w \in Windows : PendingOf(req', held', r, w) - PendingOf(req, held, r, w)
                              = IF held[x].win = w THEN d ELSE 0,
         UNCHANGED <<ledgerVars, cur, resetAt, retryAt, renewing, backoffUntil, netVars, flight>>
  PROVE  IInv'
<1> USE Basics, PointedCells
<1> DEFINE win == held[x].win
<1>1. win \in Windows /\ held[x].tokens \in Nat /\ TypeOK
  BY Zenon DEF CellRec, IInv
<1>2. held' \in HeapFn /\ held'[x] = c /\ \A y \in Heap \ {x} : held'[y] = held[y]
  BY <1>1, Zenon DEF TypeOK, HeapFn
<1>3. req' \in ReqFn /\ req'[r] = q /\ \A y \in Reqs \ {r} : req'[y] = req[y]
  BY <1>1, Zenon DEF TypeOK, ReqFn
<1>4. /\ charged' \in [Windows -> Int] /\ charged'[win] = charged[win] + d
      /\ \A w \in Windows \ {win} : charged'[w] = charged[w]
  BY <1>1 DEF TypeOK
<1>5. TypeOK'
  BY <1>1, <1>2, <1>3, <1>4, Zenon DEF TypeOK, LedgerTypeOK, ledgerVars, netVars, HeapFn, ReqFn
<1>6. \A y \in Heap : held'[y].win = held[y].win /\ held'[y].expiresAt = held[y].expiresAt
  BY <1>2, Zenon
<1>7. PointersValid'
  <2>1. q.pc \in HasCell => q.h \in Cells
    BY DEF Heap
  <2> QED BY <1>3, <1>6, <2>1, Zenon DEF IInv, PointersValid
<1>8. WindowsBegun' /\ DedupeOutlivesWindow' /\ GrantsWithinLimit'
  BY <1>6, Zenon DEF IInv, WindowsBegun, DedupeOutlivesWindow, GrantsWithinLimit, ledgerVars, netVars, wid
<1>9. LeasesEnd'
  <2>1. \A y \in Heap : held'[y].tokens > 0 => held'[y].expiresAt > 0
    BY <1>2, Zenon DEF IInv, LeasesEnd
  <2>2. ASSUME NEW y \in Reqs, req'[y].pc \in Pending
        PROVE  held'[<<y[1], req'[y].h>>].expiresAt > 0
    <3>1. CASE y = r
      <4>1. <<y[1], req'[y].h>> = x
        BY <1>3, <2>2, <3>1, Zenon DEF Pending, HasCell
      <4> QED BY <1>6, <4>1, Zenon
    <3>2. CASE y # r
      <4>1. req'[y] = req[y]
        BY <1>3, <3>2, Zenon
      <4>2. <<y[1], req[y].h>> \in Heap /\ held[<<y[1], req[y].h>>].expiresAt > 0
        BY <2>2, <4>1, Zenon DEF IInv, LeasesEnd, Pending
      <4> QED BY ONLY <1>6, <4>1, <4>2, Zenon
    <3> QED BY <3>1, <3>2, Zenon
  <2>3. \A e \in Edges : flight[e].pc = "adding" => held'[<<e, flight[e].h>>].expiresAt > 0
    BY <1>6, Zenon DEF IInv, LeasesEnd
  <2> QED BY <1>6, <2>1, <2>2, <2>3, Zenon DEF IInv, LeasesEnd, Pending, ledgerVars
<1>10. ASSUME NEW w \in Windows
       PROVE  Accounts(charged', held', flight', deduped', rets', used', w)
  <2>1. held \in HeapFn /\ held'[x].win = held[x].win
    BY <1>1, <1>2, Zenon DEF TypeOK, HeapFn
  <2>2. \A y \in Heap \ {x} : held'[y].win = held[y].win /\ held'[y].tokens = held[y].tokens
    BY <1>2, Zenon
  <2>3. HeldSum(held', w) =
          HeldSum(held, w) + (IF held[x].win = w THEN held'[x].tokens - held[x].tokens ELSE 0)
    BY ONLY <1>2, <2>1, <2>2, x \in Heap, HeldAt
  <2>4. held'[x].tokens - held[x].tokens = 0 - d
    BY <1>1, <1>2
  <2> DEFINE k == IF held[x].win = w THEN d ELSE 0
  <2>5. charged'[w] = charged[w] + k /\ charged[w] \in Int /\ k \in Int
    BY <1>1, <1>4 DEF TypeOK
  <2>6. Accounts(charged, held, flight, deduped, rets, used, w)
    BY BackedAccounts, Zenon DEF IInv
  <2>7. HeldSum(held, w) \in Nat /\ FlyingSum(flight, w) \in Nat
        /\ ReturningSum(deduped, rets, w) \in Nat
    BY <1>1, HeldNat, FlyingNat, ReturningNat, Zenon DEF TypeOK, HeapFn, FlightFn, RetFn
  <2>8. UNCHANGED <<used, deduped, rets, flight>> /\ used[w] \in Nat
    BY <1>1, Zenon DEF ledgerVars, netVars, TypeOK, LedgerTypeOK
  <2>9. HeldSum(held', w) = HeldSum(held, w) - k
    BY ONLY <2>3, <2>4, <2>7, d \in Int
  <2> HIDE DEF k
  <2> QED BY ONLY <2>5, <2>6, <2>7, <2>8, <2>9 DEF Accounts
<1>11. ASSUME NEW w \in Windows
       PROVE  PendingSum(req', held', w) <= charged'[w]
  <2>1. \A y \in Reqs \ {r} : PendingOf(req', held', y, w) = PendingOf(req, held, y, w)
    BY <1>3, <1>6 DEF PendingOf, Pending
  <2>2. PendingSum(req', held', w) = PendingSum(req, held, w)
           + (PendingOf(req', held', r, w) - PendingOf(req, held, r, w))
    <3>1. req \in ReqFn
      BY <1>1, Zenon DEF TypeOK, ReqFn
    <3> QED BY ONLY <1>3, <2>1, <3>1, r \in Reqs, PendingAt
  <2>3. PendingSum(req, held, w) \in Nat /\ PendingSum(req, held, w) <= charged[w]
    BY <1>1, PendingNat, BackedAccounts, Zenon DEF TypeOK, ReqFn, IInv
  <2> DEFINE k == IF held[x].win = w THEN d ELSE 0
  <2>4. charged[w] \in Int /\ charged'[w] = charged[w] + k /\ k \in Int
    BY <1>1, <1>4 DEF TypeOK
  <2>5. PendingOf(req', held', r, w) - PendingOf(req, held, r, w) = k
    BY Zenon
  <2> HIDE DEF k
  <2> QED BY ONLY <2>2, <2>3, <2>4, <2>5
<1> QED BY <1>5, <1>7, <1>8, <1>9, <1>10, <1>11, BackedAccounts, Zenon DEF IInv

\* take moves tokens from the cell to the charges of its window.
LEMMA SpendInv ==
  ASSUME IInv, NEW r \in Reqs, Spend(r)
  PROVE  IInv'
<1> USE Basics, PointedCells
<1> DEFINE x == <<r[1], req[r].h>>
           cost == req[r].cost
           win == held[x].win
<1>1. /\ x \in Heap /\ req[r].h \in Cells /\ held[x] \in CellRec /\ win \in Windows
      /\ cost \in Costs /\ cost \in Nat \ {0} /\ TypeOK
  BY Zenon DEF Spend, HasCell, CellRec, IInv, PointersValid
<1>2. CASE ~(held[x].tokens >= cost)
  <2>1. Miss(r) /\ held' = held /\ charged' = charged
    BY <1>2, Zenon DEF Spend
  <2>2. held' \in HeapFn /\ \A y \in Heap : Kept(y)
    BY <2>1, <1>1, KeptSame, Zenon DEF TypeOK, HeapFn
  <2> QED BY <2>1, <2>2, MissStep, Zenon DEF Spend
<1>3. CASE held[x].tokens >= cost
  <2> DEFINE c == [held[x] EXCEPT !.tokens = held[x].tokens - cost]
             q == [Idle EXCEPT !.pc = "count", !.h = req[r].h, !.cost = cost]
  <2>1. /\ held' = [held EXCEPT ![x] = c]
        /\ charged' = [charged EXCEPT ![win] = charged[win] + cost]
        /\ req' = [req EXCEPT ![r] = q]
        /\ UNCHANGED <<ledgerVars, cur, resetAt, retryAt, renewing, backoffUntil, netVars, flight>>
    BY <1>3, <1>1, Zenon DEF Spend, TypeOK
  <2>2. /\ c \in CellRec /\ c.win = win /\ c.tokens = held[x].tokens - cost
        /\ c.expiresAt = held[x].expiresAt
    <3>1. held[x].tokens - cost \in Nat
      BY <1>1, <1>3 DEF CellRec
    <3> QED BY <1>1, <3>1, Zenon DEF CellRec
  <2>3. q \in ReqRec /\ q.pc = "count" /\ q.h = req[r].h /\ q.cost = cost
    BY <1>1, Zenon DEF Idle, ReqRec
  <2>4. held[x].expiresAt > 0 /\ <<r[1], q.h>> = x
    BY <1>1, <1>3, <2>3 DEF IInv, LeasesEnd, CellRec
  <2> HIDE DEF c, q
  <2>5. held'[x].win = win /\ req'[r] = q
    BY <1>1, <2>1, <2>2, Zenon DEF TypeOK
  <2>6. \A w \in Windows : PendingOf(req', held', r, w) - PendingOf(req, held, r, w)
                             = IF win = w THEN cost ELSE 0
    BY <1>1, <2>3, <2>4, <2>5 DEF PendingOf, Spend
  <2> HIDE DEF x
  <2> HIDE DEF win, cost
  <2>7. cost \in Int
    BY <1>1
  <2> QED BY ONLY IInv, r \in Reqs, <1>1, <2>1, <2>2, <2>3, <2>4, <2>6, <2>7, ChargeStep, Zenon DEF win
<1> QED BY <1>2, <1>3, Zenon

\* adjust moves a charge back to the cell while the cell is current.
LEMMA RefundInv ==
  ASSUME IInv, NEW r \in Reqs, Refund(r)
  PROVE  IInv'
<1> USE Basics, PointedCells
<1> DEFINE x == <<r[1], req[r].h>>
           cost == req[r].cost
           win == held[x].win
<1>1. /\ x \in Heap /\ held[x] \in CellRec /\ win \in Windows
      /\ cost \in Nat \ {0} /\ TypeOK /\ held[x].expiresAt > 0
  BY Zenon DEF Refund, HasCell, CellRec, IInv, PointersValid, LeasesEnd
<1>2. CASE cur[r[1]] # req[r].h
  <2>1. resetAt' \in [Edges -> Nat] /\ retryAt' \in [Edges -> Nat]
    BY Zenon DEF Refund, IInv, TypeOK
  <2>2. UNCHANGED <<ledgerVars, cur, held, renewing, backoffUntil, flight, netVars, charged>>
    BY <1>2, Zenon DEF Refund
  <2> QED BY <2>1, <2>2, RequestStep, IdleReq, Zenon DEF Refund, Pending, HasCell
<1>3. CASE cur[r[1]] = req[r].h
  <2> DEFINE c == [held[x] EXCEPT !.tokens = held[x].tokens + cost,
                                  !.consumed = held[x].consumed - cost]
  <2>1. /\ held' = [held EXCEPT ![x] = c]
        /\ charged' = [charged EXCEPT ![win] = charged[win] - cost]
        /\ req' = [req EXCEPT ![r] = Idle]
        /\ UNCHANGED <<ledgerVars, cur, resetAt, retryAt, renewing, backoffUntil, netVars, flight>>
    BY <1>3, <1>1, Zenon DEF Refund, TypeOK
  <2>2. /\ c \in CellRec /\ c.win = win /\ c.tokens = held[x].tokens + cost
        /\ c.expiresAt = held[x].expiresAt
    <3>1. held[x].tokens + cost \in Nat /\ held[x].consumed - cost \in Int
      BY <1>1 DEF CellRec
    <3> QED BY <1>1, <3>1, Zenon DEF CellRec
  <2> HIDE DEF c
  <2>3. c.tokens = held[x].tokens - (0 - cost) /\ charged[win] - cost = charged[win] + (0 - cost)
        /\ 0 - cost \in Int
    BY <1>1, <2>2 DEF CellRec, TypeOK
  <2>4. req'[r] = Idle
    BY <2>1, <1>1, Zenon DEF TypeOK
  <2>5. \A w \in Windows : PendingOf(req', held', r, w) - PendingOf(req, held, r, w)
                             = IF win = w THEN 0 - cost ELSE 0
    BY <1>1, <2>4, IdleReq DEF PendingOf, Refund
  <2> HIDE DEF x
  <2> QED BY <1>1, <2>1, <2>2, <2>3, <2>5, ChargeStep, IdleReq, Zenon DEF HasCell
<1> QED BY <1>2, <1>3, Zenon

-----------------------------------------------------------------------------
\* Emptying one cell takes its tokens off the sum, whatever else is emptied.
LEMMA HeldEmptied ==
  ASSUME NEW h \in HeapFn, NEW k \in HeapFn, NEW w, NEW x \in Heap, k[x].tokens = 0,
         \A y \in Heap : \/ k[y].tokens = 0
                         \/ k[y].win = h[y].win /\ k[y].tokens <= h[y].tokens
  PROVE  HeldSum(k, w) <= HeldSum(h, w) - (IF h[x].win = w THEN h[x].tokens ELSE 0)
<1> DEFINE c == [h[x] EXCEPT !.tokens = 0]
           m == [h EXCEPT ![x] = c]
<1>1. h[x] \in CellRec
  BY Zenon DEF HeapFn
<1>2. c \in CellRec /\ c.win = h[x].win /\ c.tokens = 0
  BY <1>1, Zenon DEF CellRec
<1> HIDE DEF c
<1>3. m \in HeapFn /\ m[x] = c /\ \A y \in Heap \ {x} : m[y] = h[y]
  BY <1>2, Zenon DEF HeapFn
<1> HIDE DEF m
<1>4. HeldSum(m, w) = HeldSum(h, w) + (IF h[x].win = w THEN m[x].tokens - h[x].tokens ELSE 0)
  <2>1. m[x].win = h[x].win
    BY <1>2, <1>3, Zenon
  <2>2. \A y \in Heap \ {x} : m[y].win = h[y].win /\ m[y].tokens = h[y].tokens
    BY <1>3, Zenon
  <2> QED BY ONLY <1>3, <2>1, <2>2, h \in HeapFn, x \in Heap, HeldAt
<1>5. HeldSum(k, w) <= HeldSum(m, w)
  <2>1. \A y \in Heap : \/ k[y].tokens = 0
                        \/ k[y].win = m[y].win /\ k[y].tokens <= m[y].tokens
    BY <1>3, Zenon
  <2> QED BY ONLY <1>3, <2>1, k \in HeapFn, HeldLess, Zenon
<1>6. HeldSum(h, w) \in Nat /\ HeldSum(k, w) \in Nat /\ HeldSum(m, w) \in Nat
  BY <1>3, HeldNat, Zenon
<1>7. m[x].tokens = 0 /\ h[x].tokens \in Nat
  BY <1>1, <1>2, <1>3, Zenon DEF CellRec
<1> QED BY ONLY <1>4, <1>5, <1>6, <1>7

\* giveBack sends no more than the current cell held, under a fresh id.
LEMMA SendFacts ==
  ASSUME IInv, NEW e \in Edges, SendReturn(e), UNCHANGED ledgerVars
  PROVE  /\ rets' \in RetFn /\ seq' \in [Edges -> Nat] /\ DedupeOutlivesWindow'
         /\ \A i \in ReturnIds : rets'[i].win <= wid
         /\ \A w \in Windows : ReturningSum(deduped', rets', w) <= ReturningSum(deduped, rets, w)
              + (IF held[<<e, cur[e]>>].win = w THEN held[<<e, cur[e]>>].tokens ELSE 0)
<1> USE Basics, PointedCells
<1> DEFINE x == <<e, cur[e]>>
           n == Sendable(e)
           i == <<e, seq[e] + 1>>
           m == [win |-> held[x].win, tokens |-> n]
<1>1. /\ TypeOK /\ x \in Heap /\ held[x].tokens \in Nat /\ held[x].win \in Windows
      /\ held[x].win <= wid /\ deduped' = deduped /\ seq[e] \in Nat /\ rets \in RetFn
  BY Zenon DEF IInv, TypeOK, CellRec, WindowsBegun, ledgerVars, RetFn
<1>2. n \in Nat /\ n <= held[x].tokens
  BY <1>1 DEF Sendable
<1>3. \A w \in Windows : ReturningSum(deduped, rets, w) \in Nat
  BY <1>1, ReturningNat, Zenon
<1>4. CASE n = 0
  <2>1. rets' = rets /\ seq' = seq
    BY <1>4, Zenon DEF SendReturn
  <2>2. DedupeOutlivesWindow'
    BY <2>1, Zenon DEF IInv, DedupeOutlivesWindow, ledgerVars
  <2>3. \A w \in Windows : ReturningSum(deduped', rets', w) = ReturningSum(deduped, rets, w)
    BY ONLY <1>1, <2>1, Zenon
  <2>4. rets' \in RetFn /\ seq' \in [Edges -> Nat] /\ \A k \in ReturnIds : rets'[k].win <= wid
    BY <1>1, <2>1, Zenon DEF IInv, TypeOK, WindowsBegun
  <2> QED BY ONLY <1>1, <1>3, <2>2, <2>3, <2>4
<1>5. CASE n # 0
  <2>1. /\ seq[e] < MaxReturns /\ seq' = [seq EXCEPT ![e] = seq[e] + 1]
        /\ rets' = [rets EXCEPT ![i] = m]
    BY <1>5, Zenon DEF SendReturn
  <2>2. i \in ReturnIds /\ i[1] = e /\ i[2] = seq[e] + 1
    BY <1>1, <2>1, LedgerConstants DEF ReturnIds
  <2>3. m \in ReturnRec /\ m.win = held[x].win /\ m.tokens = n
    <3> HIDE DEF n, x
    <3> QED BY <1>1, <1>2, Zenon DEF ReturnRec
  <2>4. rets[i].tokens = 0 /\ deduped[i] = 0
    <3>1. i[2] > seq[i[1]]
      BY <1>1, <2>2
    <3> QED BY <2>2, <3>1, Zenon DEF IInv, DedupeOutlivesWindow
  <2> HIDE DEF i, m, n
  <2>5. rets' \in RetFn /\ rets'[i] = m /\ \A y \in ReturnIds \ {i} : rets'[y] = rets[y]
    BY <1>1, <2>1, <2>2, <2>3, Zenon DEF RetFn
  <2>6. /\ seq' \in [Edges -> Nat] /\ seq'[e] = seq[e] + 1
        /\ \A y \in Edges \ {e} : seq'[y] = seq[y]
    BY <1>1, <2>1 DEF TypeOK
  <2>7. DedupeOutlivesWindow'
    <3>1. ASSUME NEW y \in ReturnIds
          PROVE  /\ y[2] > seq'[y[1]] => rets'[y].tokens = 0 /\ deduped'[y] = 0
                 /\ deduped'[y] > 0 => rets'[y].win < WindowOf(deduped'[y], Window)
      <4>1. CASE y = i
        BY <1>1, <2>2, <2>4, <2>6, <4>1
      <4>2. CASE y # i
        <5>1. rets'[y] = rets[y] /\ deduped'[y] = deduped[y]
          BY <1>1, <2>5, <4>2, Zenon
        <5>2. y[2] > seq'[y[1]] => y[2] > seq[y[1]]
          BY <1>1, <2>6
        <5> QED BY <5>1, <5>2, Zenon DEF IInv, DedupeOutlivesWindow
      <4> QED BY <4>1, <4>2, Zenon
    <3> QED BY <3>1, Zenon DEF DedupeOutlivesWindow
  <2>8. \A y \in ReturnIds : rets'[y].win <= wid
    BY <1>1, <2>3, <2>5, Zenon DEF IInv, WindowsBegun
  <2>9. ASSUME NEW w \in Windows
        PROVE  ReturningSum(deduped', rets', w) <= ReturningSum(deduped, rets, w)
                 + (IF held[x].win = w THEN held[x].tokens ELSE 0)
    <3>1. ReturningSum(deduped', rets', w) = ReturningSum(deduped, rets, w)
            + (ReturningOf(deduped', rets', i, w) - ReturningOf(deduped, rets, i, w))
      <4>1. \A y \in ReturnIds \ {i} : deduped'[y] = deduped[y] /\ rets'[y] = rets[y]
        BY <1>1, <2>5, Zenon
      <4>2. i \in ReturnIds /\ rets \in RetFn /\ rets' \in RetFn
        BY <1>1, <2>2, <2>5, Zenon
      <4> QED BY ONLY <4>1, <4>2, ReturningAt
    <3>2. ReturningOf(deduped, rets, i, w) = 0
      BY <2>4, Zenon DEF ReturningOf
    <3>3. ReturningOf(deduped', rets', i, w) = IF held[x].win = w THEN n ELSE 0
      BY <1>1, <2>3, <2>4, <2>5, Zenon DEF ReturningOf
    <3>4. ReturningSum(deduped, rets, w) \in Nat
      BY <1>3, Zenon
    <3> HIDE DEF x
    <3> QED BY ONLY <1>1, <1>2, <3>1, <3>2, <3>3, <3>4
  <2> QED BY <2>5, <2>6, <2>7, <2>8, <2>9, Zenon
<1> QED BY <1>4, <1>5, Zenon

\* Tokens that leave the current cell of e for a return.
LEMMA GiveBack ==
  ASSUME IInv, NEW e \in Edges, SendReturn(e), UNCHANGED <<ledgerVars, flight>>,
         held' \in HeapFn, held'[<<e, cur[e]>>].tokens = 0,
         \A y \in Heap : \/ held'[y].tokens = 0
                         \/ held'[y].win = held[y].win /\ held'[y].tokens <= held[y].tokens
  PROVE  \A w \in Windows :
           HeldSum(held', w) + FlyingSum(flight', w) + ReturningSum(deduped', rets', w)
             <= HeldSum(held, w) + FlyingSum(flight, w) + ReturningSum(deduped, rets, w)
<1> USE Basics, PointedCells
<1> DEFINE x == <<e, cur[e]>>
           n(w) == IF held[x].win = w THEN held[x].tokens ELSE 0
<1> TAKE w \in Windows
<1>1. x \in Heap /\ held \in HeapFn /\ held[x].tokens \in Nat
  BY Zenon DEF IInv, TypeOK, HeapFn, CellRec
<1>2. HeldSum(held', w) <= HeldSum(held, w) - n(w)
  BY <1>1, HeldEmptied, Zenon
<1>3. ReturningSum(deduped', rets', w) <= ReturningSum(deduped, rets, w) + n(w) /\ rets' \in RetFn
  BY SendFacts, Zenon
<1>4. /\ HeldSum(held, w) \in Nat /\ FlyingSum(flight, w) \in Nat
      /\ ReturningSum(deduped, rets, w) \in Nat
      /\ HeldSum(held', w) \in Nat /\ ReturningSum(deduped', rets', w) \in Nat
  BY <1>1, <1>3, HeldNat, FlyingNat, ReturningNat, Zenon DEF IInv, TypeOK, HeapFn, FlightFn, RetFn
<1>5. n(w) \in Nat
  BY <1>1, Zenon
<1> HIDE DEF n
<1> QED BY <1>2, <1>3, <1>4, <1>5

\* Drain moves the current balance into a return.
LEMMA DrainInv ==
  ASSUME IInv, NEW e \in Edges, Drain(e)
  PROVE  IInv'
<1> USE Basics, PointedCells
<1> DEFINE x == <<e, cur[e]>>
           c == [held[x] EXCEPT !.tokens = 0]
<1>1. /\ SendReturn(e) /\ held' = [held EXCEPT ![x].tokens = 0]
      /\ UNCHANGED <<ledgerVars, cur, resetAt, retryAt, renewing, backoffUntil,
                     flight, req, strays, faults, charged>>
  BY Zenon DEF Drain
<1>2. x \in Heap /\ TypeOK /\ held[x] \in CellRec
  BY Zenon DEF IInv
<1>3. /\ held' \in HeapFn /\ held'[x].win = held[x].win /\ held'[x].expiresAt = held[x].expiresAt
      /\ held'[x].tokens = 0
      /\ \A y \in Heap \ {x} : held'[y] = held[y]
  <2>1. c \in CellRec /\ c.win = held[x].win /\ c.expiresAt = held[x].expiresAt /\ c.tokens = 0
    <3> HIDE DEF x
    <3> QED BY <1>2, Zenon DEF CellRec
  <2>2. held' = [held EXCEPT ![x] = c]
    BY <1>1, Zenon
  <2> HIDE DEF c, x
  <2> QED BY <1>2, <2>1, <2>2, Zenon DEF TypeOK, HeapFn
<1>4. /\ rets' \in RetFn /\ seq' \in [Edges -> Nat] /\ DedupeOutlivesWindow'
      /\ \A i \in ReturnIds : rets'[i].win <= wid
  BY <1>1, SendFacts, Zenon
<1>5. TypeOK'
  BY <1>1, <1>2, <1>3, <1>4, Zenon DEF TypeOK, LedgerTypeOK, ledgerVars, HeapFn, RetFn
<1>6. \A y \in Heap : Same(y) /\ (held'[y].tokens > 0 => held'[y].expiresAt > 0)
  BY <1>2, <1>3 DEF Same, IInv, LeasesEnd
<1>7. \A y \in Heap : \/ held'[y].tokens = 0
                      \/ held'[y].win = held[y].win /\ held'[y].tokens <= held[y].tokens
  BY <1>3 DEF CellRec
<1>8. \A w \in Windows :
        HeldSum(held', w) + FlyingSum(flight', w) + ReturningSum(deduped', rets', w)
          <= HeldSum(held, w) + FlyingSum(flight, w) + ReturningSum(deduped, rets, w)
  BY <1>1, <1>3, <1>7, GiveBack, Zenon
<1>9. Moves
  <2>1. ASSUME NEW y \in Reqs
        PROVE  /\ req[y].pc \in HasCell => req[y].h \in Cells
               /\ req[y].pc # "idle" => req[y].cost \in Costs
               /\ req[y].pc \in Pending => Same(<<y[1], req[y].h>>)
    BY <1>6, Zenon DEF IInv, PointersValid
  <2> QED BY <1>1, <1>4, <1>6, <1>8, <2>1, Zenon DEF Moves
<1> QED BY <1>4, <1>5, <1>9, MoveStep, Zenon

\* Run drops an idle counter and returns its balance.
LEMMA EvictInv ==
  ASSUME IInv, NEW e \in Edges, Evict(e)
  PROVE  IInv'
<1> USE Basics, PointedCells
<1>1. /\ SendReturn(e) /\ FreshCounter(e) /\ flight[e].pc = "idle"
      /\ \A s \in Slots : req[<<e, s>>].pc = "idle"
      /\ UNCHANGED <<ledgerVars, renewing, backoffUntil, flight, req, strays, faults, charged>>
  BY Zenon DEF Evict
<1>2. TypeOK
  BY Zenon DEF IInv
<1>3. /\ held' \in HeapFn
      /\ \A x \in Heap : IF x[1] = e THEN held'[x] = Fresh(0) ELSE held'[x] = held[x]
      /\ Fresh(0).tokens = 0
  BY <1>1, <1>2, FreshFacts, Zenon DEF FreshCounter, HeapFn
<1>4. /\ rets' \in RetFn /\ seq' \in [Edges -> Nat] /\ DedupeOutlivesWindow'
      /\ \A i \in ReturnIds : rets'[i].win <= wid
  BY <1>1, SendFacts, Zenon
<1>5. TypeOK'
  <2>1. cur' \in [Edges -> Cells] /\ resetAt' \in [Edges -> Nat] /\ retryAt' \in [Edges -> Nat]
    BY <1>1, <1>2, Zenon DEF FreshCounter, TypeOK
  <2> QED BY <1>1, <1>2, <1>3, <1>4, <2>1, Zenon DEF TypeOK, LedgerTypeOK, ledgerVars, HeapFn, RetFn
<1>6. \A y \in Heap : y[1] # e => Same(y) /\ (held'[y].tokens > 0 => held'[y].expiresAt > 0)
  BY <1>3, Zenon DEF Same, IInv, LeasesEnd
<1>7. \A y \in Heap : \/ held'[y].tokens = 0
                      \/ held'[y].win = held[y].win /\ held'[y].tokens <= held[y].tokens
  BY <1>3 DEF CellRec
<1>8. \A w \in Windows :
        HeldSum(held', w) + FlyingSum(flight', w) + ReturningSum(deduped', rets', w)
          <= HeldSum(held, w) + FlyingSum(flight, w) + ReturningSum(deduped, rets, w)
  <2>1. <<e, cur[e]>> \in Heap
    BY Zenon
  <2>2. held'[<<e, cur[e]>>].tokens = 0
    BY <1>3, <2>1, Zenon
  <2> QED BY <1>1, <1>3, <1>7, <2>2, GiveBack, Zenon
<1>9. Moves
  <2>1. ASSUME NEW y \in Reqs
        PROVE  /\ req[y].pc \in HasCell => req[y].h \in Cells
               /\ req[y].pc # "idle" => req[y].cost \in Costs
               /\ req[y].pc \in Pending => Same(<<y[1], req[y].h>>)
    <3>1. req[y].pc \in Pending => y[1] # e
      BY <1>1 DEF Reqs, Pending
    <3> QED BY <1>6, <3>1, Zenon DEF IInv, PointersValid
  <2>2. ASSUME NEW y \in Edges, flight[y].pc = "adding"
        PROVE  Same(<<y, flight[y].h>>)
    BY <1>1, <1>6, <2>2, Zenon
  <2> QED BY <1>1, <1>3, <1>4, <1>6, <1>8, <2>1, <2>2, Zenon DEF Moves
<1> QED BY <1>4, <1>5, <1>9, MoveStep, Zenon

-----------------------------------------------------------------------------
(***************************************************************************)
(* The steps of the ledger.                                                *)
(***************************************************************************)

\* The arithmetic of a grant: never more than there is.
LEMMA GrantSizeFacts ==
  ASSUME NEW a \in Nat \ {0}, NEW n \in Nat \ {0}, NEW target \in Nat, NEW limit \in Nat
  PROVE  /\ Capped(target, limit) \in Nat
         /\ GrantSize(a, n, target) \in Nat /\ GrantSize(a, n, target) <= a
<1>1. (limit * bankerCapPct) \div 100 \in Nat
  BY DEF bankerCapPct
<1>2. (a + n - 1) \div n \in Nat
  OBVIOUS
<1> HIDE DEF bankerCapPct
<1>3. Capped(target, limit) \in Nat
  BY <1>1, Zenon DEF Capped, MinOf, MaxOf
<1>4. GrantSize(a, n, target) \in Nat /\ GrantSize(a, n, target) <= a
  BY <1>2 DEF GrantSize, MinOf
<1> QED BY <1>3, <1>4, Zenon

\* What the ledger answers.
LEMMA AnswerFacts ==
  ASSUME TypeOK, GrantsWithinLimit, NEW a \in Answers
  PROVE  /\ a \in AnswerRec /\ a.win = wid
         /\ used[wid] + a.granted <= Limit
         /\ a.expires > 0 /\ now + a.expires = WindowEnd(wid, Window)
<1> USE Basics
<1>1. PICK target \in Targets, n \in 1 .. Cardinality(Edges) : a = GrantAnswer(target, n)
  BY DEF Answers
<1>2. target \in Nat /\ n \in Nat \ {0}
  <2>1. Cardinality(Edges) \in Nat
    BY LedgerConstants, FS_CardinalityType, Zenon
  <2> QED BY <2>1, LedgerConstants
<1>3. wid \in Windows /\ now \in Nat /\ now < WindowEnd(wid, Window) /\ used[wid] \in Nat
      /\ used[wid] <= Limit
  BY WidFacts, Zenon DEF TypeOK, LedgerTypeOK, GrantsWithinLimit
<1>4. WindowEnd(wid, Window) \in Nat
  <2>1. wid \in Nat
    BY <1>3, Zenon
  <2> QED BY <2>1 DEF WindowEnd
<1> DEFINE g == IF avail <= 0 THEN 0 ELSE GrantSize(avail, n, Capped(target, Limit))
           reset == WindowEnd(wid, Window) - now
           retry == IF avail <= 0 THEN MinOf(RetryFloor, reset) ELSE 0
<1>5. g \in Nat /\ used[wid] + g <= Limit
  <2>1. avail \in Nat /\ avail = Limit - used[wid]
    BY <1>3 DEF avail
  <2>2. CASE avail <= 0
    BY <1>3, <2>2
  <2>3. CASE ~(avail <= 0)
    <3>1. Capped(target, Limit) \in Nat
      BY <1>2, <2>1, <2>3, GrantSizeFacts, Zenon
    <3>2. GrantSize(avail, n, Capped(target, Limit)) \in Nat
          /\ GrantSize(avail, n, Capped(target, Limit)) <= avail
      <4>1. avail \in Nat \ {0}
        BY <2>1, <2>3
      <4> QED BY ONLY <1>2, <3>1, <4>1, GrantSizeFacts, Basics, Zenon
    <3> QED BY <1>3, <2>1, <2>3, <3>2
  <2> QED BY <2>2, <2>3, Zenon
<1>6. reset \in Nat /\ reset > 0 /\ now + reset = WindowEnd(wid, Window)
  BY <1>3, <1>4
<1>7. retry \in Nat
  BY <1>6, LedgerConstants, Zenon DEF MinOf
<1>8. a = [granted |-> g, win |-> wid, expires |-> reset, reset |-> reset, retry |-> retry]
  BY <1>1, Zenon DEF GrantAnswer
<1> HIDE DEF g, reset, retry
<1> QED BY <1>3, <1>5, <1>6, <1>7, <1>8, Zenon DEF AnswerRec

\* The counter after a grant.
LEMMA UsedFacts ==
  ASSUME TypeOK, GrantsWithinLimit, NEW a \in Answers, Grant(a)
  PROVE  /\ used' \in [Windows -> Nat] /\ GrantsWithinLimit'
         /\ used'[wid] = used[wid] + a.granted
         /\ \A w \in Windows \ {wid} : used'[w] = used[w]
         /\ now' = now /\ deduped' = deduped /\ wid' = wid
<1> USE Basics
<1>1. a.granted \in Nat /\ used[wid] + a.granted <= Limit /\ wid \in Windows
  BY AnswerFacts, WidFacts, Zenon DEF AnswerRec
<1>2. used' = [used EXCEPT ![wid] = used[wid] + a.granted] /\ now' = now /\ deduped' = deduped
  BY Zenon DEF Grant
<1>3. used \in [Windows -> Nat]
  BY Zenon DEF TypeOK, LedgerTypeOK
<1>4. used[wid] + a.granted \in Nat
  BY <1>1, <1>3
<1>5. /\ used' \in [Windows -> Nat] /\ used'[wid] = used[wid] + a.granted
      /\ \A w \in Windows \ {wid} : used'[w] = used[w]
  BY <1>1, <1>2, <1>3, <1>4, Zenon
<1>6. wid' = wid
  BY <1>2, Zenon DEF wid
<1>7. GrantsWithinLimit'
  BY <1>1, <1>5, Zenon DEF GrantsWithinLimit
<1> QED BY <1>2, <1>5, <1>6, <1>7, Zenon

\* The hub answers a call: the tokens leave the window's budget and are on
\* their way.
LEMMA HubGrantInv ==
  ASSUME IInv, NEW e \in Edges, HubGrant(e)
  PROVE  IInv'
<1> USE Basics, PointedCells
<1>1. PICK a \in Answers :
        Grant(a) /\ flight' = [flight EXCEPT ![e].pc = "answered", ![e].resp = a]
  BY Zenon DEF HubGrant
<1>2. TypeOK /\ GrantsWithinLimit /\ flight[e].pc = "sent" /\ flight[e].sent <= now
      /\ flight[e].sent \in Nat /\ now \in Nat
  BY WidFacts, Zenon DEF HubGrant, IInv, FlightRec
<1>3. /\ a \in AnswerRec /\ a.win = wid /\ a.granted \in Nat
      /\ a.expires > 0 /\ now + a.expires = WindowEnd(wid, Window) /\ a.expires \in Nat
  BY <1>2, AnswerFacts, Zenon DEF AnswerRec
<1>4. /\ used' \in [Windows -> Nat] /\ GrantsWithinLimit'
      /\ used'[wid] = used[wid] + a.granted
      /\ \A w \in Windows \ {wid} : used'[w] = used[w]
      /\ now' = now /\ deduped' = deduped /\ wid' = wid
  BY <1>1, <1>2, UsedFacts, Zenon
<1>5. /\ flight' \in FlightFn /\ \A y \in Edges \ {e} : flight'[y] = flight[y]
      /\ flight'[e].pc = "answered" /\ flight'[e].resp = a
      /\ flight'[e].sent = flight[e].sent
  <2>1. flight \in [Edges -> FlightRec]
    BY <1>2, Zenon DEF TypeOK
  <2>2. [flight[e] EXCEPT !.pc = "answered", !.resp = a] \in FlightRec
    BY <1>3, <2>1, Zenon DEF FlightRec
  <2> QED BY <1>1, <2>1, <2>2, Zenon DEF FlightFn, FlightRec
<1>6. /\ UNCHANGED <<leaseVars, req, rets, seq, charged>>
      /\ strays' \in [Edges -> Nat] /\ faults' \in [Edges -> Nat]
  BY <1>2 DEF HubGrant, TypeOK, Fault
<1>7. TypeOK'
  BY <1>2, <1>4, <1>5, <1>6, Zenon DEF TypeOK, LedgerTypeOK, leaseVars, FlightFn
<1>8. PointersValid'
  BY <1>5, <1>6, Zenon DEF IInv, PointersValid, leaseVars
<1>9. WindowsBegun' /\ DedupeOutlivesWindow'
  <2>1. wid \in Nat /\ a.win <= wid
    BY <1>2, <1>3, WidFacts
  <2> QED BY <1>3, <1>4, <1>5, <1>6, <2>1, Zenon DEF IInv, WindowsBegun, DedupeOutlivesWindow, leaseVars
<1>10. LeasesEnd'
  <2>1. flight'[e].sent <= now' /\ flight'[e].resp.expires > 0
        /\ flight'[e].sent + flight'[e].resp.expires <= WindowEnd(flight'[e].resp.win, Window)
    BY <1>2, <1>3, <1>4, <1>5
  <2> QED BY <1>4, <1>5, <1>6, <2>1, Zenon DEF IInv, LeasesEnd, leaseVars
<1>11. ASSUME NEW w \in Windows
       PROVE  Accounts(charged', held', flight', deduped', rets', used', w)
  <2> DEFINE g == IF wid = w THEN a.granted ELSE 0
  <2>1. FlyingSum(flight', w) = FlyingSum(flight, w)
                                + (FlyingOf(flight', e, w) - FlyingOf(flight, e, w))
    <3>1. flight \in FlightFn
      BY <1>2, Zenon DEF TypeOK, FlightFn
    <3> QED BY ONLY <1>5, <3>1, e \in Edges, FlyingAt, Zenon
  <2>2. FlyingOf(flight', e, w) = g /\ FlyingOf(flight, e, w) = 0 /\ g \in Nat
    BY <1>2, <1>3, <1>5, Zenon DEF FlyingOf
  <2>3. used'[w] = used[w] + g /\ used[w] \in Nat /\ charged[w] \in Int
    BY <1>2, <1>4 DEF TypeOK, LedgerTypeOK
  <2>4. Accounts(charged, held, flight, deduped, rets, used, w)
    BY BackedAccounts, Zenon DEF IInv
  <2>5. HeldSum(held, w) \in Nat /\ FlyingSum(flight, w) \in Nat
        /\ ReturningSum(deduped, rets, w) \in Nat
    BY <1>2, HeldNat, FlyingNat, ReturningNat, Zenon DEF TypeOK, HeapFn, FlightFn, RetFn
  <2>6. charged' = charged /\ held' = held /\ deduped' = deduped /\ rets' = rets
    BY <1>4, <1>6, Zenon DEF leaseVars
  <2> HIDE DEF g
  <2>7. charged[w] + (HeldSum(held, w) + FlyingSum(flight, w) + ReturningSum(deduped, rets, w))
          <= used[w]
    BY ONLY <2>4, Zenon DEF Accounts
  <2>8. /\ charged'[w] = charged[w] /\ HeldSum(held', w) = HeldSum(held, w)
        /\ ReturningSum(deduped', rets', w) = ReturningSum(deduped, rets, w)
    BY ONLY <2>6, Zenon
  <2>9. FlyingSum(flight', w) = FlyingSum(flight, w) + g
    BY ONLY <2>1, <2>2, <2>5
  <2> QED BY ONLY <2>2, <2>3, <2>5, <2>7, <2>8, <2>9 DEF Accounts
<1>12. RefundsCovered'
  BY <1>6, Zenon DEF IInv, RefundsCovered, leaseVars
<1> QED BY <1>4, <1>7, <1>8, <1>9, <1>10, <1>11, <1>12, BackedAccounts, Zenon DEF IInv

\* The hub runs a call nobody waits for: its tokens are lost, not spent.
LEMMA HubStrayInv ==
  ASSUME IInv, NEW e \in Edges, HubStray(e)
  PROVE  IInv'
<1> USE Basics
<1>1. PICK a \in Answers : Grant(a)
  BY Zenon DEF HubStray
<1>2. TypeOK /\ GrantsWithinLimit
  BY Zenon DEF IInv
<1>3. /\ used' \in [Windows -> Nat] /\ GrantsWithinLimit'
      /\ used'[wid] = used[wid] + a.granted
      /\ \A w \in Windows \ {wid} : used'[w] = used[w]
      /\ now' = now /\ deduped' = deduped /\ wid' = wid
  BY <1>1, <1>2, UsedFacts, Zenon
<1>4. a.granted \in Nat
  BY <1>2, AnswerFacts, Zenon DEF AnswerRec
<1>5. /\ UNCHANGED <<leaseVars, flight, req, rets, seq, faults, charged>>
      /\ strays' \in [Edges -> Nat]
  <2>1. strays[e] \in Nat /\ strays[e] > 0
    BY <1>2, Zenon DEF HubStray, TypeOK
  <2>2. strays[e] - 1 \in Nat
    BY <2>1
  <2> QED BY <1>2, <2>2, Zenon DEF HubStray, TypeOK
<1>6. TypeOK'
  BY <1>2, <1>3, <1>5, Zenon DEF TypeOK, LedgerTypeOK, leaseVars
<1>7. PointersValid' /\ WindowsBegun' /\ DedupeOutlivesWindow' /\ LeasesEnd' /\ RefundsCovered'
  BY <1>3, <1>5, Zenon DEF IInv, PointersValid, WindowsBegun, DedupeOutlivesWindow, LeasesEnd,
                    RefundsCovered, leaseVars
<1>8. ASSUME NEW w \in Windows
      PROVE  Accounts(charged', held', flight', deduped', rets', used', w)
  <2>1. used[w] <= used'[w] /\ used[w] \in Nat /\ used'[w] \in Nat
    <3>1. used[w] \in Nat /\ used'[w] \in Nat
      BY <1>2, <1>3, Zenon DEF TypeOK, LedgerTypeOK
    <3>2. used'[w] = used[w] + a.granted \/ used'[w] = used[w]
      BY ONLY <1>3, w \in Windows, Zenon
    <3> QED BY ONLY <1>4, <3>1, <3>2
  <2>2. Accounts(charged, held, flight, deduped, rets, used, w) /\ charged[w] \in Int
    BY <1>2, BackedAccounts, Zenon DEF IInv, TypeOK
  <2>3. HeldSum(held, w) \in Nat /\ FlyingSum(flight, w) \in Nat
        /\ ReturningSum(deduped, rets, w) \in Nat
    BY <1>2, HeldNat, FlyingNat, ReturningNat, Zenon DEF TypeOK, HeapFn, FlightFn, RetFn
  <2>4. charged' = charged /\ held' = held /\ flight' = flight /\ deduped' = deduped /\ rets' = rets
    BY <1>3, <1>5, Zenon DEF leaseVars
  <2> QED BY ONLY <2>1, <2>2, <2>3, <2>4 DEF Accounts
<1> QED BY <1>3, <1>6, <1>7, <1>8, BackedAccounts, Zenon DEF IInv

\* Time passes: windows only begin.
LEMMA TickInv ==
  ASSUME IInv, Tick, UNCHANGED <<leaseVars, netVars, flight, req, charged>>
  PROVE  IInv'
<1> USE Basics
<1>1. now \in Nat /\ now' \in Nat /\ now <= now' /\ now' <= MaxTime
      /\ used' = used /\ deduped' = deduped
  BY DEF Tick, IInv, TypeOK, LedgerTypeOK
<1>2. wid \in Nat /\ wid' \in Nat /\ wid <= wid'
  BY <1>1, WindowFacts, Zenon DEF wid
<1>3. TypeOK'
  BY <1>1 DEF IInv, TypeOK, LedgerTypeOK, leaseVars, netVars
<1>4. WindowsBegun'
  <2>1. \A x \in Heap : held[x].win \in Nat
    BY Zenon DEF IInv, TypeOK, CellRec
  <2>2. \A e \in Edges : flight[e].resp.win \in Nat
    BY Zenon DEF IInv, TypeOK, FlightRec, AnswerRec
  <2>3. \A i \in ReturnIds : rets[i].win \in Nat
    BY Zenon DEF IInv, TypeOK, ReturnRec
  <2> QED BY <1>2, <2>1, <2>2, <2>3 DEF IInv, WindowsBegun, leaseVars, netVars
<1>5. LeasesEnd'
  <2>1. \A e \in Edges : flight[e].sent \in Nat /\ flight[e].sent <= now
    BY PointedCells, Zenon DEF FlightRec
  <2>2. \A e \in Edges : flight[e].sent <= now'
    BY <1>1, <2>1
  <2> QED BY <2>2, Zenon DEF IInv, LeasesEnd, leaseVars
<1>6. PointersValid' /\ DedupeOutlivesWindow' /\ GrantsWithinLimit'
  BY <1>1, Zenon DEF IInv, PointersValid, DedupeOutlivesWindow, GrantsWithinLimit, leaseVars, netVars
<1>7. TokensBacked' /\ RefundsCovered'
  BY <1>1, BackedAccounts, Zenon DEF IInv, leaseVars, netVars
<1> QED BY <1>3, <1>4, <1>5, <1>6, <1>7, Zenon DEF IInv

\* Giving back no more than was taken is exact.
LEMMA CreditFacts ==
  ASSUME NEW u \in Nat, NEW t \in Nat
  PROVE  Credit(u, t) \in Nat /\ Credit(u, t) <= u /\ (t <= u => Credit(u, t) = u - t)
BY DEF Credit, MinOf

\* The hub applies a return: exactly, once, and only while its window lasts.
LEMMA HubReturnInv ==
  ASSUME IInv, NEW i \in ReturnIds, HubReturn(i)
  PROVE  IInv'
<1> USE Basics
<1> DEFINE win == rets[i].win
           tokens == rets[i].tokens
<1>1. /\ TypeOK /\ now \in Nat /\ wid \in Nat /\ wid \in Windows
      /\ win \in Windows /\ tokens \in Nat /\ tokens > 0 /\ win <= wid
  BY WidFacts, Zenon DEF IInv, HubReturn, TypeOK, ReturnRec, WindowsBegun
<1>2. UNCHANGED <<leaseVars, flight, req, netVars, charged>> /\ Return(i, win, tokens)
  BY Zenon DEF HubReturn
<1>3. CASE deduped[i] > now
  <2>1. UNCHANGED <<now, used, deduped>>
    BY <1>2, <1>3, Zenon DEF Return, ledgerVars
  <2>2. TypeOK' /\ WindowsBegun' /\ LeasesEnd' /\ PointersValid' /\ DedupeOutlivesWindow'
        /\ GrantsWithinLimit'
    BY <1>1, <1>2, <2>1, Zenon DEF IInv, TypeOK, LedgerTypeOK, WindowsBegun, LeasesEnd, PointersValid,
        DedupeOutlivesWindow, GrantsWithinLimit, leaseVars, netVars, wid
  <2>3. TokensBacked' /\ RefundsCovered'
    BY <1>2, <2>1, BackedAccounts, Zenon DEF IInv, leaseVars, netVars
  <2> QED BY <2>2, <2>3, Zenon DEF IInv
<1>4. CASE ~(deduped[i] > now)
  <2>1. /\ deduped' = [deduped EXCEPT ![i] = now + 2 * Window]
        /\ used' = IF win = wid THEN [used EXCEPT ![win] = Credit(used[win], tokens)] ELSE used
        /\ now' = now
    BY <1>1, <1>2, <1>4, Zenon DEF Return, TypeOK, LedgerTypeOK
  <2>2. /\ deduped' \in [ReturnIds -> Nat] /\ deduped'[i] = now + 2 * Window
        /\ \A y \in ReturnIds \ {i} : deduped'[y] = deduped[y]
        /\ now + 2 * Window \in Nat /\ now + 2 * Window > 0 /\ deduped[i] \in Nat
    <3>1. now + 2 * Window \in Nat /\ now + 2 * Window > 0
      BY <1>1
    <3> QED BY <1>1, <2>1, <3>1, Zenon DEF TypeOK, LedgerTypeOK
  <2>3. wid' = wid
    BY <2>1, Zenon DEF wid
  <2>4. ASSUME NEW w \in Windows
        PROVE  /\ used'[w] \in Nat /\ used'[w] <= used[w] /\ used[w] \in Nat
               /\ Accounts(charged', held', flight', deduped', rets', used', w)
    <3>1. Accounts(charged, held, flight, deduped, rets, used, w)
      BY BackedAccounts, Zenon DEF IInv
    <3>2. /\ HeldSum(held, w) \in Nat /\ FlyingSum(flight, w) \in Nat
          /\ ReturningSum(deduped, rets, w) \in Nat
          /\ ReturningOf(deduped, rets, i, w) <= ReturningSum(deduped, rets, w)
      BY <1>1, HeldNat, FlyingNat, ReturningNat, Zenon DEF TypeOK, HeapFn, FlightFn, RetFn
    <3>3. charged[w] \in Nat /\ used[w] \in Nat
      <4>1. PendingSum(req, held, w) \in Nat /\ PendingSum(req, held, w) <= charged[w]
        BY <1>1, PendingNat, BackedAccounts, Zenon DEF TypeOK, ReqFn, IInv
      <4> QED BY <1>1, <4>1 DEF TypeOK, LedgerTypeOK
    <3>4. ReturningSum(deduped', rets', w) = ReturningSum(deduped, rets, w)
            + (ReturningOf(deduped', rets', i, w) - ReturningOf(deduped, rets, i, w))
      <4>1. rets \in RetFn /\ rets' = rets
        BY <1>1, <1>2, Zenon DEF TypeOK, RetFn, netVars
      <4>2. \A y \in ReturnIds \ {i} : deduped'[y] = deduped[y] /\ rets'[y] = rets[y]
        BY <2>2, <4>1, Zenon
      <4> QED BY ONLY <4>1, <4>2, i \in ReturnIds, ReturningAt
    <3>5. ReturningOf(deduped', rets', i, w) = 0
      BY <2>2 DEF ReturningOf
    <3>6. UNCHANGED <<charged, held, flight>>
      BY <1>2, Zenon DEF leaseVars
    <3>7. CASE win # wid \/ w # wid
      <4>1. used'[w] = used[w]
        BY <2>1, <3>7, <1>1, Zenon DEF TypeOK, LedgerTypeOK
      <4>2. ReturningOf(deduped, rets, i, w) \in Nat
        BY <1>1, Zenon DEF ReturningOf
      <4> QED BY ONLY <3>1, <3>2, <3>3, <3>4, <3>5, <3>6, <4>1, <4>2 DEF Accounts
    <3>8. CASE win = wid /\ w = wid
      <4>1. deduped[i] = 0
        <5>1. SUFFICES ASSUME deduped[i] > 0 PROVE FALSE
          BY <2>2
        <5>2. win < WindowOf(deduped[i], Window)
          BY <5>1, Zenon DEF IInv, DedupeOutlivesWindow
        <5>3. WindowOf(deduped[i], Window) \in Nat /\ WindowOf(deduped[i], Window) <= wid
          <6>1. deduped[i] \in Nat /\ now >= deduped[i] /\ now \in Nat /\ Window \in Nat \ {0}
            BY <1>1, <1>4, <2>2
          <6> QED BY ONLY <6>1, WindowFacts, Zenon DEF wid
        <5> QED BY <1>1, <3>8, <5>2, <5>3
      <4>2. ReturningOf(deduped, rets, i, w) = tokens
        BY <4>1, <3>8, Zenon DEF ReturningOf
      <4>3. tokens <= used[w]
        BY ONLY <3>1, <3>2, <3>3, <4>2, <1>1 DEF Accounts
      <4>4. used'[w] = used[w] - tokens
        BY <1>1, <2>1, <3>3, <3>8, <4>3, CreditFacts, Zenon DEF TypeOK, LedgerTypeOK
      <4> HIDE DEF tokens
      <4> QED BY ONLY <3>1, <3>2, <3>3, <3>4, <3>5, <3>6, <4>2, <4>3, <4>4, <1>1 DEF Accounts
    <3> QED BY <3>7, <3>8, Zenon
  <2>5. used' \in [Windows -> Nat]
    <3>1. DOMAIN used' = Windows /\ used' = [w \in DOMAIN used' |-> used'[w]]
      BY <1>1, <2>1, Zenon DEF TypeOK, LedgerTypeOK
    <3> QED BY <2>4, <3>1, Zenon
  <2>6. TypeOK'
    BY <1>1, <1>2, <2>1, <2>2, <2>5, Zenon DEF TypeOK, LedgerTypeOK, leaseVars, netVars
  <2>7. WindowsBegun' /\ LeasesEnd' /\ PointersValid' /\ RefundsCovered'
    BY <1>2, <2>1, <2>3, Zenon DEF IInv, WindowsBegun, LeasesEnd, PointersValid, RefundsCovered,
        leaseVars, netVars
  <2>8. GrantsWithinLimit'
    BY <2>4 DEF IInv, GrantsWithinLimit
  <2>9. DedupeOutlivesWindow'
    <3>1. rets' = rets /\ seq' = seq
      BY <1>2, Zenon DEF netVars
    <3>2. win < WindowOf(now + 2 * Window, Window)
      <4>1. WindowOf(now + 2 * Window, Window) > wid /\ WindowOf(now + 2 * Window, Window) \in Nat
        BY <1>1, <2>2, WindowFacts, Zenon DEF wid
      <4> QED BY <1>1, <4>1
    <3>3. ~(i[2] > seq[i[1]])
      BY <1>1 DEF IInv, DedupeOutlivesWindow
    <3> QED BY <2>2, <3>1, <3>2, <3>3, Zenon DEF IInv, DedupeOutlivesWindow
  <2> QED BY <2>4, <2>6, <2>7, <2>8, <2>9, BackedAccounts, Zenon DEF IInv
<1> QED BY <1>3, <1>4, Zenon

-----------------------------------------------------------------------------
(***************************************************************************)
(* What an edge does with an answer, a failure or a crash.                 *)
(***************************************************************************)

\* The end of a call: those who waited go on, or give up.
LEMMA DeliverFacts ==
  ASSUME IInv, NEW e \in Edges, NEW n, Deliver(e, n)
  PROVE  /\ req' \in ReqFn /\ renewing' \in [Edges -> {"no", "start", "wait"}]
         /\ \A y \in Reqs : \/ req'[y] = req[y]
                            \/ /\ req'[y].pc \in {"got", "idle"}
                               /\ req'[y].pc # "idle" => req'[y].cost \in Costs
         /\ \A y \in Reqs : /\ req'[y].pc \in HasCell => req'[y].h \in Cells
                            /\ req'[y].pc # "idle" => req'[y].cost \in Costs
                            /\ req'[y].pc \in Pending => req'[y] = req[y]
<1> USE Basics, PointedCells
<1>1. ASSUME NEW y \in Reqs
      PROVE  /\ [req[y] EXCEPT !.pc = "got"] \in ReqRec
             /\ [req[y] EXCEPT !.pc = "got"].pc = "got"
             /\ [req[y] EXCEPT !.pc = "got"].cost = req[y].cost
  BY Zenon DEF ReqRec
<1>2. \A y \in Reqs : req[y].pc # "idle" => req[y].cost \in Costs
  BY Zenon DEF IInv, PointersValid
<1>3. req' \in ReqFn
  BY <1>1, IdleReq, Zenon DEF Deliver, ReqFn
<1>4. \A y \in Reqs : \/ req'[y] = req[y]
                      \/ /\ req'[y].pc \in {"got", "idle"}
                         /\ req'[y].pc # "idle" => req'[y].cost \in Costs
  BY <1>1, <1>2, IdleReq, Zenon DEF Deliver
<1>5. renewing' \in [Edges -> {"no", "start", "wait"}]
  BY Zenon DEF Deliver, IInv, TypeOK
<1>6. \A y \in Reqs : /\ req'[y].pc \in HasCell => req'[y].h \in Cells
                      /\ req'[y].pc # "idle" => req'[y].cost \in Costs
                      /\ req'[y].pc \in Pending => req'[y] = req[y]
  BY <1>4, Zenon DEF IInv, PointersValid, HasCell, Pending
<1> QED BY <1>3, <1>4, <1>5, <1>6, Zenon

\* The call of e is over.
LEMMA FlightEnds ==
  ASSUME IInv, NEW e \in Edges, flight' = [flight EXCEPT ![e] = NoFlight]
  PROVE  /\ flight' \in FlightFn
         /\ \A y \in Edges \ {e} : flight'[y] = flight[y]
         /\ flight'[e] = NoFlight /\ NoFlight.pc = "idle" /\ NoFlight.sent <= now
         /\ NoFlight.resp.win <= wid
<1> USE Basics
<1>1. NoFlight \in FlightRec /\ NoFlight.pc = "idle" /\ NoFlight.sent = 0 /\ NoFlight.resp.win = 0
  BY Zenon DEF NoFlight, FlightRec, NoAnswer, AnswerRec
<1>2. now \in Nat /\ wid \in Nat
  BY WidFacts, Zenon DEF IInv
<1>3. flight \in [Edges -> FlightRec]
  BY Zenon DEF IInv, TypeOK
<1> QED BY <1>1, <1>2, <1>3 DEF FlightFn

\* accept drops an answer from an older window.
LEMMA AcceptOldInv ==
  ASSUME IInv, NEW e \in Edges, AcceptOld(e)
  PROVE  IInv'
<1> USE Basics, PointedCells
<1>1. Deliver(e, 0) /\ flight' = [flight EXCEPT ![e] = NoFlight]
      /\ UNCHANGED <<ledgerVars, cur, held, resetAt, retryAt, backoffUntil, netVars, charged>>
  BY Zenon DEF AcceptOld
<1>2. TypeOK'
  BY <1>1, DeliverFacts, FlightEnds, Zenon DEF IInv, TypeOK, LedgerTypeOK, ledgerVars, netVars,
     ReqFn, FlightFn
<1>3. \A x \in Heap : Kept(x)
  BY <1>1, KeptSame, Zenon DEF IInv
<1>4. Quiet(0)
  BY <1>1, <1>3, DeliverFacts, FlightEnds, Zenon DEF Quiet, netVars
<1> QED BY <1>2, <1>4, QuietStep, FreshFacts DEF IInv

\* A call fails.
LEMMA FlightFailInv ==
  ASSUME IInv, NEW e \in Edges, FlightFail(e)
  PROVE  IInv'
<1> USE Basics, PointedCells
<1>1. Deliver(e, 0) /\ flight' = [flight EXCEPT ![e] = NoFlight]
      /\ UNCHANGED <<ledgerVars, cur, held, resetAt, retryAt, rets, seq, charged>>
  BY Zenon DEF FlightFail
<1>2. /\ strays' \in [Edges -> Nat] /\ faults' \in [Edges -> Nat]
      /\ backoffUntil' \in [Edges -> Nat]
  <2>1. now \in Nat /\ now + Backoff \in Nat
    BY DEF IInv, TypeOK, LedgerTypeOK
  <2>2. PICK until \in {backoffUntil[e], now + Backoff} :
          backoffUntil' = [backoffUntil EXCEPT ![e] = until]
    BY Zenon DEF FlightFail
  <2>3. backoffUntil' \in [Edges -> Nat]
    BY <2>1, <2>2, Zenon DEF IInv, TypeOK
  <2>4. faults' \in [Edges -> Nat] /\ strays' \in [Edges -> Nat]
    BY DEF FlightFail, Fault, Abandon, IInv, TypeOK
  <2> QED BY <2>3, <2>4, Zenon
<1>3. TypeOK'
  BY <1>1, <1>2, DeliverFacts, FlightEnds, Zenon DEF IInv, TypeOK, LedgerTypeOK, ledgerVars,
     ReqFn, FlightFn
<1>4. \A x \in Heap : Kept(x)
  BY <1>1, KeptSame, Zenon DEF IInv
<1>5. Quiet(0)
  BY <1>1, <1>4, DeliverFacts, FlightEnds, Zenon DEF Quiet
<1> QED BY <1>3, <1>5, QuietStep, FreshFacts DEF IInv

\* An edge crashes: its tokens are lost, not spent.
LEMMA CrashInv ==
  ASSUME IInv, NEW e \in Edges, Crash(e)
  PROVE  IInv'
<1> USE Basics, PointedCells
<1>1. /\ flight' = [flight EXCEPT ![e] = NoFlight] /\ FreshCounter(e)
      /\ req' = [r \in Reqs |-> IF r[1] = e THEN Idle ELSE req[r]]
      /\ UNCHANGED <<ledgerVars, rets, seq, charged>>
  BY Zenon DEF Crash
<1>2. /\ strays' \in [Edges -> Nat] /\ faults' \in [Edges -> Nat]
      /\ backoffUntil' \in [Edges -> Nat] /\ resetAt' \in [Edges -> Nat]
      /\ retryAt' \in [Edges -> Nat] /\ renewing' \in [Edges -> {"no", "start", "wait"}]
      /\ cur' \in [Edges -> Cells]
  BY DEF Crash, FreshCounter, Fault, Abandon, IInv, TypeOK
<1>3. /\ held' \in HeapFn
      /\ \A x \in Heap : IF x[1] = e THEN held'[x] = Fresh(0) ELSE held'[x] = held[x]
  BY <1>1, FreshFacts, Zenon DEF FreshCounter, HeapFn, IInv
<1>4. /\ req' \in ReqFn
      /\ \A y \in Reqs : IF y[1] = e THEN req'[y] = Idle ELSE req'[y] = req[y]
  BY <1>1, IdleReq, Zenon DEF ReqFn
<1>5. TypeOK'
  BY <1>1, <1>2, <1>3, <1>4, FlightEnds, Zenon DEF IInv, TypeOK, LedgerTypeOK, ledgerVars,
     ReqFn, FlightFn, HeapFn
<1>6. \A x \in Heap : x[1] # e => Kept(x)
  BY <1>3, KeptSame, Zenon DEF IInv
<1>7. ASSUME NEW y \in Reqs
      PROVE  /\ req'[y].pc \in HasCell => req'[y].h \in Cells
             /\ req'[y].pc # "idle" => req'[y].cost \in Costs
             /\ req'[y].pc \in Pending => req'[y] = req[y] /\ y[1] # e
  BY <1>4, IdleReq, Zenon DEF IInv, PointersValid, HasCell, Pending
<1>8. ASSUME NEW y \in Reqs, req'[y].pc \in Pending
      PROVE  Kept(<<y[1], req[y].h>>)
  <2>1. <<y[1], req[y].h>> \in Heap /\ y[1] # e
    BY <1>7, <1>8, Zenon
  <2> QED BY <2>1, <1>6, Zenon
<1>9. ASSUME NEW y \in Edges, y # e, flight[y].pc = "adding"
      PROVE  Kept(<<y, flight[y].h>>)
  <2>1. <<y, flight[y].h>> \in Heap
    BY <1>9, Zenon
  <2> QED BY <2>1, <1>6, <1>9, Zenon
<1>10. Quiet(0)
  BY <1>1, <1>3, <1>6, <1>7, <1>8, <1>9, FlightEnds, Zenon DEF Quiet
<1> QED BY <1>5, <1>10, QuietStep, FreshFacts DEF IInv

\* The heap and the current cell once an answer that is not old has found its
\* cell.
LEMMA AcceptCell ==
  ASSUME IInv, NEW e \in Edges, flight[e].pc = "answered",
         flight[e].resp.win >= held[<<e, cur[e]>>].win, Cells \ Pointed(e, Slots) # {}
  PROVE  /\ Cell1(e) \in Cells /\ Heap1(e) \in HeapFn
         /\ Heap1(e)[<<e, Cell1(e)>>].win = flight[e].resp.win
         /\ \A x \in Heap : Heap1(e)[x] = held[x] \/ Heap1(e)[x] \in {Fresh(0), Fresh(flight[e].resp.win)}
         /\ \A y \in Reqs : req[y].pc \in Pending =>
              Heap1(e)[<<y[1], req[y].h>>] = held[<<y[1], req[y].h>>]
         /\ \A y \in Edges : flight[y].pc = "adding" =>
              Heap1(e)[<<y, flight[y].h>>] = held[<<y, flight[y].h>>]
<1> USE Basics, PointedCells
<1> DEFINE w == flight[e].resp.win
<1>1. w \in Windows /\ TypeOK /\ w \in Nat
  BY Zenon DEF FlightRec, AnswerRec, IInv
<1>2. CASE ~Newer(e)
  <2>1. Heap1(e) = held /\ Cell1(e) = cur[e]
    BY <1>2, Zenon DEF Heap1, Cell1
  <2>2. held[<<e, cur[e]>>].win = w
    <3>1. held[<<e, cur[e]>>].win \in Nat
      BY Zenon DEF CellRec
    <3> QED BY <1>1, <1>2, <3>1 DEF Newer
  <2> QED BY <1>1, <2>1, <2>2, Zenon DEF TypeOK, HeapFn
<1>3. CASE Newer(e)
  <2>1. Heap1(e) = Installed(e, w, Slots) /\ Cell1(e) = NewCell(e)
    BY <1>3, Zenon DEF Heap1, Cell1
  <2>2. AfterInstall(Heap1(e), e, w, Slots)
    BY <1>1, <2>1, InstalledFacts, Zenon
  <2>3. ASSUME NEW y \in Reqs, req[y].pc \in Pending
        PROVE  Heap1(e)[<<y[1], req[y].h>>] = held[<<y[1], req[y].h>>]
    <3>1. <<y[1], req[y].h>> \in Heap /\ y = <<y[1], y[2]>> /\ y[2] \in Slots
      BY <2>3 DEF Reqs
    <3> QED BY <2>2, <3>1 DEF AfterInstall
  <2>4. ASSUME NEW y \in Edges, flight[y].pc = "adding"
        PROVE  Heap1(e)[<<y, flight[y].h>>] = held[<<y, flight[y].h>>]
    BY <2>2, <2>4, Zenon DEF AfterInstall
  <2>5. Fresh(w).win = w
    BY Zenon DEF Fresh
  <2> QED BY <2>1, <2>2, <2>3, <2>4, <2>5, Zenon DEF AfterInstall
<1> QED BY <1>2, <1>3, Zenon

\* accept notes when to ask again.
LEMMA AcceptWaitingInv ==
  ASSUME IInv, NEW e \in Edges, ~Stale(e), AcceptWaiting(e)
  PROVE  IInv'
<1> USE Basics, PointedCells
<1> DEFINE w == flight[e].resp.win
<1>1. /\ flight[e].pc = "answered" /\ w >= held[<<e, cur[e]>>].win
      /\ Cells \ Pointed(e, Slots) # {}
      /\ cur' = [cur EXCEPT ![e] = Cell1(e)] /\ held' = Heap1(e)
      /\ Deliver(e, 0) /\ flight' = [flight EXCEPT ![e] = NoFlight]
      /\ UNCHANGED <<ledgerVars, backoffUntil, netVars, charged>>
  BY NotStale, Zenon DEF AcceptWaiting
<1>2. w \in Windows /\ w <= wid /\ TypeOK /\ now \in Nat
  BY DEF FlightRec, AnswerRec, IInv, TypeOK, LedgerTypeOK
<1>3. resetAt' \in [Edges -> Nat]
  <2>1. flight[e].sent + flight[e].resp.reset \in Nat
    BY DEF FlightRec, AnswerRec
  <2> QED BY <1>2, <2>1, Zenon DEF AcceptWaiting, TypeOK, LifeFrom
<1>4. retryAt' \in [Edges -> Nat]
  <2> DEFINE half == flight[e].resp.retry \div 2
  <2>1. flight[e].resp.retry \in Nat /\ half \in Nat
    BY DEF FlightRec, AnswerRec
  <2>2. PICK d \in half .. (half + flight[e].resp.retry - 1) :
          retryAt' = [retryAt EXCEPT ![e] = now + d]
    BY Zenon DEF AcceptWaiting
  <2>3. now + d \in Nat
    BY <1>2, <2>1
  <2> QED BY <1>2, <2>2, <2>3, Zenon DEF TypeOK
<1>5. /\ Cell1(e) \in Cells /\ held' \in HeapFn
      /\ \A x \in Heap : held'[x] = held[x] \/ held'[x] \in {Fresh(0), Fresh(w)}
      /\ \A y \in Reqs : req[y].pc \in Pending =>
           held'[<<y[1], req[y].h>>] = held[<<y[1], req[y].h>>]
      /\ \A y \in Edges : flight[y].pc = "adding" =>
           held'[<<y, flight[y].h>>] = held[<<y, flight[y].h>>]
  BY <1>1, AcceptCell, Zenon
<1>6. cur' \in [Edges -> Cells]
  BY <1>1, <1>2, <1>5, Zenon DEF TypeOK
<1>7. TypeOK'
  BY <1>1, <1>2, <1>3, <1>4, <1>5, <1>6, DeliverFacts, FlightEnds, Zenon
     DEF TypeOK, LedgerTypeOK, ledgerVars, netVars, ReqFn, FlightFn, HeapFn
<1>8. /\ \A x \in Heap : Kept(x) \/ held'[x] \in {Fresh(0), Fresh(w)}
      /\ \A y \in Reqs : req[y].pc \in Pending => Kept(<<y[1], req[y].h>>)
      /\ \A y \in Edges : flight[y].pc = "adding" => Kept(<<y, flight[y].h>>)
  BY <1>2, <1>5, KeptSame, Zenon
<1> HIDE DEF w
<1>9. Quiet(w)
  <2>1. UNCHANGED <<ledgerVars, rets, seq, charged>>
    BY <1>1, Zenon DEF netVars
  <2>2. ASSUME NEW y \in Reqs
        PROVE  /\ req'[y].pc \in HasCell => req'[y].h \in Cells
               /\ req'[y].pc # "idle" => req'[y].cost \in Costs
               /\ req'[y].pc \in Pending => req'[y] = req[y]
    BY <1>1, DeliverFacts, Zenon
  <2>3. /\ \A y \in Edges \ {e} : flight'[y] = flight[y]
        /\ flight'[e].pc = "idle" /\ flight'[e].sent <= now /\ flight'[e].resp.win <= wid
    BY <1>1, FlightEnds, Zenon
  <2> QED BY <1>8, <2>1, <2>2, <2>3, Zenon DEF Quiet
<1> QED BY <1>2, <1>7, <1>9, QuietStep, Zenon

\* accept extends the lease, to no later than the end of its window.
LEMMA AcceptGrantInv ==
  ASSUME IInv, NEW e \in Edges, AcceptGrant(e)
  PROVE  IInv'
<1> USE Basics, PointedCells
<1> DEFINE resp == flight[e].resp
           w == resp.win
           x == <<e, Cell1(e)>>
           life == flight[e].sent + resp.expires
           c == [Heap1(e)[x] EXCEPT !.expiresAt = life]
<1>1. /\ flight[e].pc = "answered" /\ w >= held[<<e, cur[e]>>].win
      /\ Cells \ Pointed(e, Slots) # {}
      /\ cur' = [cur EXCEPT ![e] = Cell1(e)] /\ held' = [Heap1(e) EXCEPT ![x].expiresAt = life]
      /\ resetAt' = [resetAt EXCEPT ![e] = flight[e].sent + resp.reset]
      /\ flight' = [flight EXCEPT ![e].pc = "adding", ![e].h = Cell1(e)]
      /\ UNCHANGED <<ledgerVars, retryAt, renewing, backoffUntil, req, netVars, charged>>
  BY NotStale, Zenon DEF AcceptGrant, LifeFrom
<1>2. /\ w \in Windows /\ w <= wid /\ w \in Nat /\ wid \in Nat /\ TypeOK /\ life \in Nat /\ life > 0
      /\ life <= WindowEnd(w, Window) /\ flight[e].sent + resp.reset \in Nat
  <2>1. flight[e] \in FlightRec /\ w <= wid /\ TypeOK
    BY Zenon DEF IInv
  <2>2. /\ flight[e].sent \in Nat /\ resp.expires \in Nat /\ resp.reset \in Nat
        /\ w \in Windows /\ w \in Nat
    BY <2>1, Zenon DEF FlightRec, AnswerRec
  <2>3. resp.expires > 0 /\ life <= WindowEnd(w, Window)
    BY <1>1, Zenon DEF IInv, LeasesEnd
  <2>4. wid \in Nat
    BY <2>1, WidFacts, Zenon
  <2> QED BY <2>1, <2>2, <2>3, <2>4
<1>3. /\ Cell1(e) \in Cells /\ Heap1(e) \in HeapFn /\ Heap1(e)[x].win = w
      /\ \A y \in Heap : Heap1(e)[y] = held[y] \/ Heap1(e)[y] \in {Fresh(0), Fresh(w)}
      /\ \A y \in Reqs : req[y].pc \in Pending =>
           Heap1(e)[<<y[1], req[y].h>>] = held[<<y[1], req[y].h>>]
      /\ \A y \in Edges : flight[y].pc = "adding" =>
           Heap1(e)[<<y, flight[y].h>>] = held[<<y, flight[y].h>>]
  BY <1>1, AcceptCell, Zenon
<1>4. x \in Heap
  BY <1>3, Zenon
<1>5. /\ held' \in HeapFn /\ held'[x].win = w /\ held'[x].expiresAt = life
      /\ held'[x].tokens = Heap1(e)[x].tokens
      /\ \A y \in Heap \ {x} : held'[y] = Heap1(e)[y]
  <2>1. Heap1(e)[x] \in CellRec
    BY <1>3, <1>4, Zenon DEF HeapFn
  <2>2. c \in CellRec /\ c.win = w /\ c.expiresAt = life /\ c.tokens = Heap1(e)[x].tokens
    <3> HIDE DEF life
    <3> QED BY <1>2, <1>3, <2>1, Zenon DEF CellRec
  <2>3. held' = [Heap1(e) EXCEPT ![x] = c]
    BY <1>1, Zenon
  <2> HIDE DEF c, x
  <2> QED BY <1>3, <1>4, <2>2, <2>3, Zenon DEF HeapFn
<1>6. /\ flight' \in FlightFn /\ \A y \in Edges \ {e} : flight'[y] = flight[y]
      /\ flight'[e].pc = "adding" /\ flight'[e].h = Cell1(e) /\ flight'[e].resp = resp
      /\ flight'[e].sent = flight[e].sent
  <2>1. flight \in [Edges -> FlightRec]
    BY <1>2, Zenon DEF TypeOK
  <2>2. [flight[e] EXCEPT !.pc = "adding", !.h = Cell1(e)] \in FlightRec
    <3>1. Cell1(e) \in Cells /\ flight[e] \in FlightRec
      BY ONLY e \in Edges, <1>3, <2>1, Zenon
    <3> QED BY ONLY <3>1, Zenon DEF FlightRec
  <2> QED BY <1>1, <2>1, <2>2, Zenon DEF FlightFn, FlightRec
<1> HIDE DEF x, c, life, w
<1>7. TypeOK'
  <2>1. cur' \in [Edges -> Cells] /\ resetAt' \in [Edges -> Nat]
    BY <1>1, <1>2, <1>3, Zenon DEF TypeOK
  <2> QED BY <1>1, <1>2, <1>5, <1>6, <2>1, Zenon
        DEF TypeOK, LedgerTypeOK, ledgerVars, netVars, FlightFn, HeapFn
<1>8. ASSUME NEW y \in Heap
      PROVE  /\ held'[y].win <= wid
             /\ \/ held'[y].tokens = 0
                \/ held'[y].win = held[y].win /\ held'[y].tokens <= held[y].tokens
             /\ held'[y].expiresAt <= WindowEnd(held'[y].win, Window)
             /\ held'[y].tokens > 0 => held'[y].expiresAt > 0
  <2>1. held[y].tokens \in Nat
    BY Zenon DEF CellRec
  <2>2. CASE Heap1(e)[y] = held[y]
    <3>1. /\ held[y].win <= wid /\ held[y].expiresAt <= WindowEnd(held[y].win, Window)
          /\ held[y].tokens > 0 => held[y].expiresAt > 0
      BY Zenon DEF IInv, WindowsBegun, LeasesEnd
    <3>2. CASE y = x
      BY <1>2, <1>3, <1>5, <2>1, <2>2, <3>2
    <3>3. CASE y # x
      BY <1>5, <2>1, <2>2, <3>1, <3>3
    <3> QED BY <3>2, <3>3, Zenon
  <2>3. CASE Heap1(e)[y] \in {Fresh(0), Fresh(w)}
    BY <1>2, <1>5, <2>3, FreshFacts
  <2> QED BY <1>3, <2>2, <2>3, Zenon
<1>9. ASSUME NEW y \in Heap, Heap1(e)[y] = held[y]
      PROVE  /\ held'[y].win = held[y].win
             /\ held[y].expiresAt > 0 => held'[y].expiresAt > 0
  BY <1>2, <1>5, <1>9, <1>3, Zenon
<1>10. PointersValid'
  <2>1. \A y \in Edges \ {e} : flight[y].pc = "adding" =>
          held'[<<y, flight[y].h>>].win = held[<<y, flight[y].h>>].win
    BY <1>3, <1>9, Zenon
  <2>2. ASSUME NEW y \in Edges, flight'[y].pc = "adding"
        PROVE  flight'[y].h \in Cells /\ held'[<<y, flight'[y].h>>].win = flight'[y].resp.win
    <3>1. CASE y = e
      BY <1>3, <1>5, <1>6, <3>1, Zenon DEF x, w
    <3>2. CASE y # e
      BY <1>6, <2>1, <2>2, <3>2 DEF IInv, PointersValid
    <3> QED BY <3>1, <3>2, Zenon
  <2>3. req' = req
    BY <1>1, Zenon
  <2> QED BY <2>2, <2>3, Zenon DEF IInv, PointersValid
<1>11. WindowsBegun' /\ DedupeOutlivesWindow'
  <2>1. wid' = wid /\ deduped' = deduped
    BY <1>1, Zenon DEF ledgerVars, wid
  <2>2. \A y \in Edges : flight'[y].resp.win <= wid
    BY <1>6, <1>2, Zenon DEF w
  <2> QED BY <1>1, <1>8, <2>1, <2>2, Zenon DEF IInv, WindowsBegun, DedupeOutlivesWindow, netVars
<1>12. LeasesEnd'
  <2>1. \A y \in Reqs : req[y].pc \in Pending => held'[<<y[1], req[y].h>>].expiresAt > 0
    BY <1>3, <1>9, Zenon DEF IInv, LeasesEnd, Pending
  <2>2. ASSUME NEW y \in Edges \ {e}, flight[y].pc = "adding"
        PROVE  held'[<<y, flight[y].h>>].expiresAt > 0
    BY <1>3, <1>9, <2>2, Zenon DEF IInv, LeasesEnd
  <2>3. ASSUME NEW y \in Edges
        PROVE  /\ flight'[y].sent <= now'
               /\ flight'[y].pc = "adding" => held'[<<y, flight'[y].h>>].expiresAt > 0
               /\ flight'[y].pc \in {"answered", "adding"} =>
                    /\ flight'[y].resp.expires > 0
                    /\ flight'[y].sent + flight'[y].resp.expires
                         <= WindowEnd(flight'[y].resp.win, Window)
    <3>1. now' = now
      BY <1>1, Zenon DEF ledgerVars
    <3>2. CASE y = e
      <4>1. flight[e].sent <= now /\ resp.expires > 0
            /\ flight[e].sent + resp.expires <= WindowEnd(resp.win, Window)
        BY <1>1, Zenon DEF IInv, LeasesEnd
      <4>2. held'[<<e, flight'[e].h>>].expiresAt > 0
        BY <1>2, <1>5, <1>6, Zenon DEF x
      <4> QED BY ONLY <1>6, <3>1, <3>2, <4>1, <4>2, Zenon
    <3>3. CASE y # e
      BY <1>6, <2>2, <3>1, <3>3, Zenon DEF IInv, LeasesEnd
    <3> QED BY <3>2, <3>3, Zenon
  <2> QED BY <1>1, <1>8, <2>1, <2>3, Zenon DEF LeasesEnd, Pending
<1>13. Shrinks
  <2>1. \A y \in Edges : flight'[y].pc \in {"answered", "adding"} =>
          flight[y].pc \in {"answered", "adding"} /\ flight'[y].resp = flight[y].resp
    BY <1>1, <1>6, Zenon
  <2>2. \A y \in Reqs : req[y].pc \in Pending =>
          held'[<<y[1], req[y].h>>].win = held[<<y[1], req[y].h>>].win
    BY <1>3, <1>9, Zenon
  <2> QED BY <1>1, <1>8, <2>1, <2>2, Zenon DEF Shrinks, netVars
<1> QED BY <1>7, <1>10, <1>11, <1>12, <1>13, ShrinkingStep, Zenon DEF IInv

\* A grant's tokens move from the answer to the cell of its window.
LEMMA AcceptAddInv ==
  ASSUME IInv, NEW e \in Edges, AcceptAdd(e)
  PROVE  IInv'
<1> USE Basics, PointedCells
<1> DEFINE x == <<e, flight[e].h>>
           n == flight[e].resp.granted
           c == [held[x] EXCEPT !.tokens = held[x].tokens + n]
<1>1. /\ flight[e].pc = "adding" /\ held' = [held EXCEPT ![x].tokens = @ + n]
      /\ Deliver(e, n) /\ flight' = [flight EXCEPT ![e] = NoFlight]
      /\ UNCHANGED <<ledgerVars, cur, resetAt, retryAt, backoffUntil, netVars, charged>>
  BY Zenon DEF AcceptAdd
<1>2. /\ x \in Heap /\ n \in Nat /\ TypeOK /\ held[x].expiresAt > 0 /\ held[x].tokens \in Nat
      /\ held[x].win = flight[e].resp.win
  BY <1>1, Zenon DEF IInv, PointersValid, LeasesEnd, CellRec, FlightRec, AnswerRec
<1>3. /\ held' \in HeapFn /\ held'[x].win = held[x].win /\ held'[x].expiresAt = held[x].expiresAt
      /\ held'[x].tokens = held[x].tokens + n
      /\ \A y \in Heap \ {x} : held'[y] = held[y]
  <2>1. held[x] \in CellRec /\ held[x].tokens + n \in Nat
    BY <1>2
  <2>2. c \in CellRec /\ c.win = held[x].win /\ c.expiresAt = held[x].expiresAt
        /\ c.tokens = held[x].tokens + n
    <3> HIDE DEF x, n
    <3> QED BY <2>1, Zenon DEF CellRec
  <2>3. held' = [held EXCEPT ![x] = c]
    BY <1>1, Zenon
  <2> HIDE DEF c, x
  <2> QED BY <1>2, <2>2, <2>3, Zenon DEF TypeOK, HeapFn
<1>4. /\ req' \in ReqFn /\ renewing' \in [Edges -> {"no", "start", "wait"}]
      /\ \A y \in Reqs : /\ req'[y].pc \in HasCell => req'[y].h \in Cells
                         /\ req'[y].pc # "idle" => req'[y].cost \in Costs
                         /\ req'[y].pc \in Pending => req'[y] = req[y]
  BY <1>1, DeliverFacts, Zenon
<1>5. /\ flight' \in FlightFn /\ \A y \in Edges \ {e} : flight'[y] = flight[y]
      /\ flight'[e].pc = "idle" /\ flight'[e].sent <= now /\ flight'[e].resp.win <= wid
  BY <1>1, FlightEnds, Zenon
<1> HIDE DEF x, n, c
<1>6. TypeOK'
  BY <1>1, <1>2, <1>3, <1>4, <1>5, Zenon
     DEF TypeOK, LedgerTypeOK, ledgerVars, netVars, ReqFn, FlightFn, HeapFn
<1>7. DedupeOutlivesWindow'
  BY <1>1, Zenon DEF IInv, DedupeOutlivesWindow, ledgerVars, netVars
<1>8. \A y \in Heap : Same(y) /\ (held'[y].tokens > 0 => held'[y].expiresAt > 0)
  BY <1>2, <1>3, Zenon DEF Same, IInv, LeasesEnd
<1>9. ASSUME NEW w \in Windows
      PROVE  HeldSum(held', w) + FlyingSum(flight', w) + ReturningSum(deduped', rets', w)
               <= HeldSum(held, w) + FlyingSum(flight, w) + ReturningSum(deduped, rets, w)
  <2>1. held \in HeapFn /\ flight \in FlightFn
    BY <1>2, Zenon DEF TypeOK, HeapFn, FlightFn
  <2>2. \A y \in Heap \ {x} : held'[y].win = held[y].win /\ held'[y].tokens = held[y].tokens
    BY <1>3, Zenon
  <2>3. HeldSum(held', w) =
          HeldSum(held, w) + (IF held[x].win = w THEN held'[x].tokens - held[x].tokens ELSE 0)
    BY ONLY <1>2, <1>3, <2>1, <2>2, HeldAt
  <2>4. FlyingSum(flight', w) = FlyingSum(flight, w)
                                + (FlyingOf(flight', e, w) - FlyingOf(flight, e, w))
    BY ONLY <1>5, <2>1, e \in Edges, FlyingAt, Zenon
  <2>5. FlyingOf(flight', e, w) = 0 /\ FlyingOf(flight, e, w) = IF held[x].win = w THEN n ELSE 0
    BY <1>1, <1>2, <1>5, Zenon DEF FlyingOf, n
  <2>6. HeldSum(held, w) \in Nat /\ FlyingSum(flight, w) \in Nat
        /\ ReturningSum(deduped, rets, w) \in Nat
    BY <1>2, HeldNat, FlyingNat, ReturningNat, Zenon DEF TypeOK, HeapFn, FlightFn, RetFn
  <2>7. deduped' = deduped /\ rets' = rets /\ held'[x].tokens - held[x].tokens = n
    BY <1>1, <1>2, <1>3 DEF ledgerVars, netVars
  <2>8. n \in Nat /\ ReturningSum(deduped', rets', w) = ReturningSum(deduped, rets, w)
    BY <1>2, <2>7, Zenon
  <2>9. CASE held[x].win = w
    BY ONLY <2>3, <2>4, <2>5, <2>6, <2>7, <2>8, <2>9
  <2>10. CASE held[x].win # w
    BY ONLY <2>3, <2>4, <2>5, <2>6, <2>8, <2>10
  <2> QED BY <2>9, <2>10, Zenon
<1>10. \A i \in ReturnIds : rets'[i].win <= wid
  BY <1>1, Zenon DEF netVars, IInv, WindowsBegun
<1>11. Moves
  BY <1>1, <1>4, <1>5, <1>8, <1>9, <1>10, Zenon DEF Moves
<1> QED BY <1>6, <1>7, <1>11, MoveStep, Zenon

-----------------------------------------------------------------------------
(***************************************************************************)
(* The theorems.                                                           *)
(***************************************************************************)

\* The invariant holds when every edge and the ledger start: nothing is
\* granted, held, on its way or charged.
LEMMA InitInv == Init => IInv
<1> USE Basics
<1> SUFFICES ASSUME Init PROVE IInv
  BY Zenon
<1>1. now = 0 /\ now \in 0 .. MaxTime /\ wid \in Nat
  BY WindowFacts DEF Init, LedgerInit, wid
<1>2. NoFlight \in FlightRec /\ NoFlight.pc = "idle" /\ NoFlight.sent = 0 /\ NoFlight.resp.win = 0
  BY Zenon DEF NoFlight, FlightRec, NoAnswer, AnswerRec
<1>3. Fresh(0) \in CellRec /\ Fresh(0).tokens = 0 /\ Fresh(0).win = 0 /\ Fresh(0).expiresAt = 0
      /\ 0 <= WindowEnd(0, Window)
  BY DEF Fresh, CellRec, WindowEnd
<1> DEFINE none == [win |-> 0, tokens |-> 0]
<1>4. none \in ReturnRec /\ none.win = 0 /\ none.tokens = 0
  BY Zenon DEF ReturnRec
<1> HIDE DEF none
<1>5. rets = [i \in ReturnIds |-> none]
  BY Zenon DEF Init, none
<1>6. TypeOK
  BY <1>1, <1>2, <1>3, <1>4, <1>5, IdleReq DEF Init, LedgerInit, TypeOK, LedgerTypeOK
<1>7. PointersValid
  BY <1>2, IdleReq, Zenon DEF Init, PointersValid, HasCell
<1>8. WindowsBegun /\ DedupeOutlivesWindow /\ GrantsWithinLimit
  BY <1>1, <1>2, <1>3, <1>4, <1>5 DEF Init, LedgerInit, WindowsBegun, DedupeOutlivesWindow,
     GrantsWithinLimit
<1>9. LeasesEnd
  BY <1>1, <1>2, <1>3, IdleReq DEF Init, LeasesEnd
<1>10. ASSUME NEW w \in Windows
       PROVE  /\ HeldSum(held, w) = 0 /\ FlyingSum(flight, w) = 0
              /\ ReturningSum(deduped, rets, w) = 0 /\ PendingSum(req, held, w) = 0
  <2>1. \A x \in Heap : HeldIn(held, w)[x] = 0
    BY <1>3, Zenon DEF Init, HeldIn
  <2>2. \A e \in Edges : FlyingIn(flight, w)[e] = 0
    BY <1>2, Zenon DEF Init, FlyingIn
  <2>3. \A i \in ReturnIds : ReturningIn(deduped, rets, w)[i] = 0
    BY <1>4, <1>5, Zenon DEF ReturningIn
  <2>4. \A r \in Reqs : PendingIn(req, held, w)[r] = 0
    BY IdleReq, Zenon DEF Init, PendingIn
  <2> QED BY <2>1, <2>2, <2>3, <2>4, SumZero, IndexSetsFinite, Zenon
        DEF HeldSum, FlyingSum, ReturningSum, PendingSum
<1>11. ASSUME NEW w \in Windows
       PROVE  Accounts(charged, held, flight, deduped, rets, used, w)
              /\ PendingSum(req, held, w) <= charged[w]
  <2>1. charged[w] = 0 /\ used[w] = 0
    BY Zenon DEF Init, LedgerInit
  <2> QED BY ONLY <1>10, <2>1, w \in Windows DEF Accounts
<1> QED BY <1>6, <1>7, <1>8, <1>9, <1>11, BackedAccounts, Zenon DEF IInv

\* Every step of a request, an edge, the hub or the clock keeps the invariant.
LEMMA NextInv == IInv /\ [Next]_vars => IInv'
<1> SUFFICES ASSUME IInv, [Next]_vars PROVE IInv'
  BY Zenon
<1>1. CASE UNCHANGED vars
  <2>1. UNCHANGED <<now, used, deduped, cur, held, resetAt, retryAt, renewing, backoffUntil,
                    rets, seq, strays, faults, flight, req, charged>>
    BY <1>1, Zenon DEF vars, ledgerVars, leaseVars, netVars
  <2>2. TypeOK' /\ PointersValid' /\ WindowsBegun' /\ DedupeOutlivesWindow'
        /\ GrantsWithinLimit' /\ LeasesEnd'
    BY <2>1, Zenon DEF IInv, TypeOK, LedgerTypeOK, PointersValid, WindowsBegun, DedupeOutlivesWindow,
       GrantsWithinLimit, LeasesEnd, wid
  <2>3. TokensBacked' /\ RefundsCovered'
    BY <2>1, BackedAccounts, Zenon DEF IInv
  <2> QED BY <2>2, <2>3, Zenon DEF IInv
<1>2. CASE Tick /\ UNCHANGED <<leaseVars, netVars, flight, req, charged>>
  BY <1>2, TickInv, Zenon
<1>3. CASE HubStep
  <2>1. ASSUME NEW e \in Edges, HubGrant(e) \/ HubStray(e) PROVE IInv'
    BY <2>1, HubGrantInv, HubStrayInv, Zenon
  <2>2. ASSUME NEW i \in ReturnIds, HubReturn(i) PROVE IInv'
    BY <2>2, HubReturnInv, Zenon
  <2> QED BY <1>3, <2>1, <2>2, Zenon DEF HubStep
<1>4. ASSUME NEW e \in Edges, EdgeStep(e) PROVE IInv'
  BY <1>4, RenewFetchInv, FlightFailInv, AcceptOldInv, AcceptWaitingInv, AcceptGrantInv,
     AcceptAddInv, DrainInv, EvictInv, CrashInv, Zenon DEF EdgeStep, AcceptNone
<1>5. ASSUME NEW r \in Reqs, Step(r) PROVE IInv'
  BY <1>5, EnterInv, ResetLoadInv, ResetInstallInv, CheckInv, ExpireInv, SpendInv, CountInv,
     RefundInv, CancelInv, RetakeInv, Zenon DEF Step
<1> QED BY <1>1, <1>2, <1>3, <1>4, <1>5, Zenon DEF Next

\* The inductive invariant of the leased limiter.
THEOREM Invariance == Spec => []IInv
<1> QED BY InitInv, NextInv, PTL DEF Spec

\* Type correctness.
THEOREM TypeCorrect == Spec => []TypeOK
<1>1. IInv => TypeOK
  BY Zenon DEF IInv
<1> QED BY <1>1, Invariance, PTL

\* What has been charged to a window lies between nothing and the limit.
LEMMA ChargedBounds ==
  ASSUME IInv, NEW w \in Windows
  PROVE  charged[w] \in Nat /\ charged[w] <= Limit
<1> USE Basics
<1>1. /\ HeldSum(held, w) \in Nat /\ FlyingSum(flight, w) \in Nat
      /\ ReturningSum(deduped, rets, w) \in Nat
      /\ PendingSum(req, held, w) \in Nat
  BY HeldNat, FlyingNat, ReturningNat, PendingNat, Zenon DEF IInv, TypeOK, HeapFn, FlightFn, RetFn, ReqFn
<1>2. Accounts(charged, held, flight, deduped, rets, used, w)
      /\ PendingSum(req, held, w) <= charged[w]
  BY BackedAccounts, Zenon DEF IInv
<1>3. charged[w] \in Int /\ used[w] \in Nat /\ used[w] <= Limit
  BY Zenon DEF IInv, TypeOK, LedgerTypeOK, GrantsWithinLimit
<1> QED BY ONLY <1>1, <1>2, <1>3, Basics DEF Accounts

\* The quota is never exceeded, for any number of edges, requests, windows
\* and faults, and any limit, window length and costs.
THEOREM QuotaHolds == Spec => []QuotaNeverExceeded
<1>1. IInv => QuotaNeverExceeded
  BY ChargedBounds, Zenon DEF QuotaNeverExceeded
<1> QED BY <1>1, Invariance, PTL

\* Every token an edge can spend or return is backed by a grant of the ledger
\* in the same window, and the ledger grants no more than the limit.
THEOREM TokensAreBacked == Spec => [](TokensBacked /\ GrantsWithinLimit)
<1>1. IInv => TokensBacked /\ GrantsWithinLimit
  BY Zenon DEF IInv
<1> QED BY <1>1, Invariance, PTL

\* The ledger never hands out more than the limit in a window (ledger.lua grants what is left of it),
\* whatever the edges return, lose or repeat.
THEOREM GrantsFit == Spec => []GrantsWithinLimit
<1>1. IInv => GrantsWithinLimit
  BY Zenon DEF IInv
<1> QED BY <1>1, Invariance, PTL

\* No edge believes a token to live past the end of its window.
THEOREM LeasesNeverLate == Spec => []ExpiryNeverLate
<1>1. IInv => ExpiryNeverLate
  BY Zenon DEF IInv, LeasesEnd, ExpiryNeverLate
<1> QED BY <1>1, Invariance, PTL

Bounded == \A w \in Windows : charged[w] \in Nat /\ charged[w] <= Limit
\* The bounds of ChargedBounds, for all windows at once.
LEMMA ChargedBounded == IInv => Bounded
BY ChargedBounds, Zenon DEF Bounded

\* A spent token is an admission the central counter would make: its window
\* has begun, and the charge fits.
LEMMA SpendAdmits ==
  ASSUME IInv, Bounded', NEW r \in Reqs, Spend(r)
  PROVE  Central!QuotaNext \/ UNCHANGED <<wid, charged>>
<1> USE Basics, PointedCells
<1> DEFINE x == <<r[1], req[r].h>>
           w == held[x].win
           cost == req[r].cost
<1>1. /\ x \in Heap /\ w \in Windows /\ w <= wid /\ cost \in Costs /\ cost \in Nat
      /\ charged[w] \in Nat
  BY ChargedBounds, Zenon DEF Spend, HasCell, CellRec, IInv, PointersValid, WindowsBegun
<1>2. wid' = wid
  BY Zenon DEF Spend, ledgerVars, wid
<1>3. CASE held[x].tokens >= cost
  <2>1. charged' = [charged EXCEPT ![w] = charged[w] + cost]
    BY <1>3, Zenon DEF Spend
  <2>2. charged'[w] = charged[w] + cost
    BY <1>1, <2>1, Zenon DEF IInv, TypeOK
  <2>3. charged'[w] <= Limit
    BY <1>1, Zenon DEF Bounded
  <2>4. Central!Admit(w, cost)
    BY <1>1, <1>2, <2>1, <2>2, <2>3, Zenon DEF Central!Admit
  <2> QED BY <1>1, <2>4, Zenon DEF Central!QuotaNext
<1>4. CASE ~(held[x].tokens >= cost)
  BY <1>2, <1>4, Zenon DEF Spend
<1> QED BY <1>3, <1>4, Zenon

\* A refund takes back a charge that the central counter holds.
LEMMA RefundRefunds ==
  ASSUME IInv, Bounded', NEW r \in Reqs, Refund(r)
  PROVE  Central!QuotaNext \/ UNCHANGED <<wid, charged>>
<1> USE Basics, PointedCells
<1> DEFINE x == <<r[1], req[r].h>>
           w == held[x].win
           cost == req[r].cost
<1>1. /\ x \in Heap /\ w \in Windows /\ cost \in Costs /\ cost \in Nat /\ charged[w] \in Nat
  BY ChargedBounds, Zenon DEF Refund, HasCell, CellRec, IInv, PointersValid
<1>2. wid' = wid
  BY Zenon DEF Refund, ledgerVars, wid
<1>3. CASE cur[r[1]] = req[r].h
  <2>1. charged' = [charged EXCEPT ![w] = charged[w] - cost]
    BY <1>3, Zenon DEF Refund
  <2>2. charged'[w] = charged[w] - cost /\ charged'[w] \in Nat
    BY <1>1, <2>1, Zenon DEF IInv, TypeOK, Bounded
  <2>3. Central!Refund(w, cost)
    BY <1>1, <1>2, <2>1, <2>2 DEF Central!Refund
  <2> QED BY <1>1, <2>3, Zenon DEF Central!QuotaNext
<1>4. CASE cur[r[1]] # req[r].h
  BY <1>2, <1>4, Zenon DEF Refund
<1> QED BY <1>3, <1>4, Zenon

\* A tick is a roll of the window, or nothing.
LEMMA TickRolls ==
  ASSUME IInv, Tick, UNCHANGED charged
  PROVE  Central!QuotaNext \/ UNCHANGED <<wid, charged>>
<1>1. now \in Nat /\ now' = now + 1 /\ Window \in Nat \ {0}
  BY Basics DEF Tick, IInv, TypeOK, LedgerTypeOK
<1>2. wid' = wid \/ wid' = wid + 1
  BY <1>1 DEF wid, WindowOf
<1> QED BY <1>2, Zenon DEF Central!QuotaNext, Central!Roll

\* The leased limiter implements the central counter: every charge is an
\* admission and every refund a refund of Quota; all else is invisible to it.
THEOREM LeaseImplementsCentral == Spec => ImplementsCentral
<1>1. Init => Central!QuotaInit
  <2>1. WindowOf(0, Window) = 0
    BY Basics DEF WindowOf
  <2> QED BY <2>1, Zenon DEF Init, LedgerInit, Central!QuotaInit, wid
<1>2. IInv /\ Bounded' /\ [Next]_vars => [Central!QuotaNext]_(Central!quotaVars)
  <2> SUFFICES ASSUME IInv, Bounded', [Next]_vars
               PROVE  Central!QuotaNext \/ UNCHANGED <<wid, charged>>
    BY Zenon DEF Central!quotaVars
  <2>1. CASE UNCHANGED vars
    BY <2>1, Zenon DEF vars, ledgerVars, wid
  <2>2. CASE Tick /\ UNCHANGED <<leaseVars, netVars, flight, req, charged>>
    BY <2>2, TickRolls, Zenon
  <2>3. CASE HubStep
    <3>1. ASSUME NEW e \in Edges, HubGrant(e) \/ HubStray(e) PROVE UNCHANGED <<wid, charged>>
      BY <3>1, Zenon DEF HubGrant, HubStray, Grant, wid
    <3>2. ASSUME NEW i \in ReturnIds, HubReturn(i) PROVE UNCHANGED <<wid, charged>>
      BY <3>2, Zenon DEF HubReturn, Return, ledgerVars, wid
    <3> QED BY <2>3, <3>1, <3>2, Zenon DEF HubStep
  <2>4. ASSUME NEW e \in Edges, EdgeStep(e) PROVE UNCHANGED <<wid, charged>>
    BY <2>4, Zenon DEF EdgeStep, RenewFetch, FlightFail, AcceptNone, AcceptOld, AcceptWaiting,
       AcceptGrant, AcceptAdd, Drain, Evict, Crash, ledgerVars, wid
  <2>5. ASSUME NEW r \in Reqs, Step(r) PROVE Central!QuotaNext \/ UNCHANGED <<wid, charged>>
    <3>1. CASE Spend(r)
      BY <3>1, SpendAdmits, Zenon
    <3>2. CASE Refund(r)
      BY <3>2, RefundRefunds, Zenon
    <3>3. CASE \/ Enter(r) \/ ResetLoad(r) \/ ResetInstall(r) \/ Check(r)
               \/ Expire(r) \/ Count(r) \/ Cancel(r) \/ Retake(r)
      BY <3>3, Zenon DEF Enter, ResetLoad, ResetInstall, Check, Expire, Count, Cancel, Retake,
         ledgerVars, wid
    <3> QED BY <2>5, <3>1, <3>2, <3>3, Zenon DEF Step
  <2> QED BY <2>1, <2>2, <2>3, <2>4, <2>5, Zenon DEF Next
<1> QED BY <1>1, <1>2, Invariance, ChargedBounded, PTL DEF Spec, ImplementsCentral, Central!QuotaSpec

\* Every step but the making of a new counter leaves each edge in its window
\* or moves it to a later one.
Forward(e) == held'[<<e, cur'[e]>>].win >= held[<<e, cur[e]>>].win
\* A step that changes no cell's window and no pointer moves no edge.
LEMMA SameForward ==
  ASSUME IInv, cur' = cur, \A x \in Heap : held'[x].win = held[x].win
  PROVE  \A e \in Edges : Forward(e)
<1> USE Basics, PointedCells
<1>1. \A e \in Edges : held[<<e, cur[e]>>].win \in Nat
  BY Zenon DEF CellRec
<1> QED BY <1>1 DEF Forward

\* One edge changes cell, for one of its own or a later window.
LEMMA MoveForward ==
  ASSUME IInv, NEW e \in Edges, NEW c \in Cells, cur' = [cur EXCEPT ![e] = c],
         held'[<<e, c>>].win >= held[<<e, cur[e]>>].win,
         \A y \in Heap : y[1] # e => held'[y] = held[y]
  PROVE  \A y \in Edges : Forward(y)
<1> USE Basics, PointedCells
<1> TAKE y \in Edges
<1>1. held[<<y, cur[y]>>].win \in Nat /\ <<y, cur[y]>> \in Heap
  BY Zenon DEF CellRec
<1>2. cur'[e] = c /\ (y # e => cur'[y] = cur[y])
  BY Zenon DEF IInv, TypeOK
<1>3. CASE y = e
  BY <1>2, <1>3, Zenon DEF Forward
<1>4. CASE y # e
  <2>1. held'[<<y, cur[y]>>] = held[<<y, cur[y]>>]
    BY <1>1, <1>4, Zenon
  <2> QED BY <1>1, <1>2, <1>4, <2>1 DEF Forward
<1> QED BY <1>3, <1>4, Zenon

\* reset never replaces a newer window.
LEMMA ResetForward ==
  ASSUME IInv, NEW r \in Reqs, ResetInstall(r)
  PROVE  \A y \in Edges : Forward(y)
<1> USE Basics, PointedCells
<1> DEFINE e == r[1]
           w == held[<<e, req[r].h>>].win
           S == Slots \ {r[2]}
<1>1. CASE Superseded(e, req[r].h, w)
  BY <1>1, SameForward, Zenon DEF ResetInstall, ResetWin
<1>2. CASE ~Superseded(e, req[r].h, w)
  <2>1. /\ Cells \ Pointed(e, Slots) # {} /\ held' = Installed(e, w, S)
        /\ cur' = [cur EXCEPT ![e] = NewCell(e)] /\ S \in SUBSET Slots
    BY <1>2, Zenon DEF ResetInstall, ResetWin, Install
  <2>2. w \in Windows /\ w \in Nat /\ TypeOK /\ e \in Edges /\ held[<<e, cur[e]>>].win \in Nat
    BY Zenon DEF ResetInstall, ResetWin, HasCell, CellRec, IInv
  <2>3. w >= held[<<e, cur[e]>>].win
    BY <1>2, <2>2 DEF Superseded
  <2> HIDE DEF S, w
  <2>4. AfterInstall(held', e, w, S)
    BY <2>1, <2>2, InstalledFacts, Zenon
  <2>5. held'[<<e, NewCell(e)>>].win = w
    BY <2>2, <2>4, FreshFacts, Zenon DEF AfterInstall
  <2>6. NewCell(e) \in Cells /\ \A y \in Heap : y[1] # e => held'[y] = held[y]
    BY <2>4, Zenon DEF AfterInstall
  <2> QED BY <2>1, <2>2, <2>3, <2>5, <2>6, MoveForward, Zenon
<1> QED BY <1>1, <1>2, Zenon

\* accept never installs an older window.
LEMMA AcceptForward ==
  ASSUME IInv, NEW e \in Edges, ~Stale(e), AcceptWaiting(e) \/ AcceptGrant(e)
  PROVE  \A y \in Edges : Forward(y)
<1> USE Basics, PointedCells
<1>1. /\ flight[e].pc = "answered" /\ flight[e].resp.win >= held[<<e, cur[e]>>].win
      /\ Cells \ Pointed(e, Slots) # {} /\ cur' = [cur EXCEPT ![e] = Cell1(e)]
  BY NotStale, Zenon DEF AcceptWaiting, AcceptGrant
<1>2. /\ Cell1(e) \in Cells /\ Heap1(e) \in HeapFn
      /\ Heap1(e)[<<e, Cell1(e)>>].win = flight[e].resp.win
  BY <1>1, AcceptCell, Zenon
<1>3. \A y \in Heap : y[1] # e => Heap1(e)[y] = held[y]
  <2>1. CASE ~Newer(e)
    BY <2>1, Zenon DEF Heap1
  <2>2. CASE Newer(e)
    <3>1. AfterInstall(Heap1(e), e, flight[e].resp.win, Slots)
      <4>1. flight[e].resp.win \in Windows /\ TypeOK /\ Slots \in SUBSET Slots
        BY Zenon DEF FlightRec, AnswerRec, IInv
      <4>2. Heap1(e) = Installed(e, flight[e].resp.win, Slots)
        BY <2>2, Zenon DEF Heap1
      <4> QED BY <1>1, <4>1, <4>2, InstalledFacts, Zenon
    <3> QED BY <3>1, Zenon DEF AfterInstall
  <2> QED BY <2>1, <2>2, Zenon
<1>4. /\ held'[<<e, Cell1(e)>>].win = flight[e].resp.win
      /\ \A y \in Heap : y[1] # e => held'[y] = Heap1(e)[y]
  <2>1. CASE held' = Heap1(e)
    BY <1>2, <2>1, Zenon
  <2>2. CASE held' = [Heap1(e) EXCEPT ![<<e, Cell1(e)>>].expiresAt = LifeFrom(e) + flight[e].resp.expires]
    <3>1. <<e, Cell1(e)>> \in Heap /\ Heap1(e)[<<e, Cell1(e)>>] \in CellRec
      BY <1>2, Zenon DEF HeapFn
    <3> QED BY <1>2, <2>2, <3>1, Zenon DEF HeapFn, CellRec
  <2> QED BY <2>1, <2>2, Zenon DEF AcceptWaiting, AcceptGrant
<1>5. /\ held'[<<e, Cell1(e)>>].win >= held[<<e, cur[e]>>].win
      /\ \A y \in Heap : y[1] # e => held'[y] = held[y]
      /\ Cell1(e) \in Cells /\ cur' = [cur EXCEPT ![e] = Cell1(e)]
  BY <1>1, <1>2, <1>3, <1>4, Zenon
<1> QED BY ONLY IInv, e \in Edges, <1>5, MoveForward, Zenon

\* A new counter of e leaves the other edges alone.
LEMMA FreshForward ==
  ASSUME IInv, NEW e \in Edges, FreshCounter(e)
  PROVE  \A y \in Edges \ {e} : Forward(y)
<1> USE Basics, PointedCells
<1> TAKE y \in Edges \ {e}
<1>1. held[<<y, cur[y]>>].win \in Nat /\ <<y, cur[y]>> \in Heap
  BY Zenon DEF CellRec
<1>2. cur'[y] = cur[y] /\ held'[<<y, cur[y]>>] = held[<<y, cur[y]>>]
  BY <1>1, Zenon DEF FreshCounter, IInv, TypeOK
<1> QED BY <1>1, <1>2 DEF Forward

\* The steps of an edge that install no cell change no cell's window.
LEMMA EdgeWins ==
  ASSUME IInv, NEW e \in Edges,
         \/ RenewFetch(e) \/ FlightFail(e) \/ AcceptOld(e) \/ AcceptAdd(e) \/ Drain(e)
  PROVE  cur' = cur /\ \A x \in Heap : held'[x].win = held[x].win
<1> USE Basics, PointedCells
<1>1. CASE RenewFetch(e) \/ FlightFail(e) \/ AcceptOld(e)
  BY <1>1, Zenon DEF RenewFetch, FlightFail, AcceptOld
<1>2. CASE AcceptAdd(e)
  <2> DEFINE x == <<e, flight[e].h>>
             c == [held[x] EXCEPT !.tokens = @ + flight[e].resp.granted]
  <2>1. x \in Heap /\ held' = [held EXCEPT ![x] = c] /\ cur' = cur /\ c.win = held[x].win
    BY <1>2 DEF AcceptAdd, CellRec
  <2> HIDE DEF x, c
  <2> QED BY <2>1, Zenon DEF IInv, TypeOK
<1>3. CASE Drain(e)
  <2> DEFINE x == <<e, cur[e]>>
             c == [held[x] EXCEPT !.tokens = 0]
  <2>1. x \in Heap /\ held' = [held EXCEPT ![x] = c] /\ cur' = cur /\ c.win = held[x].win
    BY <1>3 DEF Drain, CellRec
  <2> HIDE DEF x, c
  <2> QED BY <2>1, Zenon DEF IInv, TypeOK
<1> QED BY <1>1, <1>2, <1>3, Zenon

\* So do those of a request but the reset.
LEMMA RequestWins ==
  ASSUME IInv, NEW r \in Reqs, Step(r), ~ResetInstall(r)
  PROVE  cur' = cur /\ \A x \in Heap : held'[x].win = held[x].win
<1> USE Basics, PointedCells
<1> DEFINE x == <<r[1], req[r].h>>
<1>1. CASE Enter(r) \/ ResetLoad(r) \/ Check(r) \/ Cancel(r) \/ Retake(r)
  BY <1>1, Zenon DEF Enter, ResetLoad, Check, Cancel, Retake, leaseVars
<1>2. CASE Expire(r) \/ Spend(r) \/ Count(r) \/ Refund(r)
  <2>1. x \in Heap /\ held[x] \in CellRec
    BY <1>2, Zenon DEF Expire, Spend, Count, Refund, HasCell
  <2>2. cur' = cur
    BY <1>2, Zenon DEF Expire, Spend, Count, Refund
  <2>3. CASE Expire(r)
    BY <2>1, <2>2, <2>3, Zenon DEF Expire, IInv, TypeOK, CellRec
  <2>4. CASE Spend(r)
    <3> DEFINE c == [held[x] EXCEPT !.tokens = @ - req[r].cost]
    <3>1. held' = held \/ held' = [held EXCEPT ![x] = c]
      BY <2>4, Zenon DEF Spend
    <3>2. c.win = held[x].win
      BY <2>1, Zenon DEF CellRec
    <3> HIDE DEF c
    <3> QED BY <2>1, <2>2, <3>1, <3>2, Zenon DEF IInv, TypeOK
  <2>5. CASE Count(r)
    BY <2>1, <2>2, <2>5, Zenon DEF Count, IInv, TypeOK, CellRec
  <2>6. CASE Refund(r)
    <3> DEFINE c == [held[x] EXCEPT !.tokens = @ + req[r].cost,
                                    !.consumed = @ - req[r].cost]
    <3>1. held' = held \/ held' = [held EXCEPT ![x] = c]
      BY <2>6, <2>1, Zenon DEF Refund, IInv, TypeOK
    <3>2. c.win = held[x].win
      BY <2>1, Zenon DEF CellRec
    <3> HIDE DEF c
    <3> QED BY <2>1, <2>2, <3>1, <3>2, Zenon DEF IInv, TypeOK
  <2> QED BY <1>2, <2>3, <2>4, <2>5, <2>6, Zenon
<1> QED BY <1>1, <1>2, Zenon DEF Step

\* The window an edge spends from never goes back.
THEOREM WindowsGoForward == Spec => WindowNeverGoesBack
<1>1. IInv /\ [Next]_vars =>
        [\A e \in Edges : Crash(e) \/ Evict(e) \/
           held'[<<e, cur'[e]>>].win >= held[<<e, cur[e]>>].win]_vars
  <2> SUFFICES ASSUME IInv, Next
               PROVE  \A y \in Edges : Crash(y) \/ Evict(y) \/ Forward(y)
    BY Zenon DEF Forward
  <2>1. CASE Tick /\ UNCHANGED <<leaseVars, netVars, flight, req, charged>>
    BY <2>1, SameForward, Zenon DEF leaseVars
  <2>2. CASE HubStep
    BY <2>2, SameForward, Zenon DEF HubStep, HubGrant, HubStray, HubReturn, leaseVars
  <2>3. ASSUME NEW e \in Edges, EdgeStep(e)
        PROVE  \A y \in Edges : Crash(y) \/ Evict(y) \/ Forward(y)
    <3>1. CASE RenewFetch(e) \/ FlightFail(e) \/ AcceptOld(e) \/ AcceptAdd(e) \/ Drain(e)
      BY <3>1, EdgeWins, SameForward, Zenon
    <3>2. CASE ~Stale(e) /\ (AcceptWaiting(e) \/ AcceptGrant(e))
      BY <3>2, AcceptForward, Zenon
    <3>3. CASE Evict(e) \/ Crash(e)
      BY <3>3, FreshForward, Zenon DEF Evict, Crash
    <3> QED BY <2>3, <3>1, <3>2, <3>3, Zenon DEF EdgeStep, AcceptNone, AcceptGrant
  <2>4. ASSUME NEW r \in Reqs, Step(r)
        PROVE  \A y \in Edges : Forward(y)
    BY <2>4, RequestWins, SameForward, ResetForward, Zenon
  <2> QED BY <2>1, <2>2, <2>3, <2>4, Zenon DEF Next
<1> QED BY <1>1, Invariance, PTL DEF Spec, WindowNeverGoesBack

-----------------------------------------------------------------------------
(***************************************************************************)
(* Answers are never stale: the invariant with which it is inductive.      *)
(***************************************************************************)

\* A reset that has loaded a cell has loaded the current window or an earlier.
LoadsNotAhead ==
  \A r \in Reqs : req[r].pc = "install" =>
    held[<<r[1], req[r].h>>].win <= held[<<r[1], cur[r[1]]>>].win
FreshInv == AnswersNeverStale /\ LoadsNotAhead

\* A step that changes no cell's window and no pointer: loads are of the
\* current cell, and answers of the current window.
LEMMA SameFresh ==
  ASSUME IInv, FreshInv, cur' = cur, \A x \in Heap : held'[x].win = held[x].win,
         \A r \in Reqs : req'[r].pc = "install" =>
           req'[r].h = cur[r[1]] \/ (req[r].pc = "install" /\ req'[r].h = req[r].h),
         \A e \in Edges : flight'[e].pc = "answered" =>
           flight'[e].resp.win = wid \/ flight'[e] = flight[e]
  PROVE  FreshInv'
<1> USE Basics, PointedCells
<1>1. \A x \in Heap : held[x].win \in Nat /\ held[x].win <= wid
  BY Zenon DEF CellRec, IInv, WindowsBegun
<1>2. AnswersNeverStale'
  <2> SUFFICES ASSUME NEW e \in Edges, flight'[e].pc = "answered"
               PROVE  ~(flight'[e].resp.win < held[<<e, cur[e]>>].win)
    BY Zenon DEF AnswersNeverStale, Stale
  <2>1. wid \in Nat /\ held[<<e, cur[e]>>].win \in Nat /\ held[<<e, cur[e]>>].win <= wid
    BY <1>1, WidFacts, Zenon DEF IInv, TypeOK
  <2>2. CASE flight'[e].resp.win = wid
    BY <2>1, <2>2
  <2>3. CASE flight'[e] = flight[e]
    BY <2>3, Zenon DEF FreshInv, AnswersNeverStale, Stale
  <2> QED BY <2>2, <2>3, Zenon
<1>3. LoadsNotAhead'
  <2> SUFFICES ASSUME NEW r \in Reqs, req'[r].pc = "install"
               PROVE  held'[<<r[1], req'[r].h>>].win <= held'[<<r[1], cur[r[1]]>>].win
    BY Zenon DEF LoadsNotAhead
  <2>1. CASE req'[r].h = cur[r[1]]
    BY <1>1, <2>1
  <2>2. CASE req[r].pc = "install" /\ req'[r].h = req[r].h
    <3>1. <<r[1], req[r].h>> \in Heap /\ <<r[1], cur[r[1]]>> \in Heap
      BY <2>2, Zenon DEF HasCell
    <3> QED BY <2>2, <3>1 DEF FreshInv, LoadsNotAhead
  <2> QED BY <2>1, <2>2, Zenon
<1> QED BY <1>2, <1>3, Zenon DEF FreshInv

\* One edge installs a cell of the current window or of a later one, the
\* latter only when its call ends.
LEMMA MovedFresh ==
  ASSUME IInv, FreshInv, NEW e \in Edges, NEW c \in Cells, cur' = [cur EXCEPT ![e] = c],
         held'[<<e, c>>].win >= held[<<e, cur[e]>>].win, held'[<<e, c>>].win \in Nat,
         \A y \in Heap : y[1] # e => held'[y] = held[y],
         \A r \in Reqs : req'[r].pc = "install" =>
           /\ req[r].pc = "install" /\ req'[r].h = req[r].h
           /\ held'[<<r[1], req[r].h>>].win = held[<<r[1], req[r].h>>].win,
         \A y \in Edges : flight'[y].pc = "answered" =>
           /\ flight'[y] = flight[y]
           /\ y = e => held'[<<e, c>>].win = held[<<e, cur[e]>>].win
  PROVE  FreshInv'
<1> USE Basics, PointedCells
<1>1. \A y \in Edges : held[<<y, cur[y]>>].win \in Nat /\ <<y, cur[y]>> \in Heap
  BY Zenon DEF CellRec
<1>2. cur'[e] = c /\ \A y \in Edges : y # e => cur'[y] = cur[y]
  BY Zenon DEF IInv, TypeOK
<1>3. \A y \in Edges : y # e => held'[<<y, cur'[y]>>] = held[<<y, cur[y]>>]
  BY <1>1, <1>2, Zenon
<1>4. AnswersNeverStale'
  <2> SUFFICES ASSUME NEW y \in Edges, flight'[y].pc = "answered"
               PROVE  ~(flight'[y].resp.win < held'[<<y, cur'[y]>>].win)
    BY Zenon DEF AnswersNeverStale, Stale
  <2>1. held'[<<y, cur'[y]>>].win = held[<<y, cur[y]>>].win /\ flight'[y] = flight[y]
    BY <1>2, <1>3, Zenon
  <2> QED BY <2>1, Zenon DEF FreshInv, AnswersNeverStale, Stale
<1>5. LoadsNotAhead'
  <2> SUFFICES ASSUME NEW r \in Reqs, req'[r].pc = "install"
               PROVE  held'[<<r[1], req'[r].h>>].win <= held'[<<r[1], cur'[r[1]]>>].win
    BY Zenon DEF LoadsNotAhead
  <2>1. /\ req[r].pc = "install" /\ req'[r].h = req[r].h /\ r[1] \in Edges
        /\ held'[<<r[1], req[r].h>>].win = held[<<r[1], req[r].h>>].win
        /\ held[<<r[1], req[r].h>>].win <= held[<<r[1], cur[r[1]]>>].win
    BY Zenon DEF FreshInv, LoadsNotAhead
  <2>2. held[<<r[1], req[r].h>>].win \in Nat
    BY <2>1, Zenon DEF HasCell, CellRec
  <2>3. CASE r[1] = e
    BY <1>1, <1>2, <2>1, <2>2, <2>3
  <2>4. CASE r[1] # e
    BY <1>3, <2>1, <2>4, Zenon
  <2> QED BY <2>3, <2>4, Zenon
<1> QED BY <1>4, <1>5, Zenon DEF FreshInv

\* A new counter has nothing loaded and no call.
LEMMA CounterFresh ==
  ASSUME IInv, FreshInv, NEW e \in Edges, FreshCounter(e),
         \A r \in Reqs : req'[r].pc = "idle" \/ (r[1] # e /\ req'[r] = req[r]),
         \A y \in Edges : flight'[y].pc = "idle" \/ (y # e /\ flight'[y] = flight[y])
  PROVE  FreshInv'
<1> USE Basics, PointedCells
<1>1. /\ \A y \in Edges : y # e => cur'[y] = cur[y]
      /\ \A x \in Heap : x[1] # e => held'[x] = held[x]
  BY Zenon DEF FreshCounter, IInv, TypeOK
<1>2. AnswersNeverStale'
  <2> SUFFICES ASSUME NEW y \in Edges, flight'[y].pc = "answered"
               PROVE  ~(flight'[y].resp.win < held'[<<y, cur'[y]>>].win)
    BY Zenon DEF AnswersNeverStale, Stale
  <2>1. y # e /\ flight'[y] = flight[y] /\ held'[<<y, cur'[y]>>] = held[<<y, cur[y]>>]
    BY <1>1, Zenon
  <2> QED BY <2>1, Zenon DEF FreshInv, AnswersNeverStale, Stale
<1>3. LoadsNotAhead'
  <2> SUFFICES ASSUME NEW r \in Reqs, req'[r].pc = "install"
               PROVE  held'[<<r[1], req'[r].h>>].win <= held'[<<r[1], cur'[r[1]]>>].win
    BY Zenon DEF LoadsNotAhead
  <2>1. r[1] # e /\ req'[r] = req[r] /\ r[1] \in Edges
    BY Zenon
  <2>2. <<r[1], req[r].h>> \in Heap /\ <<r[1], cur[r[1]]>> \in Heap
    BY <2>1, Zenon DEF HasCell
  <2>3. /\ held'[<<r[1], req[r].h>>] = held[<<r[1], req[r].h>>] /\ cur'[r[1]] = cur[r[1]]
        /\ held'[<<r[1], cur[r[1]]>>] = held[<<r[1], cur[r[1]]>>] /\ req[r].pc = "install"
    BY ONLY req'[r].pc = "install", <1>1, <2>1, <2>2, Zenon
  <2>4. held[<<r[1], req[r].h>>].win <= held[<<r[1], cur[r[1]]>>].win
    BY ONLY FreshInv, r \in Reqs, <2>3, Zenon DEF FreshInv, LoadsNotAhead
  <2> QED BY ONLY <2>1, <2>3, <2>4, Zenon
<1> QED BY <1>2, <1>3, Zenon DEF FreshInv

\* What a step of the hub, the clock or a call does with requests and calls.
LEMMA CallFresh ==
  ASSUME IInv, FreshInv, NEW e \in Edges,
         \/ RenewFetch(e) \/ FlightFail(e) \/ AcceptOld(e) \/ AcceptAdd(e) \/ Drain(e)
  PROVE  FreshInv'
<1>1. \A r \in Reqs : req'[r].pc = "install" => req[r].pc = "install" /\ req'[r].h = req[r].h
  <2>1. CASE req' = req
    BY <2>1, Zenon
  <2>2. ASSUME NEW n, Deliver(e, n), NEW r \in Reqs, req'[r].pc = "install"
        PROVE  req'[r] = req[r]
    <3>1. \/ req'[r] = req[r] \/ req'[r] = Idle
          \/ req[r] \in ReqRec /\ req'[r] = [req[r] EXCEPT !.pc = "got"]
      BY <2>2, Zenon DEF Deliver, IInv, TypeOK
    <3> QED BY <2>2, <3>1, IdleReq, Zenon DEF ReqRec
  <2>3. req' = req \/ \E n : Deliver(e, n)
    BY Zenon DEF RenewFetch, FlightFail, AcceptOld, AcceptAdd, Drain
  <2> QED BY <2>1, <2>2, <2>3, Zenon
<1>2. \A y \in Edges : flight'[y].pc = "answered" => flight'[y] = flight[y]
  BY DEF RenewFetch, FlightFail, AcceptOld, AcceptAdd, Drain, Joined, NoFlight, IInv, TypeOK,
     FlightRec
<1> QED BY <1>1, <1>2, EdgeWins, SameFresh, Zenon

\* The hub's answer is from the window current on its clock.
LEMMA HubFresh ==
  ASSUME IInv, FreshInv, NEW e \in Edges, HubGrant(e) \/ HubStray(e)
  PROVE  FreshInv'
<1>1. held' = held /\ cur' = cur /\ req' = req
  BY Zenon DEF HubGrant, HubStray, leaseVars
<1>2. \A y \in Edges : flight'[y].pc = "answered" =>
        flight'[y].resp.win = wid \/ flight'[y] = flight[y]
  <2>1. CASE HubStray(e)
    BY <2>1, Zenon DEF HubStray
  <2>2. CASE HubGrant(e)
    <3>1. PICK a \in Answers : flight' = [flight EXCEPT ![e].pc = "answered", ![e].resp = a]
      BY <2>2, Zenon DEF HubGrant
    <3>2. a.win = wid
      BY <3>1 DEF Answers, GrantAnswer
    <3>3. flight \in [Edges -> FlightRec]
      BY Zenon DEF IInv, TypeOK
    <3> QED BY <3>1, <3>2, <3>3, Zenon DEF FlightRec
  <2> QED BY <2>1, <2>2, Zenon
<1> QED BY <1>1, <1>2, SameFresh, Zenon

\* A request loads the current cell, and never changes an answer.
LEMMA RequestFresh ==
  ASSUME IInv, FreshInv, NEW r \in Reqs, Step(r), ~ResetInstall(r)
  PROVE  FreshInv'
<1> USE Basics, PointedCells
<1>1. \A y \in Reqs : req'[y].pc = "install" =>
        req'[y].h = cur[y[1]] \/ (req[y].pc = "install" /\ req'[y].h = req[y].h)
  <2>1. req \in [Reqs -> ReqRec]
    BY Zenon DEF IInv, TypeOK
  <2>2. \A y \in Reqs : y # r => req'[y] = req[y]
    BY <2>1, Zenon DEF Step, Enter, ResetLoad, Check, Expire, Spend, Count, Refund, Cancel, Retake, Miss
  <2>3. req'[r].pc = "install" => req'[r].h = cur[r[1]]
    <3>1. CASE ResetLoad(r)
      BY <2>1, <3>1, Zenon DEF ResetLoad, ReqRec
    <3>2. CASE Enter(r)
      BY <2>1, <3>2 DEF Enter, Idle
    <3>3. CASE Check(r) \/ Retake(r)
      <4> DEFINE x == <<r[1], cur[r[1]]>>
                 p(t) == IF Expired(x, t) THEN "expire" ELSE "spend"
      <4>1. p(now) # "install" /\ p(req[r].t) # "install"
        BY Zenon
      <4>2. \/ req'[r] = Idle
            \/ req'[r] = [req[r] EXCEPT !.pc = p(req[r].t), !.h = cur[r[1]],
                                         !.waiting = retryAt[r[1]] > req[r].t]
            \/ req'[r] = [req[r] EXCEPT !.pc = p(now), !.h = cur[r[1]]]
        BY <2>1, <3>3, Zenon DEF Check, Retake
      <4> HIDE DEF p
      <4> QED BY <2>1, <4>1, <4>2, IdleReq, Zenon DEF ReqRec
    <3>4. CASE Expire(r) \/ Spend(r)
      <4>1. \/ req'[r] = Idle
            \/ req'[r] = [Idle EXCEPT !.pc = "count", !.h = req[r].h, !.cost = req[r].cost]
            \/ req'[r] = [req[r] EXCEPT !.pc = "wait", !.tries = @ + 1, !.h = NoCell]
        BY <2>1, <3>4, Zenon DEF Expire, Spend, Miss
      <4> QED BY <2>1, <4>1, IdleReq, Zenon DEF ReqRec
    <3>5. CASE Count(r) \/ Refund(r) \/ Cancel(r)
      BY <2>1, <3>5 DEF Count, Refund, Cancel, Idle, ReqRec
    <3> QED BY <3>1, <3>2, <3>3, <3>4, <3>5, Zenon DEF Step
  <2> QED BY <2>2, <2>3, Zenon
<1>2. \A y \in Edges : flight'[y].pc = "answered" => flight'[y] = flight[y]
  <2>1. flight' = flight \/ flight' = Joined(r[1])
    BY Zenon DEF Step, Enter, ResetLoad, Check, Expire, Spend, Count, Refund, Cancel, Retake, Miss
  <2>2. flight \in [Edges -> FlightRec] /\ r[1] \in Edges
    BY Zenon DEF IInv, TypeOK
  <2> QED BY <2>1, <2>2 DEF Joined, FlightRec
<1> QED BY <1>1, <1>2, RequestWins, SameFresh, Zenon

\* reset replaces a cell by one of the same window.
LEMMA ResetFresh ==
  ASSUME IInv, FreshInv, NEW r \in Reqs, ResetInstall(r)
  PROVE  FreshInv'
<1> USE Basics, PointedCells
<1> DEFINE e == r[1]
           w == ResetWin(r)
           S == Slots \ {r[2]}
<1>1. req \in [Reqs -> ReqRec] /\ e \in Edges /\ flight' = flight /\ TypeOK
  BY Zenon DEF IInv, TypeOK, ResetInstall, netVars
<1>2. /\ req' = [req EXCEPT ![r].pc = "check", ![r].h = NoCell]
      /\ req[r].pc = "install"
  BY Zenon DEF ResetInstall
<1>3. \A y \in Reqs : req'[y].pc = "install" => y # r /\ req'[y] = req[y]
  BY <1>1, <1>2, Zenon DEF ReqRec
<1>4. CASE Superseded(e, req[r].h, w)
  <2>1. cur' = cur /\ held' = held
    BY <1>4, Zenon DEF ResetInstall
  <2> QED BY <1>1, <1>3, <2>1, SameFresh, Zenon
<1>5. CASE ~Superseded(e, req[r].h, w)
  <2>1. /\ Cells \ Pointed(e, Slots) # {} /\ held' = Installed(e, w, S)
        /\ cur' = [cur EXCEPT ![e] = NewCell(e)] /\ S \in SUBSET Slots
    BY <1>5, Zenon DEF ResetInstall, Install
  <2>2. w \in Windows /\ w \in Nat /\ held[<<e, cur[e]>>].win \in Nat
    BY <1>2, Zenon DEF ResetWin, HasCell, CellRec
  <2>3. w = held[<<e, cur[e]>>].win
    <3>1. w <= held[<<e, cur[e]>>].win
      BY <1>2, Zenon DEF FreshInv, LoadsNotAhead, ResetWin
    <3>2. w >= held[<<e, cur[e]>>].win
      BY <1>5, <2>2 DEF Superseded, ResetWin
    <3> QED BY <2>2, <3>1, <3>2
  <2> HIDE DEF w, S
  <2>4. AfterInstall(held', e, w, S)
    BY <1>1, <2>1, <2>2, InstalledFacts, Zenon
  <2>5. held'[<<e, NewCell(e)>>].win = w /\ NewCell(e) \in Cells
        /\ \A y \in Heap : y[1] # e => held'[y] = held[y]
    BY <1>1, <2>2, <2>4, FreshFacts, Zenon DEF AfterInstall
  <2>6. ASSUME NEW y \in Reqs, req'[y].pc = "install"
        PROVE  /\ req[y].pc = "install" /\ req'[y].h = req[y].h
               /\ held'[<<y[1], req[y].h>>].win = held[<<y[1], req[y].h>>].win
    <3>1. y # r /\ req'[y] = req[y] /\ <<y[1], req[y].h>> \in Heap
      BY <1>3, <2>6, Zenon DEF HasCell
    <3>2. CASE y[1] # e
      BY <2>5, <2>6, <3>1, <3>2, Zenon
    <3>3. CASE y[1] = e
      <4>1. y = <<e, y[2]>> /\ y[2] \in S
        BY <3>1, <3>3 DEF Reqs, S
      <4> HIDE DEF e
      <4> QED BY <2>4, <2>6, <3>1, <3>3, <4>1 DEF AfterInstall
    <3> QED BY <3>2, <3>3, Zenon
  <2> HIDE DEF e
  <2>7. \A y \in Edges : flight'[y].pc = "answered" =>
          /\ flight'[y] = flight[y]
          /\ y = e => held'[<<e, NewCell(e)>>].win = held[<<e, cur[e]>>].win
    BY <1>1, <2>3, <2>5, Zenon
  <2>8. /\ held'[<<e, NewCell(e)>>].win >= held[<<e, cur[e]>>].win
        /\ held'[<<e, NewCell(e)>>].win \in Nat
    BY <2>2, <2>3, <2>5
  <2> QED BY ONLY IInv, FreshInv, <1>1, <2>1, <2>5, <2>6, <2>7, <2>8, MovedFresh, Zenon
<1> QED BY <1>4, <1>5, Zenon

\* accept moves to a later window only when its call is answered, and then
\* there is no answer.
LEMMA AcceptFresh ==
  ASSUME IInv, FreshInv, NEW e \in Edges, ~Stale(e), AcceptWaiting(e) \/ AcceptGrant(e)
  PROVE  FreshInv'
<1> USE Basics, PointedCells
<1>1. /\ flight[e].pc = "answered" /\ flight[e].resp.win >= held[<<e, cur[e]>>].win
      /\ Cells \ Pointed(e, Slots) # {} /\ cur' = [cur EXCEPT ![e] = Cell1(e)]
      /\ flight \in [Edges -> FlightRec] /\ TypeOK /\ flight[e].resp.win \in Windows
  BY NotStale, Zenon DEF AcceptWaiting, AcceptGrant, IInv, TypeOK, FlightRec, AnswerRec
<1>2. /\ Cell1(e) \in Cells /\ Heap1(e) \in HeapFn
      /\ Heap1(e)[<<e, Cell1(e)>>].win = flight[e].resp.win
  BY <1>1, AcceptCell, Zenon
<1>3. /\ \A y \in Heap : y[1] # e => Heap1(e)[y] = held[y]
      /\ \A y \in Reqs : req[y].pc = "install" =>
           Heap1(e)[<<y[1], req[y].h>>].win = held[<<y[1], req[y].h>>].win
  <2>1. CASE ~Newer(e)
    BY <2>1, Zenon DEF Heap1
  <2>2. CASE Newer(e)
    <3>1. AfterInstall(Heap1(e), e, flight[e].resp.win, Slots)
      BY <1>1, <2>2, InstalledFacts, Zenon DEF Heap1
    <3>2. ASSUME NEW y \in Reqs, req[y].pc = "install"
          PROVE  Heap1(e)[<<y[1], req[y].h>>] = held[<<y[1], req[y].h>>]
      <4>1. <<y[1], req[y].h>> \in Heap /\ y = <<y[1], y[2]>> /\ y[2] \in Slots
        BY <3>2 DEF Reqs, HasCell
      <4> QED BY <3>1, <4>1 DEF AfterInstall
    <3> QED BY <3>1, <3>2, Zenon DEF AfterInstall
  <2> QED BY <2>1, <2>2, Zenon
<1>4. \A y \in Heap : held'[y].win = Heap1(e)[y].win /\ (y[1] # e => held'[y] = Heap1(e)[y])
  <2>1. CASE held' = Heap1(e)
    BY <2>1, Zenon
  <2>2. CASE held' = [Heap1(e) EXCEPT ![<<e, Cell1(e)>>].expiresAt = LifeFrom(e) + flight[e].resp.expires]
    <3>1. <<e, Cell1(e)>> \in Heap /\ Heap1(e)[<<e, Cell1(e)>>] \in CellRec
      BY <1>2, Zenon DEF HeapFn
    <3> QED BY <1>2, <2>2, <3>1, Zenon DEF HeapFn, CellRec
  <2> QED BY <2>1, <2>2, Zenon DEF AcceptWaiting, AcceptGrant
<1>5. \A y \in Reqs : req'[y].pc = "install" => req[y].pc = "install" /\ req'[y].h = req[y].h
  <2>1. CASE AcceptGrant(e)
    BY <2>1, Zenon DEF AcceptGrant
  <2>2. CASE AcceptWaiting(e)
    <3> SUFFICES ASSUME NEW y \in Reqs, req'[y].pc = "install" PROVE req'[y] = req[y]
      BY Zenon
    <3>1. req'[y] = req[y] \/ req'[y] = Idle
      BY <2>2 DEF AcceptWaiting, Deliver
    <3> QED BY <3>1, IdleReq, Zenon
  <2> QED BY <2>1, <2>2, Zenon
<1>6. \A y \in Edges : flight'[y].pc = "answered" => flight'[y] = flight[y] /\ y # e
  <2>1. CASE AcceptGrant(e)
    BY <1>1, <2>1 DEF AcceptGrant, FlightRec
  <2>2. CASE AcceptWaiting(e)
    BY <1>1, <2>2, Zenon DEF AcceptWaiting, NoFlight
  <2> QED BY <2>1, <2>2, Zenon
<1>7. ASSUME NEW y \in Reqs, req'[y].pc = "install"
      PROVE  held'[<<y[1], req[y].h>>].win = held[<<y[1], req[y].h>>].win
  <2>1. req[y].pc = "install" /\ <<y[1], req[y].h>> \in Heap
    BY <1>5, <1>7, Zenon DEF HasCell
  <2> QED BY <1>3, <1>4, <2>1, Zenon
<1>8. /\ held'[<<e, Cell1(e)>>].win >= held[<<e, cur[e]>>].win
      /\ held'[<<e, Cell1(e)>>].win \in Nat
      /\ \A y \in Heap : y[1] # e => held'[y] = held[y]
  BY <1>1, <1>2, <1>3, <1>4, Zenon
<1>9. \A y \in Edges : flight'[y].pc = "answered" =>
        /\ flight'[y] = flight[y]
        /\ y = e => held'[<<e, Cell1(e)>>].win = held[<<e, cur[e]>>].win
  BY <1>6, Zenon
<1>10. \A y \in Reqs : req'[y].pc = "install" =>
         /\ req[y].pc = "install" /\ req'[y].h = req[y].h
         /\ held'[<<y[1], req[y].h>>].win = held[<<y[1], req[y].h>>].win
  BY <1>5, <1>7, Zenon
<1> QED BY ONLY IInv, FreshInv, e \in Edges, <1>1, <1>2, <1>8, <1>9, <1>10, MovedFresh, Zenon

\* No answer is from an older window than the one its edge spends from.
THEOREM AnswersStayFresh == Spec => []AnswersNeverStale
<1>1. Init => FreshInv
  BY IdleReq DEF Init, FreshInv, AnswersNeverStale, LoadsNotAhead, NoFlight
<1>2. IInv /\ FreshInv /\ [Next]_vars => FreshInv'
  <2> SUFFICES ASSUME IInv, FreshInv, [Next]_vars PROVE FreshInv'
    BY Zenon
  <2>1. CASE \/ Tick /\ UNCHANGED <<leaseVars, netVars, flight, req, charged>>
             \/ UNCHANGED vars
    BY <2>1, SameFresh, Zenon DEF leaseVars, vars
  <2>2. CASE HubStep
    <3>1. ASSUME NEW i \in ReturnIds, HubReturn(i) PROVE FreshInv'
      BY <3>1, SameFresh, Zenon DEF HubReturn, leaseVars
    <3> QED BY <2>2, <3>1, HubFresh, Zenon DEF HubStep
  <2>3. ASSUME NEW e \in Edges, EdgeStep(e) PROVE FreshInv'
    <3>1. CASE Evict(e)
      <4>1. \A r \in Reqs : r[1] = e => req[r].pc = "idle"
        BY <3>1 DEF Evict, Reqs
      <4> QED BY <3>1, <4>1, CounterFresh, Zenon DEF Evict
    <3>2. CASE Crash(e)
      <4>1. flight \in [Edges -> FlightRec]
        BY Zenon DEF IInv, TypeOK
      <4> QED BY <3>2, <4>1, IdleReq, CounterFresh, Zenon DEF Crash, NoFlight
    <3> QED BY <2>3, <3>1, <3>2, CallFresh, AcceptFresh, Zenon DEF EdgeStep, AcceptNone, AcceptGrant
  <2>4. ASSUME NEW r \in Reqs, Step(r) PROVE FreshInv'
    BY <2>4, RequestFresh, ResetFresh, Zenon
  <2> QED BY <2>1, <2>2, <2>3, <2>4, Zenon DEF Next
<1> QED BY <1>1, <1>2, Invariance, PTL DEF Spec, FreshInv
=============================================================================
