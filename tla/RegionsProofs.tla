--------------------------- MODULE RegionsProofs ---------------------------
(***************************************************************************)
(* For any number of regions and hubs, any quota and any floors that fit:  *)
(* the regions' allocations add up to the quota, a transfer only moves     *)
(* allocation, and no window grants more than the quota everywhere         *)
(* together.  At the end, what MCLedgers checks of the ledger and of the   *)
(* regions, as theorems.                                                   *)
(***************************************************************************)
EXTENDS MCLedgers, LedgerProofs

\* The floors are whole tokens.
LEMMA FloorType == \A r \in Regions : FloorOf[r] \in Nat /\ FloorOf[r] = floor(r)
<1> SUFFICES ASSUME NEW r \in Regions PROVE floor(r) \in Nat
  BY Zenon DEF FloorOf
<1>1. CASE r \in DOMAIN Floors
  <2>1. Floors[r] \in Nat /\ Quota \in Nat BY <1>1, RegionConstants
  <2>2. Quota * Floors[r] \in Nat BY <2>1
  <2> QED BY <1>1, <2>2 DEF floor
<1>2. CASE r \notin DOMAIN Floors BY <1>2, Zenon DEF floor
<1> QED BY <1>1, <1>2, Zenon

\* Allocations are whole tokens, none negative.
LEMMA BaseType == \A r \in Regions : Base(r) \in Nat
<1>1. SumFunctionOnSet(FloorOf, Regions) \in Nat
  BY FloorType, RegionConstants, SumBound, Zenon
<1>2. Quota \in Nat /\ SumFunctionOnSet(FloorOf, Regions) <= Quota
  BY RegionConstants, FloorsFit, Zenon
<1> SUFFICES ASSUME NEW r \in Regions PROVE Base(r) \in Nat BY Zenon
<1>3. floor(r) \in Nat BY FloorType, Zenon
<1> QED BY <1>1, <1>2, <1>3 DEF Base

\* Base (region.go): the allocations of all regions add up to exactly the
\* quota, however the floors round.
THEOREM SharesAddUp == SumFunctionOnSet([r \in Regions |-> Base(r)], Regions) = Quota
<1> DEFINE S == SumFunctionOnSet(FloorOf, Regions)
           B == [r \in Regions |-> Base(r)]
<1>1. S \in Int /\ Quota \in Int
  BY FloorType, RegionConstants, SumType
<1>2. Home \in Regions BY RegionConstants, Zenon
<1>3. \A r \in Regions : FloorOf[r] \in Int /\ B[r] \in Int
  BY FloorType, BaseType
<1>4. \A r \in Regions \ {Home} : B[r] = FloorOf[r]
  BY FloorType DEF Base
<1>5. B[Home] = FloorOf[Home] + (Quota - S)
  BY <1>2, FloorType, Zenon DEF Base
<1>6. SumFunctionOnSet(B, Regions) = S + (B[Home] - FloorOf[Home])
  <2>1. IsFiniteSet(Regions) BY RegionConstants, Zenon
  <2> DEFINE F == FloorOf
  <2>2. \A r \in Regions : F[r] \in Int /\ B[r] \in Int BY <1>3, Zenon
  <2>3. \A r \in Regions \ {Home} : B[r] = F[r] BY <1>4, Zenon
  <2> HIDE DEF B, F
  <2>4. SumFunctionOnSet(B, Regions)
        = SumFunctionOnSet(F, Regions) + (B[Home] - F[Home])
    BY <1>2, <2>1, <2>2, <2>3, SumUpdate
  <2> QED BY <2>4, Zenon DEF F
<1>7. FloorOf[Home] \in Int /\ B[Home] \in Int BY <1>2, <1>3, Zenon
<1> HIDE DEF S, B
<1> QED BY <1>1, <1>5, <1>6, <1>7 DEF B

----------------------------------------------------------------------------
\* The windows of the ledgers' clocks are among the windows modelled.
LEMMA WidType ==
  ASSUME TypeOK, NEW r \in Regions
  PROVE  /\ widOf(r) \in RegionWindows /\ widOf(r) \in Nat
         /\ clock[r] - widOf(r) * Window \in 0 .. Window - 1
<1>1. clock[r] \in Nat /\ clock[r] <= RegionTime /\ RegionTime \in Nat /\ Window \in Nat \ {0}
  BY RegionConstants DEF TypeOK
<1> DEFINE t == clock[r]
<1> HIDE DEF t
<1>2. t \in Nat /\ t <= RegionTime BY <1>1, Zenon DEF t
<1>3. t \div Window \in Nat /\ t \div Window <= RegionTime \div Window
  BY <1>1, <1>2
<1>4. t - (t \div Window) * Window \in 0 .. Window - 1
  BY <1>1, <1>2
<1>5. RegionTime \div Window \in Nat BY <1>1
<1> QED BY <1>3, <1>4, <1>5 DEF widOf, WindowOf, RegionWindows, t

\* A grant takes at most what is left (GrantSize), rounding included.
LEMMA SizeFacts ==
  ASSUME NEW a \in Nat \ {0}, NEW n \in 1 .. 2, NEW target \in Nat \ {0}, NEW limit \in Nat \ {0}
  PROVE  /\ GrantSize(a, n, Capped(target, limit)) \in Nat
         /\ GrantSize(a, n, Capped(target, limit)) <= a
<1>1. (limit * bankerCapPct) \div 100 \in Nat BY DEF bankerCapPct
<1>2. Capped(target, limit) \in Nat BY <1>1, Zenon DEF Capped, MinOf, MaxOf
<1>3. (a + n - 1) \div n \in Nat OBVIOUS
<1> DEFINE c == Capped(target, limit)
           d == (a + n - 1) \div n
<1> HIDE DEF c, d
<1>4. c \in Nat /\ d \in Nat BY <1>2, <1>3, Zenon DEF c, d
<1>5. MinOf(IF a < n * c THEN d ELSE c, a) \in Nat /\ MinOf(IF a < n * c THEN d ELSE c, a) <= a
  BY <1>4 DEF MinOf
<1> QED BY <1>5, Zenon DEF GrantSize, c, d

\* What is left is a whole number, and none of it is promised twice.
LEMMA LeftFacts ==
  ASSUME RInv, NEW r \in Regions, NEW w \in RegionWindows
  PROVE  /\ Left(r, w) \in Nat
         /\ granted[<<r, w>>] \in Nat /\ alloc[<<r, w>>] \in Int
         /\ granted[<<r, w>>] + Left(r, w) = Base(r) + alloc[<<r, w>>]
<1>1. <<r, w>> \in RegionEntries BY Zenon DEF RegionEntries
<1>2. granted[<<r, w>>] \in Nat /\ alloc[<<r, w>>] \in Int BY <1>1, Zenon DEF RInv, TypeOK
<1>3. granted[<<r, w>>] <= Base(r) + alloc[<<r, w>>] BY <1>1, Zenon DEF RInv, NoRegionOverdrawn
<1>4. Base(r) \in Nat BY BaseType, Zenon
<1> QED BY <1>2, <1>3, <1>4 DEF Left

\* A lender never gives more than it has left: what it is on pace to use (Pace) is not negative
\* while the window runs.
LEMMA SpareFacts ==
  ASSUME RInv, NEW i \in Transfers, widOf(asked[i].to) = asked[i].w
  PROVE  Spare(i) \in Nat /\ Spare(i) <= Left(asked[i].to, asked[i].w)
<1> DEFINE c == asked[i]
<1>1. c.to \in Regions /\ c.want \in Nat BY Zenon DEF RInv, TypeOK
<1>2. c.w \in RegionWindows /\ clock[c.to] - c.w * Window \in 0 .. Window - 1
  BY <1>1, WidType, Zenon DEF RInv
<1>3. Left(c.to, c.w) \in Nat /\ granted[<<c.to, c.w>>] \in Nat
  BY <1>1, <1>2, LeftFacts, Zenon
<1>4. Pace(c.to, c.w) \in Nat
  <2> DEFINE e == clock[c.to] - c.w * Window
             g == granted[<<c.to, c.w>>]
             rate == MaxOf(e, 1)
  <2>1. e \in Nat /\ Window - e \in Nat /\ g \in Nat
    BY <1>2, <1>3, RegionConstants
  <2>2. rate \in Nat /\ rate >= 1 BY <2>1 DEF MaxOf
  <2>3. Pace(c.to, c.w) = (g * (Window - e) + rate - 1) \div rate BY Zenon DEF Pace
  <2> HIDE DEF e, g, rate
  <2>4. g * (Window - e) \in Nat BY <2>1
  <2> DEFINE m == g * (Window - e)
  <2> HIDE DEF m
  <2>5. m \in Nat BY <2>4, Zenon DEF m
  <2>6. (m + rate - 1) \div rate \in Nat BY <2>2, <2>5
  <2> QED BY <2>3, <2>6, Zenon DEF m
<1>5. Spare(i) = MaxOf(MinOf(c.want, Left(c.to, c.w) - Pace(c.to, c.w)), 0) BY Zenon DEF Spare
<1> HIDE DEF c
<1>6. MaxOf(MinOf(c.want, Left(c.to, c.w) - Pace(c.to, c.w)), 0) \in Nat
      /\ MaxOf(MinOf(c.want, Left(c.to, c.w) - Pace(c.to, c.w)), 0) <= Left(c.to, c.w)
  BY <1>1, <1>3, <1>4 DEF MaxOf, MinOf
<1> QED BY <1>5, <1>6, Zenon DEF c

----------------------------------------------------------------------------
(* The sums of TransfersBalance when one allocation and one transfer move. *)

\* There are finitely many transfers, so their sums are defined.
LEMMA TransfersFinite == IsFiniteSet(Transfers)
<1>1. 1 \in Int /\ MaxTransfers \in Int /\ IsFiniteSet(Hubs) BY RegionConstants
<1> DEFINE I == 1 .. MaxTransfers
<1>2. IsFiniteSet(I) BY <1>1, FS_Interval, Zenon
<1> HIDE DEF I
<1>3. IsFiniteSet(Hubs \X I) BY <1>1, <1>2, FS_Product, Zenon
<1> QED BY <1>3, Zenon DEF Transfers, I

\* Allocation that a transfer takes from its lender, or gives to its borrower, in one window leaves
\* every window's balance as it was.
LEMMA BalanceMoves ==
  ASSUME RInv, TypeOK', NEW r \in Regions, NEW v \in RegionWindows, NEW i \in Transfers, NEW n \in Int,
         alloc' = [alloc EXCEPT ![<<r, v>>] = @ - n],
         \A w \in RegionWindows : \A j \in Transfers : j # i \/ w # v => Transit(w)'[j] = Transit(w)[j],
         Transit(v)'[i] = Transit(v)[i] + n
  PROVE  TransfersBalance'
<1> SUFFICES ASSUME NEW w \in RegionWindows
             PROVE  SumFunctionOnSet(AllocAt(w)', Regions) + SumFunctionOnSet(Transit(w)', Transfers) = 0
  BY Zenon DEF TransfersBalance
<1> DEFINE A == AllocAt(w)
           A1 == AllocAt(w)'
           T == Transit(w)
           T1 == Transit(w)'
<1>1. IsFiniteSet(Regions) /\ IsFiniteSet(Transfers)
  BY RegionConstants, TransfersFinite, Zenon
<1>2. \A x \in Regions : A[x] \in Int /\ A1[x] \in Int
  BY Zenon DEF AllocAt, RInv, TypeOK, RegionEntries
<1>3. \A j \in Transfers : T[j] \in Int /\ T1[j] \in Int
  BY DEF Transit, RInv, TypeOK
<1>4. SumFunctionOnSet(A, Regions) + SumFunctionOnSet(T, Transfers) = 0
  BY Zenon DEF RInv, TransfersBalance
<1>5. \A x \in Regions \ {r} : A1[x] = A[x]
  BY Zenon DEF AllocAt, RInv, TypeOK, RegionEntries
<1>6. A1[r] = IF w = v THEN A[r] - n ELSE A[r]
  BY Zenon DEF AllocAt, RInv, TypeOK, RegionEntries
<1>7. \A j \in Transfers \ {i} : T1[j] = T[j]
  BY Zenon
<1>8. T1[i] = IF w = v THEN T[i] + n ELSE T[i]
  BY Zenon
<1> HIDE DEF A, A1, T, T1
<1>9. SumFunctionOnSet(A1, Regions) = SumFunctionOnSet(A, Regions) + (A1[r] - A[r])
  BY <1>1, <1>2, <1>5, SumUpdate
<1>10. SumFunctionOnSet(T1, Transfers) = SumFunctionOnSet(T, Transfers) + (T1[i] - T[i])
  BY <1>1, <1>3, <1>7, SumUpdate
<1>11. SumFunctionOnSet(A, Regions) \in Int /\ SumFunctionOnSet(T, Transfers) \in Int
  BY <1>1, <1>2, <1>3, SumType, Zenon
<1>12. A[r] \in Int /\ T[i] \in Int BY <1>2, <1>3, Zenon
<1>13. SumFunctionOnSet(A1, Regions) + SumFunctionOnSet(T1, Transfers) = 0
  BY <1>4, <1>6, <1>8, <1>9, <1>10, <1>11, <1>12
<1> QED BY <1>13, Zenon DEF A1, T1

\* Steps that touch no counter and no transfer on record keep the sums.
LEMMA CountersKept ==
  ASSUME RInv, UNCHANGED <<granted, alloc, lent, credited, asked>>
  PROVE  TransfersBalance' /\ NoRegionOverdrawn'
<1>1. NoRegionOverdrawn' BY Zenon DEF RInv, NoRegionOverdrawn, Base, floor, FloorOf
<1>2. \A w : AllocAt(w)' = AllocAt(w) /\ Transit(w)' = Transit(w) BY Zenon DEF AllocAt, Transit
<1> QED BY <1>1, <1>2, Zenon DEF RInv, TransfersBalance

----------------------------------------------------------------------------
\* A node at rest.
LEMMA RestingType == Resting \in Rounds /\ Resting.pc = "idle"
BY RegionConstants DEF Resting, Rounds

\* A window's first use: nothing granted, lent or asked, and every node at rest.
LEMMA RegionsStart == RegionsInit => RInv
<1> SUFFICES ASSUME RegionsInit PROVE RInv BY Zenon
<1>1. TypeOK
  BY RegionConstants, RestingType DEF RegionsInit, TypeOK, NotLent, NotAsked, NoWindow
<1>2. TransfersBalance
  <2> SUFFICES ASSUME NEW w \in RegionWindows
               PROVE  SumFunctionOnSet(AllocAt(w), Regions) + SumFunctionOnSet(Transit(w), Transfers) = 0
    BY Zenon DEF TransfersBalance
  <2>1. IsFiniteSet(Regions) /\ IsFiniteSet(Transfers)
    BY RegionConstants, TransfersFinite, Zenon
  <2> DEFINE A == AllocAt(w)
             T == Transit(w)
  <2>2. \A r \in Regions : A[r] = 0 BY Zenon DEF RegionsInit, AllocAt, RegionEntries
  <2>3. \A i \in Transfers : T[i] = 0 BY Zenon DEF RegionsInit, Transit
  <2> HIDE DEF A, T
  <2>4. SumFunctionOnSet(A, Regions) = 0 /\ SumFunctionOnSet(T, Transfers) = 0
    BY <2>1, <2>2, <2>3, SumZero, Zenon
  <2> QED BY <2>4 DEF A, T
<1>3. NoRegionOverdrawn
  BY BaseType DEF RegionsInit, NoRegionOverdrawn, RegionEntries
<1>4. LoansOnRecord
  BY RegionConstants, Zenon DEF RegionsInit, LoansOnRecord, NodeOnRecord, Transfers, Resting
<1> QED BY <1>1, <1>2, <1>3, <1>4, Zenon DEF RInv

\* The clock moves; grants and returns of a region stay within its allocation.
LEMMA RegionTickStep ==
  ASSUME RInv, NEW r \in Regions, RegionTick(r)
  PROVE  RInv'
<1>1. TypeOK'
  <2>1. clock[r] \in 0 .. RegionTime /\ clock[r] < RegionTime /\ RegionTime \in Nat
    BY RegionConstants, Zenon DEF RegionTick, RInv, TypeOK
  <2>2. clock[r] + 1 \in 0 .. RegionTime BY <2>1
  <2>3. clock' \in [Regions -> 0 .. RegionTime] BY <2>2, Zenon DEF RegionTick, RInv, TypeOK
  <2> QED BY <2>3, Zenon DEF RegionTick, RInv, TypeOK
<1>2. LoansOnRecord' BY Zenon DEF RegionTick, RInv, LoansOnRecord, NodeOnRecord
<1> QED BY <1>1, <1>2, CountersKept, Zenon DEF RegionTick, RInv

\* A grant is sized from what is left of the allocation (Size), so the region stays within it; it may
\* record that the hub needs to borrow (Need).
LEMMA RegionGrantStep ==
  ASSUME RInv, NEW h \in Hubs, NEW target \in RegionTargets, NEW n \in 1 .. 2, RegionGrant(h, target, n)
  PROVE  RInv'
<1> DEFINE r == RegionOf[h]
           w == widOf(r)
           size == GrantSize(Left(r, w), n, Capped(target, Quota))
<1>1. r \in Regions /\ w \in RegionWindows /\ <<r, w>> \in RegionEntries
  BY RegionConstants, WidType, Zenon DEF RInv, RegionEntries
<1>2. Left(r, w) \in Nat /\ granted[<<r, w>>] \in Nat /\ alloc[<<r, w>>] \in Int
      /\ granted[<<r, w>>] + Left(r, w) = Base(r) + alloc[<<r, w>>]
  BY <1>1, LeftFacts, Zenon
<1>3. CASE Left(r, w) > 0
  <2>1. granted' = [granted EXCEPT ![<<r, w>>] = @ + size]
        /\ UNCHANGED <<clock, alloc, lent, credited, asked, replies, needs, node, asks>>
    BY <1>3, Zenon DEF RegionGrant
  <2>2. size \in Nat /\ size <= Left(r, w)
    <3>1. Left(r, w) \in Nat \ {0} /\ target \in Nat \ {0} /\ Quota \in Nat \ {0}
      BY <1>2, <1>3, RegionConstants
    <3> QED BY <3>1, SizeFacts, Zenon
  <2> HIDE DEF size, r, w
  <2>3. TypeOK' BY <1>1, <1>2, <2>1, <2>2 DEF RInv, TypeOK
  <2>4. LoansOnRecord' BY <2>1, Zenon DEF RInv, LoansOnRecord, NodeOnRecord
  <2>5. TransfersBalance'
    <3>1. \A v : AllocAt(v)' = AllocAt(v) /\ Transit(v)' = Transit(v) BY <2>1, Zenon DEF AllocAt, Transit
    <3> QED BY <3>1, Zenon DEF RInv, TransfersBalance
  <2>6. NoRegionOverdrawn'
    <3> SUFFICES ASSUME NEW x \in RegionEntries PROVE granted'[x] <= Base(x[1]) + alloc'[x]
      BY Zenon DEF NoRegionOverdrawn, Base, floor, FloorOf
    <3>1. CASE x = <<r, w>>
      <4>1. granted'[x] = granted[<<r, w>>] + size /\ alloc'[x] = alloc[<<r, w>>] /\ x[1] = r
        BY <1>1, <2>1, <3>1, Zenon DEF RInv, TypeOK
      <4>2. Base(r) \in Nat BY <1>1, BaseType, Zenon
      <4> QED BY <1>2, <2>2, <4>1, <4>2
    <3>2. CASE x # <<r, w>>
      BY <2>1, <3>2, Zenon DEF RInv, TypeOK, NoRegionOverdrawn
    <3> QED BY <3>1, <3>2, Zenon
  <2> QED BY <2>3, <2>4, <2>5, <2>6, Zenon DEF RInv
<1>4. CASE ~(Left(r, w) > 0)
  <2>1. needs' = [needs EXCEPT ![h] = w]
        /\ UNCHANGED <<clock, granted, alloc, lent, credited, asked, replies, node, asks>>
    BY <1>4, Zenon DEF RegionGrant
  <2> HIDE DEF w, r
  <2>2. TypeOK' BY <1>1, <2>1, Zenon DEF RInv, TypeOK
  <2>3. LoansOnRecord' BY <2>1, Zenon DEF RInv, LoansOnRecord, NodeOnRecord
  <2> QED BY <2>1, <2>2, <2>3, CountersKept, Zenon DEF RInv
<1> QED BY <1>3, <1>4, Zenon

\* Unused tokens that come back lower what the region has granted and nothing else.
LEMMA ReturnStep ==
  ASSUME RInv, NEW r \in Regions, NEW n \in RegionTargets, RegionReturn(r, n)
  PROVE  RInv'
<1> DEFINE x == <<r, widOf(r)>>
<1>1. x \in RegionEntries BY WidType, Zenon DEF RInv, RegionEntries
<1>2. granted[x] \in Nat /\ n \in Nat /\ n <= granted[x]
  BY <1>1, RegionConstants DEF RInv, TypeOK, RegionReturn
<1>3. granted' = [granted EXCEPT ![x] = Credit(@, n)]
      /\ UNCHANGED <<clock, alloc, lent, credited, asked, replies, needs, node, asks>>
  BY Zenon DEF RegionReturn
<1> HIDE DEF x
<1>4. granted' = [granted EXCEPT ![x] = @ - n]
  BY <1>1, <1>2, <1>3, Zenon DEF RInv, TypeOK, Credit, MinOf
<1>5. TypeOK' BY <1>1, <1>2, <1>3, <1>4 DEF RInv, TypeOK
<1>6. LoansOnRecord' BY <1>3, Zenon DEF RInv, LoansOnRecord, NodeOnRecord
<1>7. TransfersBalance'
  <2>1. \A v : AllocAt(v)' = AllocAt(v) /\ Transit(v)' = Transit(v) BY <1>3, Zenon DEF AllocAt, Transit
  <2> QED BY <2>1, Zenon DEF RInv, TransfersBalance
<1>8. NoRegionOverdrawn'
  <2> SUFFICES ASSUME NEW y \in RegionEntries PROVE granted'[y] <= Base(y[1]) + alloc'[y]
    BY Zenon DEF NoRegionOverdrawn, Base, floor, FloorOf
  <2>1. granted[y] <= Base(y[1]) + alloc[y] /\ alloc'[y] = alloc[y] /\ y[1] \in Regions
    BY <1>3, Zenon DEF RInv, NoRegionOverdrawn, RegionEntries
  <2>2. granted'[y] \in Nat /\ granted[y] \in Nat /\ alloc[y] \in Int /\ granted'[y] <= granted[y]
    BY <1>1, <1>2, <1>4 DEF RInv, TypeOK
  <2>3. Base(y[1]) \in Nat BY <2>1, BaseType, Zenon
  <2> QED BY <2>1, <2>2, <2>3
<1> QED BY <1>5, <1>6, <1>7, <1>8, Zenon DEF RInv

\* A round of rebalancing starts, moves on and ends: counters and transfers stay as they are, and
\* what a node is about to credit is on record.
LEMMA RoundStep ==
  ASSUME RInv, NEW h \in Hubs, NEW n \in Rounds, node' = [node EXCEPT ![h] = n],
         n.pc = "idle" \/ (n.pc = "ask" /\ n.w \in RegionWindows)
           \/ (n.pc = "credit" /\ n.id >= 1 /\ n.w \in RegionWindows /\ asked[<<h, n.id>>].w = n.w
               /\ n.given > 0 /\ lent[<<h, n.id>>] = n.given),
         needs' \in [Hubs -> RegionWindows \cup {NoWindow}],
         UNCHANGED <<clock, granted, alloc, lent, credited, asked, replies, asks>>
  PROVE  RInv'
<1>1. node' \in [Hubs -> Rounds] BY Zenon DEF RInv, TypeOK
<1>2. TypeOK' BY <1>1, Zenon DEF RInv, TypeOK
<1>3. ASSUME NEW g \in Hubs PROVE NodeOnRecord(g)'
  <2>1. CASE g = h
    <3>1. node'[g] = n BY <2>1, Zenon DEF RInv, TypeOK
    <3> QED BY <2>1, <3>1, Zenon DEF NodeOnRecord
  <2>2. CASE g # h
    <3>1. node'[g] = node[g] BY <2>2, Zenon DEF RInv, TypeOK
    <3>2. NodeOnRecord(g) BY Zenon DEF RInv, LoansOnRecord
    <3> QED BY <3>1, <3>2, Zenon DEF NodeOnRecord
  <2> QED BY <2>1, <2>2, Zenon
<1>4. LoansOnRecord' BY <1>3, Zenon DEF RInv, LoansOnRecord, NodeOnRecord
<1> QED BY <1>2, <1>4, CountersKept, Zenon DEF RInv

\* A rebalance starts a round and moves no allocation.
LEMMA RebalanceStep ==
  ASSUME RInv, NEW h \in Hubs, NEW t, Rebalance(h, t)
  PROVE  RInv'
<1> DEFINE n == [Resting EXCEPT !.pc = "ask", !.w = needs[h], !.left = Regions \ {RegionOf[h]}]
<1>1. needs[h] \in RegionWindows BY Zenon DEF Rebalance, RInv, TypeOK
<1>2. n \in Rounds /\ n.pc = "ask" /\ n.w \in RegionWindows
  BY <1>1, RestingType, Zenon DEF Rounds
<1>3. needs' \in [Hubs -> RegionWindows \cup {NoWindow}] BY Zenon DEF Rebalance, RInv, TypeOK
<1>4. UNCHANGED <<clock, granted, alloc, lent, credited, asked, replies, asks>> BY Zenon DEF Rebalance
<1>5. CASE node' = [node EXCEPT ![h] = n]
  <2> HIDE DEF n
  <2> QED BY <1>2, <1>3, <1>4, <1>5, RoundStep, Zenon
<1>6. CASE node' = node
  <2>1. TypeOK' BY <1>3, <1>4, <1>6, Zenon DEF RInv, TypeOK
  <2>2. LoansOnRecord' BY <1>4, <1>6, Zenon DEF RInv, LoansOnRecord, NodeOnRecord
  <2> QED BY <1>4, <2>1, <2>2, CountersKept, Zenon DEF RInv
<1> QED BY <1>5, <1>6, Zenon DEF Rebalance

\* A round that asked every peer, or was cut by a restart, leaves its node at rest; a loan on its way is lost.
LEMMA RestStep ==
  ASSUME RInv, NEW h \in Hubs, Exhausted(h) \/ Restart(h)
  PROVE  RInv'
<1>1. needs' \in [Hubs -> RegionWindows \cup {NoWindow}] BY Zenon DEF Exhausted, Restart, RInv, TypeOK
<1>2. node' = [node EXCEPT ![h] = Resting]
      /\ UNCHANGED <<clock, granted, alloc, lent, credited, asked, replies, asks>>
  BY Zenon DEF Exhausted, Restart
<1> QED BY <1>1, <1>2, RestingType, RoundStep, Zenon

\* The answer a node hears is the one its transfer has on record.
LEMMA HearStep ==
  ASSUME RInv, NEW h \in Hubs, NEW n \in 0 .. Quota, Hear(h, n)
  PROVE  RInv'
<1>1. <<<<h, node[h].id>>, n>> \in replies /\ node[h].pc = "wait" /\ n \in Nat
  BY RegionConstants DEF Hear
<1>2. n > 0 => lent[<<h, node[h].id>>] = n BY <1>1, Zenon DEF RInv, LoansOnRecord
<1>3. node[h].id >= 1 /\ node[h].w \in RegionWindows /\ asked[<<h, node[h].id>>].w = node[h].w
  BY <1>1, Zenon DEF RInv, LoansOnRecord, NodeOnRecord
<1>4. node[h] \in Rounds /\ needs' \in [Hubs -> RegionWindows \cup {NoWindow}]
      /\ UNCHANGED <<clock, granted, alloc, lent, credited, asked, replies, asks>>
  BY Zenon DEF Hear, RInv, TypeOK
<1>5. CASE n > 0
  <2> DEFINE m == [node[h] EXCEPT !.pc = "credit", !.given = n]
  <2>1. node' = [node EXCEPT ![h] = m] BY <1>5, Zenon DEF Hear
  <2>2. m \in Rounds /\ m.pc = "credit" /\ m.given = n /\ m.id = node[h].id /\ m.w = node[h].w
    BY <1>1, <1>4, Zenon DEF Rounds
  <2> HIDE DEF m
  <2> QED BY <1>2, <1>3, <1>4, <1>5, <2>1, <2>2, RoundStep, Zenon
<1>6. CASE ~(n > 0)
  <2> DEFINE m == [node[h] EXCEPT !.pc = "ask"]
  <2>1. node' = [node EXCEPT ![h] = m] BY <1>6, Zenon DEF Hear
  <2>2. m \in Rounds /\ m.pc = "ask" /\ m.w = node[h].w BY <1>4, Zenon DEF Rounds
  <2> HIDE DEF m
  <2> QED BY <1>3, <1>4, <2>1, <2>2, RoundStep, Zenon
<1> QED BY <1>5, <1>6, Zenon

\* A call given up moves the node to the next peer; its loan, made or not, is not credited.
LEMMA TimeoutStep ==
  ASSUME RInv, NEW h \in Hubs, Timeout(h)
  PROVE  RInv'
<1> DEFINE m == [node[h] EXCEPT !.pc = "ask"]
<1>1. node[h].w \in RegionWindows BY Zenon DEF Timeout, RInv, LoansOnRecord, NodeOnRecord
<1>2. node[h] \in Rounds /\ needs' \in [Hubs -> RegionWindows \cup {NoWindow}]
      /\ UNCHANGED <<clock, granted, alloc, lent, credited, asked, replies, asks>>
  BY Zenon DEF Timeout, RInv, TypeOK
<1>3. node' = [node EXCEPT ![h] = m] BY Zenon DEF Timeout
<1>4. m \in Rounds /\ m.pc = "ask" /\ m.w = node[h].w BY <1>2, Zenon DEF Rounds
<1> HIDE DEF m
<1> QED BY <1>1, <1>2, <1>3, <1>4, RoundStep, Zenon

\* A fresh transfer: nothing was lent under its id.
LEMMA AskStep ==
  ASSUME RInv, NEW h \in Hubs, NEW p \in Regions, Ask(h, p)
  PROVE  RInv'
<1> DEFINE k == asks[h] + 1
           i == <<h, k>>
           query == [to |-> p, w |-> node[h].w, want |-> MaxOf(Quota \div 4, 1)]
<1>1. asks[h] \in 0 .. MaxTransfers /\ asks[h] < MaxTransfers /\ MaxTransfers \in Nat
  BY RegionConstants, Zenon DEF Ask, RInv, TypeOK
<1>2. k \in 1 .. MaxTransfers /\ k > asks[h] /\ i \in Transfers
  BY <1>1 DEF Transfers
<1>3. asked[i] = NotAsked /\ lent[i] = NotLent /\ i \notin credited
  BY <1>2, Zenon DEF RInv, LoansOnRecord
<1>4. node[h].w \in RegionWindows /\ node[h].w \in Nat
  <2>1. node[h].w \in RegionWindows BY Zenon DEF Ask, RInv, LoansOnRecord, NodeOnRecord
  <2>2. RegionWindows \subseteq Nat BY DEF RegionWindows
  <2> QED BY <2>1, <2>2, Zenon
<1>5. MaxOf(Quota \div 4, 1) \in Nat
  <2>1. Quota \div 4 \in Nat BY RegionConstants
  <2> QED BY <2>1, Zenon DEF MaxOf
<1>6. query \in [to : Regions, w : RegionWindows \cup {NoWindow}, want : Nat] /\ query # NotAsked
  BY <1>4, <1>5 DEF NotAsked, NoWindow
<1>7. /\ asks' = [asks EXCEPT ![h] = k]
      /\ asked' = [asked EXCEPT ![i] = query]
      /\ node' = [node EXCEPT ![h] = [@ EXCEPT !.pc = "wait", !.left = node[h].left \ {p}, !.id = k]]
      /\ UNCHANGED <<clock, granted, alloc, lent, credited, replies, needs>>
      /\ node[h].pc = "ask"
  BY Zenon DEF Ask, RInv, TypeOK
<1>8. query.w = node[h].w BY Zenon
<1> HIDE DEF query, k, i
<1>9. TypeOK'
  <2>1. asked' \in [Transfers -> [to : Regions, w : RegionWindows \cup {NoWindow}, want : Nat]]
    BY <1>6, <1>7, Zenon DEF RInv, TypeOK
  <2>2. asks' \in [Hubs -> 0 .. MaxTransfers]
    BY <1>2, <1>7 DEF RInv, TypeOK
  <2>3. k \in 0 .. MaxTransfers BY <1>2
  <2>4. node[h] \in Rounds BY Zenon DEF RInv, TypeOK
  <2>5. [node[h] EXCEPT !.pc = "wait", !.left = node[h].left \ {p}, !.id = k] \in Rounds
    BY <2>3, <2>4, Zenon DEF Rounds
  <2>6. node' \in [Hubs -> Rounds]
    <3> DEFINE m == [node[h] EXCEPT !.pc = "wait", !.left = node[h].left \ {p}, !.id = k]
    <3>1. node' = [node EXCEPT ![h] = m] /\ m \in Rounds BY <1>7, <2>5, Zenon
    <3> HIDE DEF m
    <3> QED BY <3>1, Zenon DEF RInv, TypeOK
  <2> QED BY <1>7, <2>1, <2>2, <2>6, Zenon DEF RInv, TypeOK
<1>10. TransfersBalance'
  <2>1. \A w \in RegionWindows : AllocAt(w)' = AllocAt(w) BY <1>7, Zenon DEF AllocAt
  <2>2. \A w \in RegionWindows : Transit(w)' = Transit(w)
    <3> SUFFICES ASSUME NEW w \in RegionWindows, NEW j \in Transfers
                 PROVE  (IF asked'[j].w = w /\ lent'[j] # NotLent /\ j \notin credited' THEN lent'[j] ELSE 0)
                        = (IF asked[j].w = w /\ lent[j] # NotLent /\ j \notin credited THEN lent[j] ELSE 0)
      BY Zenon DEF Transit
    <3>1. CASE j = i BY <1>3, <1>7, <3>1, Zenon
    <3>2. CASE j # i BY <1>7, <3>2, Zenon DEF RInv, TypeOK
    <3> QED BY <3>1, <3>2, Zenon
  <2> QED BY <2>1, <2>2, Zenon DEF RInv, TransfersBalance
<1>11. NoRegionOverdrawn' BY <1>7, Zenon DEF RInv, NoRegionOverdrawn, Base, floor, FloorOf
<1>12. LoansOnRecord'
  <2>0. asks' \in [Hubs -> Int] /\ asks \in [Hubs -> Int] BY <1>9 DEF RInv, TypeOK
  <2>1. \A g \in Hubs, n \in 1 .. MaxTransfers : n > asks'[g] => asked'[<<g, n>>] = NotAsked
    <3> SUFFICES ASSUME NEW g \in Hubs, NEW n \in 1 .. MaxTransfers, n > asks'[g]
                 PROVE  asked'[<<g, n>>] = NotAsked
      BY Zenon
    <3>1. n > asks[g] BY <1>2, <1>7, <2>0
    <3>2. <<g, n>> # i
      <4>1. g = h => n > k BY <1>7, Zenon DEF RInv, TypeOK
      <4>2. g = h => n # k BY <4>1, <1>2
      <4> QED BY <4>2, Zenon DEF i
    <3>3. asked[<<g, n>>] = NotAsked BY <3>1, Zenon DEF RInv, LoansOnRecord
    <3>4. <<g, n>> \in Transfers BY Zenon DEF Transfers
    <3> QED BY <1>7, <3>2, <3>3, <3>4, Zenon DEF RInv, TypeOK
  <2>2. \A j \in Transfers : asked'[j] = NotAsked => lent'[j] = NotLent /\ j \notin credited'
    BY <1>6, <1>7, Zenon DEF RInv, TypeOK, LoansOnRecord
  <2>3. /\ \A j \in credited' : lent'[j] # NotLent
        /\ \A x \in replies' : x[2] > 0 => lent'[x[1]] = x[2]
    BY <1>7, Zenon DEF RInv, LoansOnRecord
  <2>4. \A x \in replies' : asked'[x[1]] # NotAsked
    BY <1>6, <1>7, Zenon DEF RInv, TypeOK, LoansOnRecord
  <2>5. ASSUME NEW g \in Hubs PROVE NodeOnRecord(g)'
    <3>1. CASE g = h
      <4>1. node'[g].pc = "wait" /\ node'[g].id = k /\ node'[g].w = node[h].w
        BY <1>7, <3>1 DEF RInv, TypeOK
      <4>2. asked'[<<g, k>>] = query BY <1>2, <1>7, <3>1, Zenon DEF RInv, TypeOK, i
      <4>3. node'[g].id >= 1 BY <1>2, <4>1
      <4> QED BY <1>4, <1>8, <4>1, <4>2, <4>3, Zenon DEF NodeOnRecord
    <3>2. CASE g # h
      <4>1. node'[g] = node[g] BY <1>7, <3>2, Zenon DEF RInv, TypeOK
      <4>2. \A n : <<g, n>> # i BY <3>2, Zenon DEF i
      <4>3. \A n \in 1 .. MaxTransfers : asked'[<<g, n>>] = asked[<<g, n>>]
        BY <1>7, <3>2, <4>2, Zenon DEF RInv, TypeOK, Transfers
      <4>4. node[g].id \in 0 .. MaxTransfers BY Zenon DEF RInv, TypeOK, Rounds
      <4>5. node[g].pc \in {"wait", "credit"} => node[g].id \in 1 .. MaxTransfers
        <5>1. node[g].pc \in {"wait", "credit"} => node[g].id >= 1 BY Zenon DEF RInv, LoansOnRecord, NodeOnRecord
        <5> QED BY <4>4, <5>1
      <4>6. NodeOnRecord(g) BY Zenon DEF RInv, LoansOnRecord
      <4>7. node[g].pc \in {"wait", "credit"} => asked'[<<g, node[g].id>>] = asked[<<g, node[g].id>>]
        BY <4>3, <4>5, Zenon
      <4> QED BY <1>7, <4>1, <4>6, <4>7, Zenon DEF NodeOnRecord
    <3> QED BY <3>1, <3>2, Zenon
  <2> QED BY <2>1, <2>2, <2>3, <2>4, <2>5, Zenon DEF LoansOnRecord
<1> QED BY <1>9, <1>10, <1>11, <1>12, Zenon DEF RInv

\* The lender gives what it has left at most, once, and its allocation goes down by as much as is
\* now on its way.
LEMMA BorrowStep ==
  ASSUME RInv, NEW i \in Transfers, Borrow(i)
  PROVE  RInv'
<1> DEFINE c == asked[i]
           x == <<c.to, c.w>>
           first == widOf(c.to) = c.w /\ lent[i] = NotLent
           give == IF widOf(c.to) # c.w THEN 0
                   ELSE IF lent[i] # NotLent THEN lent[i] ELSE Spare(i)
<1>1. /\ asked[i] # NotAsked
      /\ alloc' = IF first THEN [alloc EXCEPT ![x] = @ - give] ELSE alloc
      /\ lent' = IF first THEN [lent EXCEPT ![i] = give] ELSE lent
      /\ replies' = replies \cup {<<i, give>>}
      /\ UNCHANGED <<clock, granted, credited, asked, needs, node, asks>>
  BY Zenon DEF Borrow, Lend
<1>2. c.to \in Regions BY Zenon DEF RInv, TypeOK
<1>3. first => c.w \in RegionWindows /\ x \in RegionEntries
  BY <1>2, WidType, Zenon DEF RInv, RegionEntries
<1>4. first => give = Spare(i) /\ give \in Nat /\ give <= Left(c.to, c.w)
  BY SpareFacts, Zenon
<1>5. give \in Nat
  <2>1. lent[i] \in Nat \cup {NotLent} BY Zenon DEF RInv, TypeOK
  <2> QED BY <1>4, <2>1, Zenon
<1>6. give > 0 => lent'[i] = give
  BY <1>1 DEF RInv, TypeOK
<1>7. \A j \in Transfers : lent[j] # NotLent => lent'[j] = lent[j]
  BY <1>1, Zenon DEF RInv, TypeOK
<1>8. TypeOK'
  <2>1. alloc' \in [RegionEntries -> Int] BY <1>1, <1>3, <1>5 DEF RInv, TypeOK
  <2>2. lent' \in [Transfers -> Nat \cup {NotLent}] BY <1>1, <1>5, Zenon DEF RInv, TypeOK
  <2>3. replies' \in SUBSET (Transfers \X Nat) BY <1>1, <1>5 DEF RInv, TypeOK
  <2> HIDE DEF c, x, first, give
  <2> QED BY <1>1, <2>1, <2>2, <2>3, Zenon DEF RInv, TypeOK
<1>9. LoansOnRecord'
  <2> HIDE DEF c, x, first, give
  <2>1. \A g \in Hubs, n \in 1 .. MaxTransfers : n > asks'[g] => asked'[<<g, n>>] = NotAsked
    BY <1>1, Zenon DEF RInv, LoansOnRecord
  <2>2. \A j \in Transfers : asked'[j] = NotAsked => lent'[j] = NotLent /\ j \notin credited'
    BY <1>1, Zenon DEF RInv, TypeOK, LoansOnRecord
  <2>3. \A j \in credited' : lent'[j] # NotLent
    BY <1>1, <1>7, Zenon DEF RInv, TypeOK, LoansOnRecord
  <2>4. ASSUME NEW y \in replies', y[2] > 0 PROVE lent'[y[1]] = y[2]
    <3>1. CASE y \in replies
      <4>1. lent[y[1]] = y[2] /\ y[1] \in Transfers /\ y[2] \in Nat
        BY <2>4, <3>1, Zenon DEF RInv, TypeOK, LoansOnRecord
      <4>2. lent[y[1]] # NotLent BY <4>1 DEF NotLent
      <4> QED BY <1>7, <4>1, <4>2, Zenon
    <3>2. CASE y = <<i, give>> BY <1>6, <2>4, <3>2, Zenon
    <3> QED BY <1>1, <3>1, <3>2, Zenon
  <2>5. \A y \in replies' : asked'[y[1]] # NotAsked
    BY <1>1 DEF RInv, TypeOK, LoansOnRecord
  <2>6. ASSUME NEW g \in Hubs PROVE NodeOnRecord(g)'
    <3>1. NodeOnRecord(g) BY Zenon DEF RInv, LoansOnRecord
    <3>2. node[g].pc = "credit" => lent'[<<g, node[g].id>>] = lent[<<g, node[g].id>>]
      <4> SUFFICES ASSUME node[g].pc = "credit" PROVE lent'[<<g, node[g].id>>] = lent[<<g, node[g].id>>]
        BY Zenon
      <4>1. node[g].id >= 1 /\ node[g].given > 0 /\ lent[<<g, node[g].id>>] = node[g].given
        BY <3>1, Zenon DEF NodeOnRecord
      <4>2. node[g].id \in 0 .. MaxTransfers /\ node[g].given \in Nat BY Zenon DEF RInv, TypeOK, Rounds
      <4>3. <<g, node[g].id>> \in Transfers BY <4>1, <4>2 DEF Transfers
      <4>4. lent[<<g, node[g].id>>] # NotLent BY <4>1, <4>2 DEF NotLent
      <4> QED BY <1>7, <4>3, <4>4, Zenon
    <3> QED BY <1>1, <3>1, <3>2, Zenon DEF NodeOnRecord
  <2> QED BY <2>1, <2>2, <2>3, <2>4, <2>5, <2>6, Zenon DEF LoansOnRecord
<1>10. CASE ~first
  <2>1. UNCHANGED <<granted, alloc, lent, credited, asked>> BY <1>1, <1>10, Zenon
  <2> QED BY <1>8, <1>9, <2>1, CountersKept, Zenon DEF RInv
<1>11. CASE first
  <2>1. alloc' = [alloc EXCEPT ![x] = @ - give] /\ lent' = [lent EXCEPT ![i] = give]
    BY <1>1, <1>11, Zenon
  <2>2. c.w \in RegionWindows /\ x \in RegionEntries /\ lent[i] = NotLent /\ give <= Left(c.to, c.w)
    BY <1>3, <1>4, <1>11, Zenon
  <2>3. i \notin credited BY <2>2, Zenon DEF RInv, LoansOnRecord
  <2>4. x = <<c.to, c.w>> BY Zenon
  <2>5. c = asked[i] BY Zenon
  <2> HIDE DEF c, x, first, give
  <2>6. TransfersBalance'
    <3>1. PICK p \in Regions, v \in RegionWindows, d \in Int : p = c.to /\ v = c.w /\ d = give
      BY <1>2, <1>5, <2>2
    <3>2. \A w \in RegionWindows : \A j \in Transfers :
            j # i \/ w # v => Transit(w)'[j] = Transit(w)[j]
      BY <1>1, <2>1, <2>5, <3>1, Zenon DEF Transit, RInv, TypeOK
    <3>3. Transit(v)'[i] = Transit(v)[i] + d
      <4>1. Transit(v)[i] = 0 BY <2>2, Zenon DEF Transit
      <4>2. lent'[i] = d /\ d # NotLent BY <1>5, <2>1, <3>1 DEF RInv, TypeOK, NotLent
      <4>3. Transit(v)'[i] = d BY <1>1, <2>3, <2>5, <3>1, <4>2, Zenon DEF Transit
      <4> QED BY <4>1, <4>3
    <3>4. alloc' = [alloc EXCEPT ![<<p, v>>] = @ - d] BY <2>1, <2>4, <3>1, Zenon
    <3> QED BY <1>8, <3>2, <3>3, <3>4, BalanceMoves, Zenon
  <2>7. NoRegionOverdrawn'
    <3> SUFFICES ASSUME NEW y \in RegionEntries PROVE granted'[y] <= Base(y[1]) + alloc'[y]
      BY Zenon DEF NoRegionOverdrawn, Base, floor, FloorOf
    <3>1. CASE y = x
      <4>1. granted'[y] = granted[x] /\ alloc'[y] = alloc[x] - give /\ y[1] = c.to
        BY <1>1, <2>1, <2>2, <2>4, <3>1, Zenon DEF RInv, TypeOK
      <4>2. Left(c.to, c.w) \in Nat /\ granted[x] \in Nat /\ alloc[x] \in Int
            /\ granted[x] + Left(c.to, c.w) = Base(c.to) + alloc[x]
        BY <1>2, <2>2, <2>4, LeftFacts, Zenon
      <4>3. Base(c.to) \in Nat BY <1>2, BaseType, Zenon
      <4> QED BY <1>5, <2>2, <4>1, <4>2, <4>3
    <3>2. CASE y # x BY <1>1, <2>1, <3>2, Zenon DEF RInv, TypeOK, NoRegionOverdrawn
    <3> QED BY <3>1, <3>2, Zenon
  <2> QED BY <1>8, <1>9, <2>6, <2>7, Zenon DEF RInv
<1> QED BY <1>10, <1>11, Zenon

\* The borrower's allocation goes up by what was on its way, once.
LEMMA CreditStep ==
  ASSUME RInv, NEW h \in Hubs, CreditLoan(h)
  PROVE  RInv'
<1> DEFINE r == RegionOf[h]
           n == node[h]
           i == <<h, n.id>>
           ok == Creditable(r, n.w) /\ i \notin credited
<1>1. /\ n.pc = "credit"
      /\ alloc' = IF ok THEN [alloc EXCEPT ![<<r, n.w>>] = @ + n.given] ELSE alloc
      /\ credited' = IF ok THEN credited \cup {i} ELSE credited
      /\ node' = [node EXCEPT ![h] = Resting]
      /\ UNCHANGED <<clock, granted, lent, asked, replies, needs, asks>>
  BY Zenon DEF CreditLoan
<1>2. n.id >= 1 /\ n.w \in RegionWindows /\ asked[i].w = n.w /\ n.given > 0 /\ lent[i] = n.given
  BY <1>1, Zenon DEF RInv, LoansOnRecord, NodeOnRecord
<1>3. n.id \in 0 .. MaxTransfers /\ n.given \in Nat /\ r \in Regions
  BY RegionConstants, Zenon DEF RInv, TypeOK, Rounds
<1>4. i \in Transfers BY <1>2, <1>3 DEF Transfers
<1>5. <<r, n.w>> \in RegionEntries BY <1>2, <1>3, Zenon DEF RegionEntries
<1>6. lent[i] # NotLent BY <1>2, <1>3 DEF NotLent
<1>7. CASE ~ok
  <2>1. UNCHANGED <<alloc, credited>> BY <1>1, <1>7, Zenon
  <2>2. needs' \in [Hubs -> RegionWindows \cup {NoWindow}] BY <1>1, Zenon DEF RInv, TypeOK
  <2> QED BY <1>1, <2>1, <2>2, RestingType, RoundStep, Zenon
<1>8. CASE ok
  <2>1. alloc' = [alloc EXCEPT ![<<r, n.w>>] = @ + n.given] /\ credited' = credited \cup {i}
        /\ i \notin credited
    BY <1>1, <1>8, Zenon
  <2> HIDE DEF r, i, ok
  <2>2. TypeOK'
    <3>1. alloc' \in [RegionEntries -> Int] BY <1>3, <1>5, <2>1 DEF RInv, TypeOK
    <3>2. credited' \in SUBSET Transfers BY <1>4, <2>1, Zenon DEF RInv, TypeOK
    <3>3. node' \in [Hubs -> Rounds] BY <1>1, RestingType, Zenon DEF RInv, TypeOK
    <3> QED BY <1>1, <3>1, <3>2, <3>3, Zenon DEF RInv, TypeOK
  <2>3. LoansOnRecord'
    <3>1. ASSUME NEW g \in Hubs PROVE NodeOnRecord(g)'
      <4>1. CASE g = h BY <1>1, <4>1, RestingType, Zenon DEF RInv, TypeOK, NodeOnRecord
      <4>2. CASE g # h
        <5>1. node'[g] = node[g] BY <1>1, <4>2, Zenon DEF RInv, TypeOK
        <5>2. NodeOnRecord(g) BY Zenon DEF RInv, LoansOnRecord
        <5> QED BY <1>1, <5>1, <5>2, Zenon DEF NodeOnRecord
      <4> QED BY <4>1, <4>2, Zenon
    <3>2. \A j \in Transfers : asked'[j] = NotAsked => lent'[j] = NotLent /\ j \notin credited'
      BY <1>1, <1>6, <2>1, Zenon DEF RInv, LoansOnRecord
    <3>3. \A j \in credited' : lent'[j] # NotLent BY <1>1, <1>6, <2>1, Zenon DEF RInv, LoansOnRecord
    <3> QED BY <1>1, <3>1, <3>2, <3>3, Zenon DEF RInv, LoansOnRecord
  <2>4. \A y \in RegionEntries : alloc'[y] = IF y = <<r, n.w>> THEN alloc[y] + n.given ELSE alloc[y]
    BY <1>5, <2>1, Zenon DEF RInv, TypeOK
  <2>5. TransfersBalance'
    <3>1. PICK v \in RegionWindows, d \in Int : v = n.w /\ d = 0 - n.given
      <4>1. \A z \in Nat : 0 - z \in Int BY SMT
      <4> QED BY <1>2, <1>3, <4>1, Zenon
    <3>2. alloc' = [alloc EXCEPT ![<<r, v>>] = @ - d]
      <4>1. alloc[<<r, v>>] \in Int BY <1>5, <3>1, Zenon DEF RInv, TypeOK
      <4>2. alloc[<<r, v>>] + n.given = alloc[<<r, v>>] - d BY <1>3, <3>1, <4>1
      <4> QED BY <2>1, <3>1, <4>2, Zenon
    <3>3. \A w \in RegionWindows : \A j \in Transfers :
            j # i \/ w # v => Transit(w)'[j] = Transit(w)[j]
      BY <1>1, <1>2, <2>1, <3>1, Zenon DEF Transit, RInv, TypeOK
    <3>4. Transit(v)'[i] = Transit(v)[i] + d
      <4>1. Transit(v)[i] = n.given BY <1>2, <1>4, <1>6, <2>1, <3>1, Zenon DEF Transit
      <4>2. Transit(v)'[i] = 0 BY <1>4, <2>1, Zenon DEF Transit
      <4> QED BY <1>3, <3>1, <4>1, <4>2
    <3> QED BY <1>3, <1>4, <2>2, <3>2, <3>3, <3>4, BalanceMoves, Zenon
  <2>6. NoRegionOverdrawn'
    <3> SUFFICES ASSUME NEW y \in RegionEntries PROVE granted'[y] <= Base(y[1]) + alloc'[y]
      BY Zenon DEF NoRegionOverdrawn, Base, floor, FloorOf
    <3>1. granted'[y] = granted[y] /\ granted[y] \in Nat /\ alloc[y] \in Int BY <1>1, Zenon DEF RInv, TypeOK
    <3>2. alloc'[y] \in Int /\ alloc[y] <= alloc'[y] BY <1>3, <2>4, <3>1
    <3>3. y[1] \in Regions /\ granted[y] <= Base(y[1]) + alloc[y]
      BY Zenon DEF RInv, NoRegionOverdrawn, RegionEntries
    <3>4. Base(y[1]) \in Nat BY <3>3, BaseType, Zenon
    <3> QED BY <3>1, <3>2, <3>3, <3>4
  <2> QED BY <2>2, <2>3, <2>5, <2>6, Zenon DEF RInv
<1> QED BY <1>7, <1>8, Zenon

----------------------------------------------------------------------------
\* Every step keeps the invariant.
LEMMA RegionsStep == ASSUME RInv, [RegionsNext]_regionVars PROVE RInv'
<1>1. ASSUME NEW r \in Regions, RegionTick(r) PROVE RInv' BY <1>1, RegionTickStep, Zenon
<1>2. ASSUME NEW r \in Regions, NEW n \in RegionTargets, RegionReturn(r, n) PROVE RInv'
  BY <1>2, ReturnStep, Zenon
<1>3. ASSUME NEW h \in Hubs, NEW target \in RegionTargets, NEW n \in 1 .. 2, RegionGrant(h, target, n)
      PROVE  RInv'
  BY <1>3, RegionGrantStep, Zenon
<1>4. ASSUME NEW h \in Hubs, NEW t, Rebalance(h, t) PROVE RInv' BY <1>4, RebalanceStep, Zenon
<1>5. ASSUME NEW h \in Hubs, NEW p \in Regions, Ask(h, p) PROVE RInv' BY <1>5, AskStep, Zenon
<1>6. ASSUME NEW h \in Hubs, Exhausted(h) \/ Restart(h) PROVE RInv' BY <1>6, RestStep, Zenon
<1>7. ASSUME NEW i \in Transfers, Borrow(i) PROVE RInv' BY <1>7, BorrowStep, Zenon
<1>8. ASSUME NEW h \in Hubs, NEW n \in 0 .. Quota, Hear(h, n) PROVE RInv' BY <1>8, HearStep, Zenon
<1>9. ASSUME NEW h \in Hubs, Timeout(h) PROVE RInv' BY <1>9, TimeoutStep, Zenon
<1>10. ASSUME NEW h \in Hubs, CreditLoan(h) PROVE RInv' BY <1>10, CreditStep, Zenon
<1>11. CASE UNCHANGED regionVars
  <2>1. UNCHANGED <<clock, granted, alloc, lent, credited, asked, replies, needs, node, asks>>
    BY <1>11, Zenon DEF regionVars
  <2>2. TypeOK' BY <2>1, Zenon DEF RInv, TypeOK
  <2>3. LoansOnRecord' BY <2>1, Zenon DEF RInv, LoansOnRecord, NodeOnRecord
  <2> QED BY <2>1, <2>2, <2>3, CountersKept, Zenon DEF RInv
<1> QED BY <1>1, <1>2, <1>3, <1>4, <1>5, <1>6, <1>7, <1>8, <1>9, <1>10, <1>11, Zenon DEF RegionsNext

\* The inductive invariant of the regions (region/node.go, ledger/region.go): for any number of regions
\* and hub replicas, and whatever is lost, late or repeated, a transfer moves allocation and makes none,
\* no region has granted more than its allocation, and every loan about to be credited is on record.
THEOREM RegionsInvariance == RegionsSpec => []RInv
<1>1. RegionsInit => RInv BY RegionsStart, Zenon
<1>2. RInv /\ [RegionsNext]_regionVars => RInv' BY RegionsStep, Zenon
<1> QED BY <1>1, <1>2, PTL DEF RegionsSpec

\* What the invariant says of a window: all its grants fit the quota.
LEMMA QuotaFits == RInv => GlobalQuotaHolds
<1> SUFFICES ASSUME RInv, NEW w \in RegionWindows
             PROVE  SumFunctionOnSet(GrantedAt(w), Regions) <= Quota
  BY Zenon DEF GlobalQuotaHolds
<1> DEFINE G == GrantedAt(w)
           A == AllocAt(w)
           B == [r \in Regions |-> Base(r)]
           D == [r \in Regions |-> Base(r) + alloc[<<r, w>>]]
           T == Transit(w)
<1>1. IsFiniteSet(Regions) /\ IsFiniteSet(Transfers) BY RegionConstants, TransfersFinite, Zenon
<1>2. \A r \in Regions : G[r] \in Int /\ A[r] \in Int /\ B[r] \in Int /\ D[r] \in Int
  BY BaseType, LeftFacts DEF GrantedAt, AllocAt
<1>3. \A r \in Regions : D[r] = B[r] + A[r] BY Zenon DEF AllocAt
<1>4. \A r \in Regions : G[r] <= D[r]
  BY Zenon DEF GrantedAt, RInv, NoRegionOverdrawn, RegionEntries
<1>5. \A i \in Transfers : T[i] \in Nat BY Zenon DEF Transit, RInv, TypeOK
<1>6. SumFunctionOnSet(A, Regions) + SumFunctionOnSet(T, Transfers) = 0
  BY Zenon DEF RInv, TransfersBalance
<1>7. SumFunctionOnSet(B, Regions) = Quota BY SharesAddUp, Zenon
<1> HIDE DEF G, A, B, D, T
<1>8. SumFunctionOnSet(G, Regions) <= SumFunctionOnSet(D, Regions)
  BY <1>1, <1>2, <1>4, SumMonotone, Zenon
<1>9. SumFunctionOnSet(D, Regions) = SumFunctionOnSet(B, Regions) + SumFunctionOnSet(A, Regions)
  BY <1>1, <1>2, <1>3, SumAdd, Zenon
<1>10. SumFunctionOnSet(T, Transfers) \in Nat BY <1>1, <1>5, SumBound, Zenon
<1>11. SumFunctionOnSet(G, Regions) \in Int /\ SumFunctionOnSet(D, Regions) \in Int
       /\ SumFunctionOnSet(A, Regions) \in Int /\ Quota \in Int
  BY <1>1, <1>2, SumType, RegionConstants
<1>12. SumFunctionOnSet(G, Regions) <= Quota
  BY <1>6, <1>7, <1>8, <1>9, <1>10, <1>11
<1> QED BY <1>12, Zenon DEF G

\* Whatever happens between the regions, together they never grant more than the global quota in a window
\* (Base, Lend, Credit; region.go: "none can make the regions admit more than Q").
THEOREM GlobalQuota == RegionsSpec => []GlobalQuotaHolds
BY QuotaFits, RegionsInvariance, PTL

\* The same of every behaviour that explores the regions (Lend, Credit).
THEOREM AllRegionsInvariance == AllSpec => []AllRInv
<1>1. AllInit => AllRInv BY RegionsStart, Zenon DEF AllInit, AllRInv
<1>2. AllRInv /\ [AllNext]_<<part, vars, regionVars>> => AllRInv'
  <2> SUFFICES ASSUME part = "regions" => RInv, [AllNext]_<<part, vars, regionVars>>, part' = "regions"
               PROVE  RInv'
    BY Zenon DEF AllRInv
  <2>1. CASE OnlyLedger BY <2>1, Zenon DEF OnlyLedger
  <2>2. CASE OnlyRegions
    <3>1. RInv BY <2>2, Zenon DEF OnlyRegions
    <3>2. ~OnlyLedger BY <2>2, Zenon DEF OnlyRegions, OnlyLedger
    <3>3. AllNext => RegionsNext BY <3>2, Zenon DEF AllNext, RegionsNext
    <3>4. [RegionsNext]_regionVars BY <3>3, Zenon
    <3> QED BY <3>1, <3>4, RegionsStep, Zenon
  <2>3. CASE UNCHANGED <<part, vars, regionVars>>
    <3>1. RInv /\ UNCHANGED regionVars BY <2>3, Zenon
    <3> QED BY <3>1, RegionsStep, Zenon
  <2> QED BY <2>1, <2>2, <2>3, Zenon DEF AllNext
<1> QED BY <1>1, <1>2, PTL DEF AllSpec

\* The regions together grant no more than the global quota in a window (Base, Lend, Credit).
THEOREM AllGlobalQuota == AllSpec => []AllGlobalQuotaHolds
<1>1. AllRInv => AllGlobalQuotaHolds BY QuotaFits, Zenon DEF AllRInv, AllGlobalQuotaHolds
<1> QED BY <1>1, AllRegionsInvariance, PTL

----------------------------------------------------------------------------
(* The ledger, in every behaviour that explores it.                        *)

AllLedgerInv == part = "ledger" => LedgerInv

\* The ledger's counters cover what is out, whatever is lost, late or repeated (Lease, Return).
THEOREM AllLedgerInvariance ==
  ASSUME RecordsOutlast PROVE AllSpec => []AllLedgerInv
<1>1. AllInit => AllLedgerInv BY LedgerStart, Zenon DEF AllInit, AllLedgerInv
<1>2. AllLedgerInv /\ [AllNext]_<<part, vars, regionVars>> => AllLedgerInv'
  <2> SUFFICES ASSUME part = "ledger" => LedgerInv, [AllNext]_<<part, vars, regionVars>>, part' = "ledger"
               PROVE  LedgerInv'
    BY Zenon DEF AllLedgerInv
  <2>1. CASE OnlyRegions BY <2>1, Zenon DEF OnlyRegions
  <2>2. CASE OnlyLedger
    <3>1. LedgerInv BY <2>2, Zenon DEF OnlyLedger
    <3>2. ~OnlyRegions BY <2>2, Zenon DEF OnlyRegions, OnlyLedger
    <3>3. AllNext => Next BY <3>2, Zenon DEF AllNext, Next
    <3>4. [Next]_vars BY <3>3, Zenon
    <3> QED BY <3>1, <3>4, LedgerStep, Zenon
  <2>3. CASE UNCHANGED <<part, vars, regionVars>>
    <3>1. LedgerInv /\ UNCHANGED vars BY <2>3, Zenon
    <3> QED BY <3>1, LedgerStep, Zenon
  <2> QED BY <2>1, <2>2, <2>3, Zenon DEF AllNext
<1> QED BY <1>1, <1>2, PTL DEF AllSpec

\* No window hands out more than its limit, and no bucket more than its burst and what has refilled
\* (Spec.Limit: "cost per window, or the bucket's burst").
THEOREM LimitsHold ==
  ASSUME RecordsOutlast PROVE AllSpec => []AllLimitHolds
<1>1. AllLedgerInv => AllLimitHolds BY Zenon DEF AllLedgerInv, LedgerInv, AllLimitHolds
<1> QED BY <1>1, AllLedgerInvariance, PTL

\* The keys of an organisation together are within its budget (Ref.Parent).
THEOREM OrgBudgetsHold ==
  ASSUME RecordsOutlast PROVE AllSpec => []AllOrgBudgetHolds
<1>1. AllLedgerInv => AllOrgBudgetHolds BY Zenon DEF AllLedgerInv, LedgerInv, AllOrgBudgetHolds
<1> QED BY <1>1, AllLedgerInvariance, PTL

\* A sliding window lets no burst across a reset (SlidingWindow).
THEOREM SlidingWindowsSmooth ==
  ASSUME RecordsOutlast PROVE AllSpec => []AllSlidingSmooth
<1>1. AllLedgerInv => AllSlidingSmooth BY SmoothFits, Zenon DEF AllLedgerInv, AllSlidingSmooth
<1> QED BY <1>1, AllLedgerInvariance, PTL

\* A return takes effect once, however often it arrives (Return: "a retried call is applied once").
THEOREM ReturnsAppliedOnce ==
  ASSUME RecordsOutlast PROVE AllSpec => []AllAppliedOnce
<1>1. AllLedgerInv => AllAppliedOnce BY OnceFits, Zenon DEF AllLedgerInv, AllAppliedOnce
<1> QED BY <1>1, AllLedgerInvariance, PTL

=============================================================================
