------------------------------- MODULE Sums -------------------------------
(***************************************************************************)
(* Facts about the sum of an integer-valued function over a finite set     *)
(* (SumFunctionOnSet of the community module Functions).  The accounting   *)
(* arguments of this development - tokens granted, held, in flight and     *)
(* spent; allocations lent between regions - are all sums over the edges   *)
(* or the regions, so every proof that holds for any number of them rests  *)
(* on the lemmas below.                                                    *)
(*                                                                         *)
(* Induction is by minimal counterexample (WFMin) on the strict-subset     *)
(* ordering of a finite set, or on the natural numbers.                    *)
(***************************************************************************)
EXTENDS Integers, FiniteSets, Functions, FiniteSetTheorems,
        WellFoundedInduction, TLAPS

\* A nonempty set of subsets of a finite set has a minimal element.
LEMMA MinimalSubset ==
  ASSUME NEW S, IsFiniteSet(S), NEW T, T \subseteq SUBSET S, T # {}
  PROVE  \E x \in T : \A y \in T : ~(y \subseteq x /\ y # x)
<1>1. IsWellFoundedOn(StrictSubsetOrdering(S), SUBSET S)
  BY FS_StrictSubsetOrderingWellFounded, FS_FiniteSubsetsOfFinite
<1>2. PICK x \in T : \A y \in T : ~(<<y, x>> \in StrictSubsetOrdering(S))
  <2> HIDE DEF StrictSubsetOrdering
  <2> QED BY <1>1, WFMin
<1>3. ASSUME NEW y \in T, y \subseteq x, y # x PROVE FALSE
  <2>1. <<y, x>> \in (SUBSET S) \X (SUBSET S)
    OBVIOUS
  <2>2. <<y, x>> \in StrictSubsetOrdering(S)
    BY <2>1, <1>3 DEF StrictSubsetOrdering
  <2> QED BY <2>2, <1>2
<1> QED BY <1>3

\* A nonempty set of naturals has a least element.
LEMMA LeastNat ==
  ASSUME NEW T, T \subseteq Nat, T # {}
  PROVE  \E x \in T : \A y \in T : x <= y
<1>1. PICK x \in T : \A y \in T : ~(<<y, x>> \in OpToRel(<,Nat))
  <2> HIDE DEF OpToRel
  <2> QED BY NatLessThanWellFounded, WFMin
<1>2. ASSUME NEW y \in T, y < x PROVE FALSE
  <2>1. <<y, x>> \in OpToRel(<,Nat)
    BY <1>2 DEF OpToRel
  <2> QED BY <2>1, <1>1
<1> QED BY <1>2

\* The recursion SumFunctionOnSet unfolds, for a function g over sets of
\* indices; IsIter says that g solves it on the subsets of S, IsUpto on those
\* with at most n elements, Splits that any index may be summed first.
Pick(s) == CHOOSE x \in s : TRUE
SumFrom(f, g, t) == IF t = {} THEN 0 ELSE f[Pick(t)] + g[t \ {Pick(t)}]
IsIter(g, f, S) == g = [t \in SUBSET S |-> SumFrom(f, g, t)]
Splits(g, f, S) == \A t \in SUBSET S : \A x \in t : g[t] = f[x] + g[t \ {x}]
Upto(S, n) == {s \in SUBSET S : Cardinality(s) <= n}
IsUpto(g, f, S, n) == g = [t \in Upto(S, n) |-> SumFrom(f, g, t)]

\* Pick chooses a member.
LEMMA PickIn == ASSUME NEW s, s # {} PROVE Pick(s) \in s
BY DEF Pick

\* Removing an element of a finite set leaves a smaller one.
LEMMA Shrink ==
  ASSUME NEW S, IsFiniteSet(S), NEW t \in SUBSET S, NEW x \in t
  PROVE  /\ Cardinality(t) \in Nat
         /\ Cardinality(t \ {x}) \in Nat
         /\ Cardinality(t \ {x}) = Cardinality(t) - 1
<1>1. IsFiniteSet(t) BY FS_Subset
<1>2. Cardinality(t) \in Nat BY <1>1, FS_CardinalityType
<1>3. IsFiniteSet(t \ {x}) /\ Cardinality(t \ {x}) = Cardinality(t) - 1
  BY <1>1, FS_RemoveElement
<1>4. Cardinality(t \ {x}) \in Nat BY <1>3, FS_CardinalityType
<1> QED BY <1>2, <1>3, <1>4

\* A solution for the sets of at most n elements extends to n + 1.
LEMMA ExtendIter ==
  ASSUME NEW S, IsFiniteSet(S), NEW f, NEW n \in Nat, NEW g, IsUpto(g, f, S, n)
  PROVE  \E h : IsUpto(h, f, S, n + 1)
<1> DEFINE h == [t \in Upto(S, n + 1) |-> SumFrom(f, g, t)]
<1>1. ASSUME NEW t \in SUBSET S PROVE Cardinality(t) \in Nat
  BY FS_Subset, FS_CardinalityType
<1>2. ASSUME NEW t \in Upto(S, n + 1), t # {}
      PROVE  t \ {Pick(t)} \in Upto(S, n)
  <2>1. Pick(t) \in t /\ t \in SUBSET S /\ Cardinality(t) <= n + 1
    BY <1>2, PickIn DEF Upto
  <2>2. Cardinality(t) \in Nat /\ Cardinality(t \ {Pick(t)}) \in Nat
        /\ Cardinality(t \ {Pick(t)}) = Cardinality(t) - 1
    BY <2>1, Shrink
  <2>3. Cardinality(t \ {Pick(t)}) <= n
    BY <2>1, <2>2
  <2> QED BY <2>1, <2>3 DEF Upto
<1>3. Upto(S, n) \subseteq Upto(S, n + 1)
  <2> SUFFICES ASSUME NEW t \in SUBSET S, Cardinality(t) <= n
               PROVE  Cardinality(t) <= n + 1
    BY DEF Upto
  <2> QED BY <1>1
<1>4. \A u \in Upto(S, n) : h[u] = g[u]
  BY <1>3 DEF IsUpto
<1>5. ASSUME NEW t \in Upto(S, n + 1) PROVE h[t] = SumFrom(f, h, t)
  <2>1. CASE t = {} BY <2>1 DEF SumFrom
  <2>2. CASE t # {}
    <3>1. h[t \ {Pick(t)}] = g[t \ {Pick(t)}] BY <1>2, <1>4, <2>2
    <3>2. h[t] = SumFrom(f, g, t) OBVIOUS
    <3> HIDE DEF h
    <3> QED BY <3>1, <3>2 DEF SumFrom
  <2> QED BY <2>1, <2>2
<1>6. h = [t \in Upto(S, n + 1) |-> SumFrom(f, h, t)]
  <2>1. h = [t \in Upto(S, n + 1) |-> h[t]] OBVIOUS
  <2> HIDE DEF h
  <2> QED BY <2>1, <1>5
<1> QED BY <1>6 DEF IsUpto

\* The recursion has a solution on the subsets of any finite set.
LEMMA IterExists ==
  ASSUME NEW S, IsFiniteSet(S), NEW f
  PROVE  \E g : IsIter(g, f, S)
<1> DEFINE Bad == {n \in Nat : ~ \E g : IsUpto(g, f, S, n)}
<1>1. \E g : IsUpto(g, f, S, 0)
  <2> DEFINE g == [t \in Upto(S, 0) |-> 0]
  <2>1. ASSUME NEW t \in Upto(S, 0) PROVE t = {}
    <3>1. t \in SUBSET S /\ Cardinality(t) <= 0 BY DEF Upto
    <3>2. IsFiniteSet(t) BY <3>1, FS_Subset
    <3>3. Cardinality(t) \in Nat BY <3>2, FS_CardinalityType
    <3>4. Cardinality(t) = 0 BY <3>1, <3>3
    <3> QED BY <3>2, <3>4, FS_EmptySet
  <2>2. \A t \in Upto(S, 0) : SumFrom(f, g, t) = 0
    BY <2>1 DEF SumFrom
  <2>3. g = [t \in Upto(S, 0) |-> SumFrom(f, g, t)]
    BY <2>2
  <2> QED BY <2>3 DEF IsUpto
<1>2. Bad = {}
  <2> SUFFICES ASSUME Bad # {} PROVE FALSE OBVIOUS
  <2>1. PICK n \in Bad : \A m \in Bad : n <= m BY LeastNat
  <2>2. n \in Nat /\ n # 0 BY <1>1
  <2>3. n - 1 \in Nat /\ n - 1 \notin Bad
    <3>1. n - 1 \in Nat /\ ~(n <= n - 1) BY <2>2
    <3> HIDE DEF Bad
    <3> QED BY <3>1, <2>1
  <2>4. PICK g : IsUpto(g, f, S, n - 1) BY <2>3
  <2>5. \E h : IsUpto(h, f, S, (n - 1) + 1)
    <3> HIDE DEF IsUpto
    <3> QED BY <2>3, <2>4, ExtendIter
  <2>6. (n - 1) + 1 = n BY <2>2
  <2> QED BY <2>5, <2>6
<1>3. Cardinality(S) \in Nat BY FS_CardinalityType
<1>4. PICK g : IsUpto(g, f, S, Cardinality(S)) BY <1>2, <1>3
<1>5. Upto(S, Cardinality(S)) = SUBSET S
  BY FS_Subset DEF Upto
<1> QED BY <1>4, <1>5 DEF IsUpto, IsIter

\* Two solutions agree wherever both are defined.
LEMMA IterUnique ==
  ASSUME NEW S, IsFiniteSet(S), NEW T \in SUBSET S, NEW f, NEW e, NEW g, NEW h,
         \A x \in T : f[x] = e[x], IsIter(g, f, S), IsIter(h, e, T)
  PROVE  \A t \in SUBSET T : g[t] = h[t]
<1> DEFINE Bad == {t \in SUBSET T : g[t] # h[t]}
<1> SUFFICES ASSUME Bad # {} PROVE FALSE OBVIOUS
<1>0. IsFiniteSet(T) BY FS_Subset
<1>1. PICK t \in Bad : \A u \in Bad : ~(u \subseteq t /\ u # t)
  <2>1. Bad \subseteq SUBSET T OBVIOUS
  <2> HIDE DEF Bad
  <2> QED BY <1>0, <2>1, MinimalSubset
<1>2. t \in SUBSET S /\ t \in SUBSET T OBVIOUS
<1>3. g[t] = SumFrom(f, g, t) /\ h[t] = SumFrom(e, h, t)
  BY <1>2 DEF IsIter
<1>4. t # {} BY <1>3 DEF SumFrom
<1>5. Pick(t) \in t BY <1>4, PickIn
<1>6. g[t \ {Pick(t)}] = h[t \ {Pick(t)}]
  <2>1. t \ {Pick(t)} \in SUBSET T /\ t \ {Pick(t)} # t BY <1>2, <1>5
  <2>2. t \ {Pick(t)} \notin Bad
    <3> HIDE DEF Bad
    <3> QED BY <1>1, <2>1
  <2> QED BY <2>1, <2>2
<1>7. f[Pick(t)] = e[Pick(t)] BY <1>2, <1>5
<1> QED BY <1>3, <1>4, <1>6, <1>7 DEF SumFrom

\* SumFunctionOnSet is the value at S of a solution.
LEMMA SumIsIter ==
  ASSUME NEW S, IsFiniteSet(S), NEW f
  PROVE  \E g : IsIter(g, f, S) /\ SumFunctionOnSet(f, S) = g[S]
<1> DEFINE it == CHOOSE g : IsIter(g, f, S)
<1>1. IsIter(it, f, S) BY IterExists
<1>2. SumFunctionOnSet(f, S) = it[S]
  BY DEF SumFunctionOnSet, FoldFunctionOnSet, MapThenFoldSet, IsIter, SumFrom, Pick
<1> QED BY <1>1, <1>2

\* A solution takes integer values, and any element may be summed first.
LEMMA IterSplit ==
  ASSUME NEW S, IsFiniteSet(S), NEW f, \A x \in S : f[x] \in Int,
         NEW g, IsIter(g, f, S)
  PROVE  /\ \A t \in SUBSET S : g[t] \in Int
         /\ Splits(g, f, S)
<1>0. \A t \in SUBSET S : g[t] = SumFrom(f, g, t) BY DEF IsIter
<1>1. \A t \in SUBSET S : g[t] \in Int
  <2> DEFINE Bad == {t \in SUBSET S : g[t] \notin Int}
  <2> SUFFICES ASSUME Bad # {} PROVE FALSE OBVIOUS
  <2>1. PICK t \in Bad : \A u \in Bad : ~(u \subseteq t /\ u # t)
    <3>1. Bad \subseteq SUBSET S OBVIOUS
    <3> HIDE DEF Bad
    <3> QED BY <3>1, MinimalSubset
  <2>2. t \in SUBSET S /\ g[t] = SumFrom(f, g, t) BY <1>0
  <2>3. t # {} BY <2>2 DEF SumFrom
  <2>4. Pick(t) \in t BY <2>3, PickIn
  <2>5. t \ {Pick(t)} \in SUBSET S /\ t \ {Pick(t)} # t BY <2>2, <2>4
  <2>6. t \ {Pick(t)} \notin Bad
    <3> HIDE DEF Bad
    <3> QED BY <2>1, <2>5
  <2>7. g[t \ {Pick(t)}] \in Int /\ f[Pick(t)] \in Int BY <2>2, <2>4, <2>5, <2>6
  <2> QED BY <2>2, <2>3, <2>7 DEF SumFrom
<1>2. ASSUME NEW t \in SUBSET S, NEW x \in t PROVE g[t] = f[x] + g[t \ {x}]
  <2> DEFINE Bad == {u \in SUBSET S : \E y \in u : g[u] # f[y] + g[u \ {y}]}
  <2> SUFFICES ASSUME Bad # {} PROVE FALSE OBVIOUS
  <2>1. PICK u \in Bad : \A v \in Bad : ~(v \subseteq u /\ v # u)
    <3>1. Bad \subseteq SUBSET S OBVIOUS
    <3> HIDE DEF Bad
    <3> QED BY <3>1, MinimalSubset
  <2>2. PICK y \in u : g[u] # f[y] + g[u \ {y}] OBVIOUS
  <2>3. u \in SUBSET S OBVIOUS
  <2> DEFINE c == Pick(u)
  <2>4. c \in u BY <2>2, PickIn
  <2>5. g[u] = f[c] + g[u \ {c}] BY <1>0, <2>2, <2>3 DEF SumFrom
  <2>6. c # y BY <2>2, <2>5
  <2> HIDE DEF c
  <2>7. u \ {c} \in SUBSET S /\ u \ {y} \in SUBSET S
        /\ u \ {c} # u /\ u \ {y} # u BY <2>3, <2>4
  <2>8. u \ {c} \notin Bad /\ u \ {y} \notin Bad
    <3> HIDE DEF Bad
    <3> QED BY <2>1, <2>7
  <2>9. g[u \ {c}] = f[y] + g[(u \ {c}) \ {y}]
    BY <2>4, <2>6, <2>7, <2>8
  <2>10. g[u \ {y}] = f[c] + g[(u \ {y}) \ {c}]
    BY <2>4, <2>6, <2>7, <2>8
  <2>11. (u \ {c}) \ {y} = (u \ {y}) \ {c} OBVIOUS
  <2>12. f[c] \in Int /\ f[y] \in Int /\ g[(u \ {y}) \ {c}] \in Int
         /\ g[u \ {c}] \in Int /\ g[u \ {y}] \in Int
    BY <1>1, <2>3, <2>4, <2>7
  <2> DEFINE r == g[(u \ {y}) \ {c}]
  <2>13. g[u] = f[c] + (f[y] + r) BY <2>5, <2>9, <2>11
  <2>14. f[y] + g[u \ {y}] = f[y] + (f[c] + r) BY <2>10
  <2>15. f[c] + (f[y] + r) = f[y] + (f[c] + r)
    <3>1. r \in Int BY <2>12
    <3> HIDE DEF r
    <3> QED BY <2>12, <3>1
  <2> HIDE DEF r
  <2> QED BY <2>2, <2>13, <2>14, <2>15
<1> QED BY <1>1, <1>2 DEF Splits

---------------------------------------------------------------------------
(***************************************************************************)
(* The facts the other proofs cite.                                        *)
(***************************************************************************)

\* The sum of integers is an integer.
THEOREM SumType ==
  ASSUME NEW S, IsFiniteSet(S), NEW f, \A x \in S : f[x] \in Int
  PROVE  SumFunctionOnSet(f, S) \in Int
BY SumIsIter, IterSplit

\* The empty sum is zero.
THEOREM SumEmpty ==
  ASSUME NEW f
  PROVE  SumFunctionOnSet(f, {}) = 0
<1>1. PICK g : IsIter(g, f, {}) /\ SumFunctionOnSet(f, {}) = g[{}]
  BY SumIsIter, FS_EmptySet
<1> QED BY <1>1 DEF IsIter, SumFrom

\* The sum depends only on the values at the indices summed.
THEOREM SumCong ==
  ASSUME NEW S, IsFiniteSet(S), NEW f, NEW e, \A x \in S : f[x] = e[x]
  PROVE  SumFunctionOnSet(f, S) = SumFunctionOnSet(e, S)
<1>1. PICK g : IsIter(g, f, S) /\ SumFunctionOnSet(f, S) = g[S]
  BY SumIsIter
<1>2. PICK h : IsIter(h, e, S) /\ SumFunctionOnSet(e, S) = h[S]
  BY SumIsIter
<1>3. \A t \in SUBSET S : g[t] = h[t]
  <2>1. S \in SUBSET S OBVIOUS
  <2> QED BY <1>1, <1>2, <2>1, IterUnique
<1> QED BY <1>1, <1>2, <1>3

\* Any index may be taken out of the sum.
THEOREM SumSplit ==
  ASSUME NEW S, IsFiniteSet(S), NEW f, NEW x \in S, \A y \in S : f[y] \in Int
  PROVE  SumFunctionOnSet(f, S) = f[x] + SumFunctionOnSet(f, S \ {x})
<1>0. IsFiniteSet(S \ {x}) BY FS_RemoveElement
<1>1. PICK g : IsIter(g, f, S) /\ SumFunctionOnSet(f, S) = g[S]
  BY SumIsIter
<1>2. PICK h : IsIter(h, f, S \ {x})
               /\ SumFunctionOnSet(f, S \ {x}) = h[S \ {x}]
  BY <1>0, SumIsIter
<1>3. \A t \in SUBSET (S \ {x}) : g[t] = h[t]
  <2> DEFINE T == S \ {x}
  <2>1. T \in SUBSET S /\ \A y \in T : f[y] = f[y] OBVIOUS
  <2>2. IsIter(g, f, S) /\ IsIter(h, f, T) BY <1>1, <1>2
  <2> HIDE DEF T
  <2>3. \A t \in SUBSET T : g[t] = h[t] BY <2>1, <2>2, IterUnique
  <2> QED BY <2>3 DEF T
<1>4. g[S] = f[x] + g[S \ {x}]
  <2>1. S \in SUBSET S OBVIOUS
  <2>2. Splits(g, f, S) BY <1>1, IterSplit
  <2> QED BY <2>1, <2>2 DEF Splits
<1> QED BY <1>1, <1>2, <1>3, <1>4

\* Changing the function at one index changes the sum by the difference.
THEOREM SumUpdate ==
  ASSUME NEW S, IsFiniteSet(S), NEW f, NEW e, NEW x \in S,
         \A y \in S : f[y] \in Int /\ e[y] \in Int,
         \A y \in S \ {x} : e[y] = f[y]
  PROVE  SumFunctionOnSet(e, S) = SumFunctionOnSet(f, S) + (e[x] - f[x])
<1>0. IsFiniteSet(S \ {x}) BY FS_RemoveElement
<1>1. SumFunctionOnSet(f, S) = f[x] + SumFunctionOnSet(f, S \ {x})
  BY SumSplit
<1>2. SumFunctionOnSet(e, S) = e[x] + SumFunctionOnSet(e, S \ {x})
  BY SumSplit
<1>3. SumFunctionOnSet(e, S \ {x}) = SumFunctionOnSet(f, S \ {x})
  BY <1>0, SumCong
<1>4. SumFunctionOnSet(f, S \ {x}) \in Int BY <1>0, SumType
<1> QED BY <1>1, <1>2, <1>3, <1>4

\* A sum of naturals is at least each of them, and at least zero.
THEOREM SumBound ==
  ASSUME NEW S, IsFiniteSet(S), NEW f, \A x \in S : f[x] \in Nat
  PROVE  /\ SumFunctionOnSet(f, S) \in Nat
         /\ \A x \in S : f[x] <= SumFunctionOnSet(f, S)
<1> DEFINE Bad == {t \in SUBSET S : SumFunctionOnSet(f, t) \notin Nat}
<1>0. ASSUME NEW t \in SUBSET S, NEW x \in t
      PROVE  /\ f[x] \in Nat
             /\ SumFunctionOnSet(f, t) = f[x] + SumFunctionOnSet(f, t \ {x})
  <2>1. IsFiniteSet(t) BY FS_Subset
  <2>2. \A y \in t : f[y] \in Int OBVIOUS
  <2> QED BY <2>1, <2>2, SumSplit
<1>1. Bad = {}
  <2> SUFFICES ASSUME Bad # {} PROVE FALSE OBVIOUS
  <2>1. PICK t \in Bad : \A u \in Bad : ~(u \subseteq t /\ u # t)
    <3>1. Bad \subseteq SUBSET S OBVIOUS
    <3> HIDE DEF Bad
    <3> QED BY <3>1, MinimalSubset
  <2>2. t \in SUBSET S /\ t # {} BY SumEmpty
  <2>3. PICK x \in t : TRUE BY <2>2
  <2>4. t \ {x} \in SUBSET S /\ t \ {x} # t BY <2>2, <2>3
  <2>5. t \ {x} \notin Bad
    <3> HIDE DEF Bad
    <3> QED BY <2>1, <2>4
  <2>6. SumFunctionOnSet(f, t \ {x}) \in Nat BY <2>4, <2>5
  <2> QED BY <1>0, <2>2, <2>6
<1>2. \A t \in SUBSET S : SumFunctionOnSet(f, t) \in Nat BY <1>1
<1>3. ASSUME NEW x \in S PROVE f[x] <= SumFunctionOnSet(f, S)
  <2>1. S \in SUBSET S /\ S \ {x} \in SUBSET S OBVIOUS
  <2>2. SumFunctionOnSet(f, S \ {x}) \in Nat BY <1>2, <2>1
  <2>3. f[x] \in Nat /\ SumFunctionOnSet(f, S) = f[x] + SumFunctionOnSet(f, S \ {x})
    BY <1>0, <2>1
  <2> QED BY <2>2, <2>3
<1> QED BY <1>2, <1>3

\* A sum of zeros is zero.
THEOREM SumZero ==
  ASSUME NEW S, IsFiniteSet(S), NEW f, \A x \in S : f[x] = 0
  PROVE  SumFunctionOnSet(f, S) = 0
<1> DEFINE Bad == {t \in SUBSET S : SumFunctionOnSet(f, t) # 0}
<1> SUFFICES ASSUME Bad # {} PROVE FALSE OBVIOUS
<1>1. PICK t \in Bad : \A u \in Bad : ~(u \subseteq t /\ u # t)
  <2>1. Bad \subseteq SUBSET S OBVIOUS
  <2> HIDE DEF Bad
  <2> QED BY <2>1, MinimalSubset
<1>2. t \in SUBSET S /\ t # {} BY SumEmpty
<1>3. PICK x \in t : TRUE BY <1>2
<1>4. t \ {x} \in SUBSET S /\ t \ {x} # t BY <1>2, <1>3
<1>5. t \ {x} \notin Bad
  <2> HIDE DEF Bad
  <2> QED BY <1>1, <1>4
<1>6. SumFunctionOnSet(f, t \ {x}) = 0 BY <1>4, <1>5
<1>7. SumFunctionOnSet(f, t) = f[x] + SumFunctionOnSet(f, t \ {x})
  <2>1. IsFiniteSet(t) BY <1>2, FS_Subset
  <2>2. \A y \in t : f[y] \in Int BY <1>2
  <2> QED BY <1>3, <2>1, <2>2, SumSplit
<1> QED BY <1>2, <1>3, <1>6, <1>7

\* Lowering a function at some indices cannot raise its sum.
THEOREM SumMonotone ==
  ASSUME NEW S, IsFiniteSet(S), NEW f, NEW e,
         \A x \in S : f[x] \in Int /\ e[x] \in Int /\ e[x] <= f[x]
  PROVE  SumFunctionOnSet(e, S) <= SumFunctionOnSet(f, S)
<1> DEFINE Bad == {t \in SUBSET S : ~(SumFunctionOnSet(e, t) <= SumFunctionOnSet(f, t))}
<1> SUFFICES ASSUME Bad # {} PROVE FALSE OBVIOUS
<1>1. PICK t \in Bad : \A u \in Bad : ~(u \subseteq t /\ u # t)
  <2>1. Bad \subseteq SUBSET S OBVIOUS
  <2> HIDE DEF Bad
  <2> QED BY <2>1, MinimalSubset
<1>2. t \in SUBSET S /\ t # {} BY SumEmpty
<1>3. PICK x \in t : TRUE BY <1>2
<1>4. t \ {x} \in SUBSET S /\ t \ {x} # t BY <1>2, <1>3
<1>5. t \ {x} \notin Bad
  <2> HIDE DEF Bad
  <2> QED BY <1>1, <1>4
<1>6. SumFunctionOnSet(e, t \ {x}) <= SumFunctionOnSet(f, t \ {x}) BY <1>4, <1>5
<1>7. /\ SumFunctionOnSet(f, t) = f[x] + SumFunctionOnSet(f, t \ {x})
      /\ SumFunctionOnSet(e, t) = e[x] + SumFunctionOnSet(e, t \ {x})
      /\ SumFunctionOnSet(f, t \ {x}) \in Int
      /\ SumFunctionOnSet(e, t \ {x}) \in Int
  <2>1. IsFiniteSet(t) /\ IsFiniteSet(t \ {x}) BY <1>2, <1>4, FS_Subset
  <2>2. \A y \in t : f[y] \in Int /\ e[y] \in Int BY <1>2
  <2>3. \A y \in t \ {x} : f[y] \in Int /\ e[y] \in Int BY <2>2
  <2>4. SumFunctionOnSet(f, t) = f[x] + SumFunctionOnSet(f, t \ {x})
    BY <1>3, <2>1, <2>2, SumSplit
  <2>5. SumFunctionOnSet(e, t) = e[x] + SumFunctionOnSet(e, t \ {x})
    BY <1>3, <2>1, <2>2, SumSplit
  <2> QED BY <2>1, <2>3, <2>4, <2>5, SumType
<1>8. f[x] \in Int /\ e[x] \in Int /\ e[x] <= f[x] BY <1>2, <1>3
<1> QED BY <1>6, <1>7, <1>8

\* The sum of two functions is the sum of their sums.
THEOREM SumAdd ==
  ASSUME NEW S, IsFiniteSet(S), NEW f, NEW e, NEW d,
         \A x \in S : f[x] \in Int /\ e[x] \in Int /\ d[x] = f[x] + e[x]
  PROVE  SumFunctionOnSet(d, S) = SumFunctionOnSet(f, S) + SumFunctionOnSet(e, S)
<1> DEFINE Bad == {t \in SUBSET S : SumFunctionOnSet(d, t)
                                   # SumFunctionOnSet(f, t) + SumFunctionOnSet(e, t)}
<1> SUFFICES ASSUME Bad # {} PROVE FALSE OBVIOUS
<1>1. PICK t \in Bad : \A u \in Bad : ~(u \subseteq t /\ u # t)
  <2>1. Bad \subseteq SUBSET S OBVIOUS
  <2> HIDE DEF Bad
  <2> QED BY <2>1, MinimalSubset
<1>2. t \in SUBSET S /\ t # {}
  <2>1. {} \notin Bad BY SumEmpty
  <2> QED BY <2>1
<1>3. PICK x \in t : TRUE BY <1>2
<1>4. t \ {x} \in SUBSET S /\ t \ {x} # t BY <1>2, <1>3
<1>5. t \ {x} \notin Bad
  <2> HIDE DEF Bad
  <2> QED BY <1>1, <1>4
<1>6. SumFunctionOnSet(d, t \ {x})
      = SumFunctionOnSet(f, t \ {x}) + SumFunctionOnSet(e, t \ {x})
  BY <1>4, <1>5
<1>7. IsFiniteSet(t) /\ IsFiniteSet(t \ {x}) BY <1>2, <1>4, FS_Subset
<1>8. \A y \in t : f[y] \in Int /\ e[y] \in Int /\ d[y] \in Int BY <1>2
<1>9. \A y \in t \ {x} : f[y] \in Int /\ e[y] \in Int BY <1>8
<1>10. /\ SumFunctionOnSet(f, t) = f[x] + SumFunctionOnSet(f, t \ {x})
       /\ SumFunctionOnSet(e, t) = e[x] + SumFunctionOnSet(e, t \ {x})
       /\ SumFunctionOnSet(d, t) = d[x] + SumFunctionOnSet(d, t \ {x})
  BY <1>3, <1>7, <1>8, SumSplit
<1>11. SumFunctionOnSet(f, t \ {x}) \in Int /\ SumFunctionOnSet(e, t \ {x}) \in Int
  BY <1>7, <1>9, SumType
<1>12. f[x] \in Int /\ e[x] \in Int /\ d[x] = f[x] + e[x] BY <1>2, <1>3
<1>13. SumFunctionOnSet(d, t) = SumFunctionOnSet(f, t) + SumFunctionOnSet(e, t)
  BY ONLY <1>6, <1>10, <1>11, <1>12
<1> QED BY <1>13

=============================================================================
