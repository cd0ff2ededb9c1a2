---------------------------- MODULE LedgerProofs ----------------------------
(***************************************************************************)
(* Proofs about Ledger, for any number of edges, keys, windows and returns *)
(* and any settings: what the ledger hands out fits its limits, however    *)
(* returns and settlements are lost, late or repeated.  RegionsProofs      *)
(* takes the result to the behaviours of MCLedgers.                        *)
(***************************************************************************)
EXTENDS Ledger, Sums

----------------------------------------------------------------------------
(* The inductive invariant.                                                *)

CallRec == [granted : Int, win : Windows, pwin : Windows, exp : Int]
HeldRec == [n : Nat, win : Windows, pwin : Windows, exp : Int]
SentRec == [win : Windows, pwin : Windows, tokens : Int, until : Int]
Returns == [Ids -> SentRec]
LedgerTypeOK ==
  /\ spec \in Specs /\ org \in Orgs /\ now \in Windows
  /\ used \in [Entries -> Nat] /\ pused \in [Windows -> Nat]
  /\ tat \in [Keys -> Nat] /\ deduped \in [Ids -> Nat]
  /\ call \in [Edges -> CallRec] /\ held \in [Edges -> HeldRec]
  /\ sent \in [Ids -> SentRec] /\ seq \in [Edges -> Nat]
  /\ had \in [Entries -> Int] /\ phad \in [Windows -> Int]
  /\ applied \in [Ids -> Nat]

\* Nothing names a window that has not begun, and ids are used in order.
NotAhead ==
  /\ \A e \in Edges : /\ call[e] # NoCall => call[e].granted \in Nat
                      /\ call[e].win <= wid /\ call[e].pwin <= pwid
                      /\ held[e].win <= wid /\ held[e].pwin <= pwid
  /\ \A i \in Ids : /\ sent[i].win <= wid /\ sent[i].pwin <= pwid
                    /\ sent[i].until <= now + MaxOf(RetryFor, TokenLife)
                    /\ i[2] > seq[i[1]] => sent[i] = NoReturn /\ applied[i] = 0
  /\ \A x \in Entries : x[2] > wid => had[x] <= 0

\* A return that took effect cannot do so again: when its record lapses, the
\* windows it names are over and it is no longer repeated.
NoSecondTime ==
  \A i \in Ids : /\ applied[i] \in {0, 1}
                 /\ applied[i] = 1 =>
                      /\ ~Bucket => deduped[i] >= WindowEnd(sent[i].win, spec.win)
                      /\ Bucket => deduped[i] > sent[i].until
                      /\ org # NoOrg => deduped[i] >= WindowEnd(sent[i].pwin, org.win)

\* Tokens on their way back to key k in window w, and to the organisation.
Due(s, a, i) == IF a[i] = 0 /\ s[i].tokens > 0 THEN s[i].tokens ELSE 0
KeyPart(s, a, k, w, i) == IF KeyOf[i[1]] = k /\ s[i].win = w THEN Due(s, a, i) ELSE 0
OrgPart(s, a, w, i) == IF s[i].pwin = w THEN Due(s, a, i) ELSE 0
KeyDue(s, a, k, w) == [i \in Ids |-> KeyPart(s, a, k, w, i)]
OrgDue(s, a, w) == [i \in Ids |-> OrgPart(s, a, w, i)]
KeySum(s, a, k, w) == SumFunctionOnSet(KeyDue(s, a, k, w), Ids)
OrgSum(s, a, w) == SumFunctionOnSet(OrgDue(s, a, w), Ids)

\* The counters cover what holders have had and what is on its way back.
KeyCovered(k, w) ==
  /\ ~Bucket => had[<<k, w>>] + KeySum(sent, applied, k, w) <= used[<<k, w>>]
  /\ Bucket /\ w = 0 => (had[<<k, w>>] + KeySum(sent, applied, k, w)) * spec.T <= Tat(k)
Covered == \A k \in Keys, w \in Windows : KeyCovered(k, w)
OrgCovered ==
  org # NoOrg => \A w \in Windows : w >= pwid => phad[w] + OrgSum(sent, applied, w) <= pused[w]

\* SlidingSmooth, for had that is never below zero.
Smooth ==
  spec.algo = "sliding" /\ wid > 0 =>
    \A k \in Keys : had[<<k, wid>>] * spec.win + MaxOf(had[<<k, wid - 1>>], 0)
                                                 * (WindowEnd(wid, spec.win) - now)
                     <= spec.limit * spec.win

LedgerInv ==
  /\ LedgerTypeOK /\ NotAhead /\ NoSecondTime
  /\ Covered /\ OrgCovered
  /\ LimitHolds /\ OrgBudgetHolds /\ Smooth

\* A bucket's dedupe records outlast the repeats of what they are records of.
\* The code makes sure of it for windows only: a reservation may be settled
\* for reservationTTL, however fast a bucket refills.
RecordsOutlast ==
  \A s \in Specs : s.algo = "bucket" =>
    MaxOf(RetryFor, TokenLife) < 2 * MaxOf(1, s.limit * s.T)

----------------------------------------------------------------------------
(* Arithmetic.                                                             *)

\* A time lies in its window, and a tick on in it or in the next one.
LEMMA WindowFacts ==
  ASSUME NEW t \in Nat, NEW win \in Nat \ {0}
  PROVE  /\ WindowOf(t, win) \in Nat /\ WindowOf(t, win) <= t
         /\ WindowOf(t, win) * win <= t /\ t < WindowEnd(WindowOf(t, win), win)
         /\ WindowEnd(WindowOf(t, win), win) <= t + win
         /\ \A w \in Nat : t >= WindowEnd(w, win) => w < WindowOf(t, win)
         /\ WindowOf(t + 1, win) \in {WindowOf(t, win), WindowOf(t, win) + 1}
<1> DEFINE q == t \div win
<1>1. q \in Nat /\ q * win <= t /\ t < (q + 1) * win OBVIOUS
<1>2. (q + 1) * win = q * win + win BY <1>1
<1>3. q <= q * win BY <1>1
<1>4. ASSUME NEW w \in Nat, t >= (w + 1) * win PROVE w < q
  <2> SUFFICES ASSUME w >= q PROVE FALSE BY <1>1
  <2>1. (w + 1) * win >= (q + 1) * win BY <1>1
  <2> QED BY <2>1, <1>1, <1>4
<1>5. (t + 1) \div win \in {q, q + 1}
  <2> DEFINE p == (t + 1) \div win
  <2>1. p \in Nat /\ p * win <= t + 1 /\ t + 1 < (p + 1) * win OBVIOUS
  <2> HIDE DEF p, q
  <2>2. p >= q
    <3> SUFFICES ASSUME p + 1 <= q PROVE FALSE BY <1>1, <2>1
    <3>1. (p + 1) * win <= q * win BY <1>1, <2>1
    <3> QED BY <3>1, <1>1, <2>1
  <2>3. p <= q + 1
    <3> SUFFICES ASSUME q + 2 <= p PROVE FALSE BY <1>1, <2>1
    <3>1. (q + 2) * win <= p * win BY <1>1, <2>1
    <3>2. (q + 2) * win = (q + 1) * win + win BY <1>1
    <3> QED BY <3>1, <3>2, <1>1, <2>1
  <2> QED BY <2>1, <2>2, <2>3, <1>1 DEF p
<1> HIDE DEF q
<1>6. q <= t /\ (q + 1) * win <= t + win BY <1>1, <1>2, <1>3
<1> QED BY <1>1, <1>4, <1>5, <1>6, Zenon DEF WindowOf, WindowEnd, q

\* A grant takes at most what is left, rounding included.
LEMMA GrantFits ==
  ASSUME NEW a \in Int, a > 0, NEW n \in Nat \ {0}, NEW target \in Nat \ {0}, NEW limit \in Nat
  PROVE  /\ GrantSize(a, n, Capped(target, limit)) \in Nat
         /\ GrantSize(a, n, Capped(target, limit)) <= a
<1>1. (limit * bankerCapPct) \div 100 \in Nat BY DEF bankerCapPct
<1>2. Capped(target, limit) \in Nat BY <1>1, Zenon DEF Capped, MinOf, MaxOf
<1>3. a + n - 1 \in Nat OBVIOUS
<1> DEFINE m == a + n - 1
<1> HIDE DEF m
<1>4. m \div n \in Nat BY <1>3 DEF m
<1> DEFINE c == Capped(target, limit)
           d == m \div n
<1> HIDE DEF c, d
<1>5. c \in Nat /\ d \in Nat BY <1>2, <1>4, Zenon DEF c, d
<1>6. MinOf(IF a < n * c THEN d ELSE c, a) \in Nat /\ MinOf(IF a < n * c THEN d ELSE c, a) <= a
  BY <1>5 DEF MinOf
<1> QED BY <1>6, Zenon DEF GrantSize, c, d, m

\* Rounding up covers what is rounded.
LEMMA CeilFacts ==
  ASSUME NEW a \in Nat, NEW b \in Nat \ {0}
  PROVE  CeilDiv(a, b) \in Nat /\ CeilDiv(a, b) * b >= a
<1> DEFINE m == a + b - 1
<1>1. m \in Nat OBVIOUS
<1> HIDE DEF m
<1> DEFINE q == m \div b
<1>2. q \in Nat /\ m < (q + 1) * b BY <1>1
<1> HIDE DEF q
<1>3. (q + 1) * b = q * b + b BY <1>2
<1>4. q * b >= a BY <1>1, <1>2, <1>3 DEF m
<1> QED BY <1>2, <1>4, Zenon DEF CeilDiv, q, m

----------------------------------------------------------------------------
(* Sums of tokens on their way back.                                       *)

\* There are finitely many returns.
LEMMA IdsFinite == IsFiniteSet(Ids)
<1>1. IsFiniteSet(1 .. MaxReturns) BY FS_Interval, LedgerSettings
<1> QED BY <1>1, FS_Product, LedgerSettings, Zenon DEF Ids

\* They sum up to a natural number.
LEMMA DueNat ==
  ASSUME NEW s \in [Ids -> SentRec], NEW a
  PROVE  /\ \A i \in Ids : Due(s, a, i) \in Nat
         /\ \A k, w : KeySum(s, a, k, w) \in Nat
         /\ \A w : OrgSum(s, a, w) \in Nat
<1>1. \A i \in Ids : Due(s, a, i) \in Nat BY DEF Due, SentRec
<1>2. ASSUME NEW k, NEW w PROVE KeySum(s, a, k, w) \in Nat
  <2>1. \A i \in Ids : KeyDue(s, a, k, w)[i] \in Nat BY <1>1, Zenon DEF KeyDue, KeyPart
  <2> QED BY <2>1, SumBound, IdsFinite, Zenon DEF KeySum
<1>3. ASSUME NEW w PROVE OrgSum(s, a, w) \in Nat
  <2>1. \A i \in Ids : OrgDue(s, a, w)[i] \in Nat BY <1>1, Zenon DEF OrgDue, OrgPart
  <2> QED BY <2>1, SumBound, IdsFinite, Zenon DEF OrgSum
<1> QED BY <1>1, <1>2, <1>3, Zenon

\* Returns s with effects a and returns t with effects b differ in return i only.
OneChanges(s, t, a, b, i) ==
  s \in Returns /\ t \in Returns /\ i \in Ids /\ \A j \in Ids \ {i} : t[j] = s[j] /\ b[j] = a[j]

\* One return's change changes a key's sum by as much.
LEMMA KeyDueAt ==
  ASSUME NEW s, NEW t, NEW a, NEW b, NEW i, OneChanges(s, t, a, b, i), NEW k, NEW w
  PROVE  KeySum(t, b, k, w) = KeySum(s, a, k, w) + (KeyPart(t, b, k, w, i) - KeyPart(s, a, k, w, i))
<1> DEFINE f == KeyDue(s, a, k, w)
           g == KeyDue(t, b, k, w)
<1>0. s \in Returns /\ t \in Returns /\ i \in Ids /\ \A j \in Ids \ {i} : t[j] = s[j] /\ b[j] = a[j]
  BY Zenon DEF OneChanges
<1>1. \A j \in Ids : Due(s, a, j) \in Nat /\ Due(t, b, j) \in Nat BY <1>0, DueNat, Zenon DEF Returns
<1>2. \A j \in Ids \ {i} : Due(t, b, j) = Due(s, a, j) BY <1>0, Zenon DEF Due
<1>3. \A j \in Ids : f[j] \in Int /\ g[j] \in Int BY <1>1 DEF KeyDue, KeyPart
<1>4. \A j \in Ids \ {i} : g[j] = f[j] BY <1>0, <1>2, Zenon DEF KeyDue, KeyPart
<1>5. g[i] = KeyPart(t, b, k, w, i) /\ f[i] = KeyPart(s, a, k, w, i) BY <1>0, Zenon DEF KeyDue
<1> HIDE DEF f, g
<1>6. SumFunctionOnSet(g, Ids) = SumFunctionOnSet(f, Ids) + (g[i] - f[i])
  BY <1>0, <1>3, <1>4, SumUpdate, IdsFinite
<1> QED BY <1>5, <1>6, Zenon DEF KeySum, f, g

\* The same for the organisation's.
LEMMA OrgDueAt ==
  ASSUME NEW s, NEW t, NEW a, NEW b, NEW i, OneChanges(s, t, a, b, i), NEW w
  PROVE  OrgSum(t, b, w) = OrgSum(s, a, w) + (OrgPart(t, b, w, i) - OrgPart(s, a, w, i))
<1> DEFINE f == OrgDue(s, a, w)
           g == OrgDue(t, b, w)
<1>0. s \in Returns /\ t \in Returns /\ i \in Ids /\ \A j \in Ids \ {i} : t[j] = s[j] /\ b[j] = a[j]
  BY Zenon DEF OneChanges
<1>1. \A j \in Ids : Due(s, a, j) \in Nat /\ Due(t, b, j) \in Nat BY <1>0, DueNat, Zenon DEF Returns
<1>2. \A j \in Ids \ {i} : Due(t, b, j) = Due(s, a, j) BY <1>0, Zenon DEF Due
<1>3. \A j \in Ids : f[j] \in Int /\ g[j] \in Int BY <1>1 DEF OrgDue, OrgPart
<1>4. \A j \in Ids \ {i} : g[j] = f[j] BY <1>0, <1>2, Zenon DEF OrgDue, OrgPart
<1>5. g[i] = OrgPart(t, b, w, i) /\ f[i] = OrgPart(s, a, w, i) BY <1>0, Zenon DEF OrgDue
<1> HIDE DEF f, g
<1>6. SumFunctionOnSet(g, Ids) = SumFunctionOnSet(f, Ids) + (g[i] - f[i])
  BY <1>0, <1>3, <1>4, SumUpdate, IdsFinite
<1> QED BY <1>5, <1>6, Zenon DEF OrgSum, f, g

\* A step that changes one return.
LEMMA SumsMove ==
  ASSUME sent \in Returns, sent' \in Returns, NEW i \in Ids,
         \A j \in Ids \ {i} : sent'[j] = sent[j] /\ applied'[j] = applied[j]
  PROVE  /\ \A l, w : KeySum(sent', applied', l, w) = KeySum(sent, applied, l, w)
                        + (KeyPart(sent', applied', l, w, i) - KeyPart(sent, applied, l, w, i))
         /\ \A w : OrgSum(sent', applied', w) = OrgSum(sent, applied, w)
                     + (OrgPart(sent', applied', w, i) - OrgPart(sent, applied, w, i))
<1>1. OneChanges(sent, sent', applied, applied', i) BY Zenon DEF OneChanges
<1>2. ASSUME NEW l, NEW w
      PROVE  KeySum(sent', applied', l, w) = KeySum(sent, applied, l, w)
               + (KeyPart(sent', applied', l, w, i) - KeyPart(sent, applied, l, w, i))
  BY <1>1, KeyDueAt
<1>3. ASSUME NEW w
      PROVE  OrgSum(sent', applied', w) = OrgSum(sent, applied, w)
               + (OrgPart(sent', applied', w, i) - OrgPart(sent, applied, w, i))
  BY <1>1, OrgDueAt
<1> QED BY <1>2, <1>3, Zenon

----------------------------------------------------------------------------
(* The steps.                                                              *)

\* Where the clock stands in the windows.
LEMMA ClockFacts ==
  ASSUME LedgerTypeOK
  PROVE  /\ now \in Nat /\ wid \in Windows /\ pwid \in Windows /\ wid \in Nat /\ pwid \in Nat
         /\ spec.limit \in Nat /\ spec.limit > 0
         /\ Bucket => wid = 0 /\ spec.T \in Nat /\ spec.T > 0
         /\ ~Bucket => /\ spec.win \in Nat /\ spec.win > 0
                       /\ wid = WindowOf(now, spec.win)
         /\ org # NoOrg => /\ org.win \in Nat /\ org.win > 0 /\ org.limit \in Nat
                           /\ pwid = WindowOf(now, org.win)
<1>1. now \in Nat /\ now <= MaxTime /\ MaxTime \in Nat BY LedgerSettings DEF LedgerTypeOK, Windows
<1>2. spec \in Specs /\ org \in Orgs BY Zenon DEF LedgerTypeOK
<1>3. /\ spec.limit \in Nat /\ spec.limit > 0
      /\ Bucket => spec.T \in Nat /\ spec.T > 0
      /\ ~Bucket => spec.win \in Nat \ {0}
      /\ org # NoOrg => org.win \in Nat \ {0} /\ org.limit \in Nat
  BY <1>2, LedgerSettings DEF Bucket
<1>4. ~Bucket => /\ WindowOf(now, spec.win) \in Nat /\ WindowOf(now, spec.win) <= now
                 /\ wid = WindowOf(now, spec.win)
  BY <1>1, <1>3, WindowFacts, Zenon DEF wid
<1>5. org # NoOrg => /\ WindowOf(now, org.win) \in Nat /\ WindowOf(now, org.win) <= now
                     /\ pwid = WindowOf(now, org.win)
  BY <1>1, <1>3, WindowFacts, Zenon DEF pwid
<1>6. wid \in Nat /\ wid <= now /\ pwid \in Nat /\ pwid <= now
  BY <1>1, <1>4, <1>5 DEF wid, pwid
<1> QED BY <1>1, <1>3, <1>4, <1>5, <1>6 DEF Windows, wid

\* Without a tick the windows stay.
LEMMA ClockKept ==
  ASSUME UNCHANGED <<spec, org, now>>
  PROVE  /\ wid' = wid /\ pwid' = pwid /\ (Bucket <=> Bucket')
BY Zenon DEF wid, pwid, Bucket

\* At first nothing has been handed out.
LEMMA LedgerStart == Init => LedgerInv
<1> SUFFICES ASSUME Init PROVE LedgerInv BY Zenon
<1>0. MaxTime \in Nat /\ 0 \in Windows /\ RetryFor \in Nat /\ TokenLife \in Nat
  BY LedgerSettings DEF Windows
<1>1. LedgerTypeOK
  BY <1>0 DEF Init, LedgerTypeOK, CallRec, HeldRec, SentRec, NoCall, Nothing, NoReturn
<1>2. /\ wid \in Nat /\ pwid \in Nat /\ now = 0 /\ spec.limit \in Nat
      /\ Bucket => spec.T \in Nat /\ spec.T > 0
      /\ org # NoOrg => org.limit \in Nat
  BY <1>1, ClockFacts, Zenon DEF Init
<1>3. NotAhead
  BY <1>0, <1>2 DEF Init, NotAhead, NoCall, Nothing, NoReturn, Entries, Ids, MaxOf
<1>4. NoSecondTime BY DEF Init, NoSecondTime
<1>5. \A k, w : KeySum(sent, applied, k, w) = 0
  <2> TAKE k, w
  <2>1. \A i \in Ids : KeyDue(sent, applied, k, w)[i] = 0 BY Zenon DEF Init, KeyDue, KeyPart, Due, NoReturn
  <2> QED BY <2>1, SumZero, IdsFinite, Zenon DEF KeySum
<1>6. \A w : OrgSum(sent, applied, w) = 0
  <2> TAKE w
  <2>1. \A i \in Ids : OrgDue(sent, applied, w)[i] = 0 BY Zenon DEF Init, OrgDue, OrgPart, Due, NoReturn
  <2> QED BY <2>1, SumZero, IdsFinite, Zenon DEF OrgSum
<1>7. Covered
  <2> SUFFICES ASSUME NEW k \in Keys, NEW w \in Windows PROVE KeyCovered(k, w) BY Zenon DEF Covered
  <2>1. <<k, w>> \in Entries /\ had[<<k, w>>] = 0 /\ used[<<k, w>>] = 0 /\ tat[k] = 0
    BY Zenon DEF Init, Entries
  <2>2. Tat(k) = 0 BY <1>2, <2>1, Zenon DEF Tat, MaxOf
  <2>3. Bucket => (0 + 0) * spec.T = 0 BY <1>2
  <2> QED BY <1>5, <2>1, <2>2, <2>3 DEF KeyCovered
<1>8. OrgCovered BY <1>6 DEF Init, OrgCovered
<1>9. LimitHolds
  <2>1. Bucket => now \div spec.T = 0 BY <1>2
  <2> QED BY <1>2, <2>1 DEF Init, LimitHolds
<1>10. OrgBudgetHolds BY <1>2 DEF Init, OrgBudgetHolds
<1>11. Smooth
  <2>1. ~Bucket => WindowOf(0, spec.win) = 0 BY <1>1, ClockFacts DEF WindowOf
  <2>2. wid = 0 BY <1>2, <2>1, Zenon DEF wid
  <2> QED BY <2>2 DEF Smooth
<1> QED BY <1>1, <1>3, <1>4, <1>7, <1>8, <1>9, <1>10, <1>11, Zenon DEF LedgerInv


\* What has been handed out meets the limits as long as neither moves.
LEMMA BudgetsKept ==
  ASSUME LedgerInv, UNCHANGED <<spec, org, now, had, phad>>, wid' = wid, Bucket <=> Bucket'
  PROVE  LimitHolds' /\ OrgBudgetHolds' /\ Smooth'
<1>1. LimitHolds' BY Zenon DEF LedgerInv, LimitHolds
<1>2. OrgBudgetHolds' BY Zenon DEF LedgerInv, OrgBudgetHolds
<1>3. Smooth' BY Zenon DEF LedgerInv, Smooth
<1> QED BY <1>1, <1>2, <1>3, Zenon

\* Delivering, losing or spending tokens moves no account.
LEMMA AccountsKept ==
  ASSUME LedgerInv,
         UNCHANGED <<spec, org, now, used, pused, tat, deduped, sent, had, phad, applied>>
  PROVE  /\ NoSecondTime' /\ Covered' /\ OrgCovered'
         /\ LimitHolds' /\ OrgBudgetHolds' /\ Smooth'
<1>1. wid' = wid /\ pwid' = pwid /\ (Bucket <=> Bucket') BY ClockKept, Zenon
<1>2. NoSecondTime' BY <1>1, Zenon DEF LedgerInv, NoSecondTime
<1>3. \A k \in Keys : Tat(k)' = Tat(k) BY Zenon DEF Tat
<1>4. Covered' BY <1>1, <1>3, Zenon DEF LedgerInv, Covered, KeyCovered
<1>5. OrgCovered' BY <1>1, Zenon DEF LedgerInv, OrgCovered
<1>6. LimitHolds' /\ OrgBudgetHolds' /\ Smooth' BY <1>1, BudgetsKept, Zenon
<1> QED BY <1>2, <1>4, <1>5, <1>6, Zenon

\* An answer arrives (Deliver) or is lost (Lose), a request takes a token (Spend).
LEMMA HandStep ==
  ASSUME LedgerInv, NEW e \in Edges, Deliver(e) \/ Lose(e) \/ Spend(e)
  PROVE  LedgerInv'
<1>0. UNCHANGED <<spec, org, now, used, pused, tat, deduped, sent, seq, had, phad, applied>>
  BY Zenon DEF Deliver, Lose, Spend, ledger, history
<1>1. wid' = wid /\ pwid' = pwid BY <1>0, ClockKept, Zenon
<1>2. LedgerTypeOK /\ NotAhead BY Zenon DEF LedgerInv
<1>3. wid \in Nat /\ pwid \in Nat /\ 0 \in Windows BY <1>2, ClockFacts, LedgerSettings DEF Windows
<1>4. NoCall \in CallRec /\ NoCall.win <= wid /\ NoCall.pwin <= pwid
  BY <1>3 DEF NoCall, CallRec
<1>5. /\ call[e] \in CallRec /\ held[e] \in HeldRec
      /\ call[e].win <= wid /\ call[e].pwin <= pwid
      /\ held[e].win <= wid /\ held[e].pwin <= pwid
      /\ call[e] # NoCall => call[e].granted \in Nat
  BY <1>2, Zenon DEF LedgerTypeOK, NotAhead
<1>6. /\ call'[e] \in CallRec /\ held'[e] \in HeldRec
      /\ call'[e].win <= wid /\ call'[e].pwin <= pwid
      /\ held'[e].win <= wid /\ held'[e].pwin <= pwid
      /\ call'[e] # NoCall => call'[e].granted \in Nat
      /\ call' = [call EXCEPT ![e] = call'[e]] /\ held' = [held EXCEPT ![e] = held'[e]]
  <2>0. call \in [Edges -> CallRec] /\ held \in [Edges -> HeldRec] BY <1>2, Zenon DEF LedgerTypeOK
  <2>1. CASE Deliver(e)
    <3>1. call'[e] = NoCall /\ call' = [call EXCEPT ![e] = NoCall] BY <2>0, <2>1, Zenon DEF Deliver
    <3>2. held'[e] = Accept(held[e], call[e]) /\ held' = [held EXCEPT ![e] = held'[e]]
      BY <2>0, <2>1, Zenon DEF Deliver
    <3> DEFINE h == held[e]
               a == call[e]
    <3>3. /\ h \in HeldRec /\ a \in CallRec /\ a.granted \in Nat
          /\ a.win <= wid /\ a.pwin <= pwid /\ h.win <= wid /\ h.pwin <= pwid
      BY <1>5, <2>1, Zenon DEF Deliver
    <3> HIDE DEF h, a
    <3>4. /\ a.win \in Windows /\ a.pwin \in Windows /\ a.exp \in Int
          /\ h.n \in Nat /\ h.win \in Windows /\ h.pwin \in Windows /\ h.exp \in Int
      BY <3>3, Zenon DEF HeldRec, CallRec
    <3>5. h.n + a.granted \in Nat BY <3>3, <3>4
    <3>6. /\ [n |-> a.granted, win |-> a.win, pwin |-> a.pwin, exp |-> a.exp] \in HeldRec
          /\ [h EXCEPT !.n = h.n + a.granted, !.exp = a.exp] \in HeldRec
      BY <3>3, <3>4, <3>5, Zenon DEF HeldRec
    <3>7. Accept(h, a) \in HeldRec BY <3>3, <3>6, Zenon DEF Accept
    <3>8. Accept(h, a).win <= wid /\ Accept(h, a).pwin <= pwid
      BY <3>3, Zenon DEF Accept, HeldRec, CallRec
    <3> QED BY <1>4, <3>1, <3>2, <3>7, <3>8, Zenon DEF h, a
  <2>2. CASE Lose(e) BY <1>4, <1>5, <2>0, <2>2, Zenon DEF Lose
  <2>3. CASE Spend(e)
    <3>1. call' = call BY <2>3, Zenon DEF Spend
    <3>2. held'[e] = [held[e] EXCEPT !.n = IF now >= held[e].exp THEN 0 ELSE held[e].n - 1]
          /\ held' = [held EXCEPT ![e] = held'[e]]
      BY <2>0, <2>3, Zenon DEF Spend
    <3>3. (IF now >= held[e].exp THEN 0 ELSE held[e].n - 1) \in Nat
      BY <1>5, <2>3 DEF Spend, HeldRec
    <3>4. held'[e] \in HeldRec /\ held'[e].win = held[e].win /\ held'[e].pwin = held[e].pwin
      BY <1>5, <3>2, <3>3, Zenon DEF HeldRec
    <3> QED BY <1>5, <2>0, <3>1, <3>2, <3>4, Zenon
  <2> QED BY <2>1, <2>2, <2>3, Zenon
<1>7. LedgerTypeOK' BY <1>0, <1>2, <1>6, Zenon DEF LedgerTypeOK, Windows, Entries, Ids
<1>8. NotAhead' BY <1>0, <1>1, <1>2, <1>6, Zenon DEF LedgerTypeOK, NotAhead
<1> QED BY <1>0, <1>7, <1>8, AccountsKept, Zenon DEF LedgerInv


\* A tick begins at most the next window, of which nothing has been handed out.
LEMMA TickStep == ASSUME LedgerInv, Tick PROVE LedgerInv'
<1>0. /\ now < MaxTime /\ now' = now + 1
      /\ UNCHANGED <<spec, org, used, pused, tat, deduped, call, held, sent, seq, had, phad, applied>>
  BY Zenon DEF Tick, ledger, edges, history
<1>1. LedgerTypeOK BY Zenon DEF LedgerInv
<1>2. now' \in Windows /\ now \in Nat /\ MaxTime \in Nat /\ RetryFor \in Nat /\ TokenLife \in Nat
  BY <1>0, <1>1, LedgerSettings DEF LedgerTypeOK, Windows
<1>3. LedgerTypeOK' BY <1>0, <1>1, <1>2, Zenon DEF LedgerTypeOK
<1>4. Bucket <=> Bucket' BY <1>0, Zenon DEF Bucket
<1>5. wid' \in {wid, wid + 1} /\ wid \in Nat
  <2>1. CASE Bucket BY <1>0, <2>1, Zenon DEF Bucket, wid
  <2>2. CASE ~Bucket
    <3>1. spec.win \in Nat \ {0} /\ wid = WindowOf(now, spec.win) BY <1>1, <2>2, ClockFacts
    <3>2. wid' = WindowOf(now + 1, spec.win) BY <1>0, <1>4, <2>2, Zenon DEF wid
    <3> QED BY <1>2, <3>1, <3>2, WindowFacts, Zenon
  <2> QED BY <2>1, <2>2, Zenon
<1>6. pwid' \in {pwid, pwid + 1} /\ pwid \in Nat
  <2>1. CASE org = NoOrg BY <1>0, <2>1, Zenon DEF pwid
  <2>2. CASE org # NoOrg
    <3>1. org.win \in Nat \ {0} /\ pwid = WindowOf(now, org.win) BY <1>1, <2>2, ClockFacts
    <3>2. pwid' = WindowOf(now + 1, org.win) BY <1>0, <2>2, Zenon DEF pwid
    <3> QED BY <1>2, <3>1, <3>2, WindowFacts, Zenon
  <2> QED BY <2>1, <2>2, Zenon
<1>7. NotAhead'
  <2>1. MaxOf(RetryFor, TokenLife) \in Nat BY <1>2, Zenon DEF MaxOf
  <2>2. \A e \in Edges : call[e].win \in Int /\ call[e].pwin \in Int /\ held[e].win \in Int
          /\ held[e].pwin \in Int
    BY <1>1 DEF LedgerTypeOK, CallRec, HeldRec, Windows
  <2>3. \A i \in Ids : sent[i].win \in Int /\ sent[i].pwin \in Int /\ sent[i].until \in Int
    BY <1>1 DEF LedgerTypeOK, SentRec, Windows
  <2>4. \A x \in Entries : x[2] \in Int BY DEF Entries, Windows
  <2>5. \A e \in Edges : /\ call[e].win <= wid' /\ call[e].pwin <= pwid'
                         /\ held[e].win <= wid' /\ held[e].pwin <= pwid'
    BY <1>5, <1>6, <2>2 DEF LedgerInv, NotAhead
  <2>6. \A i \in Ids : /\ sent[i].win <= wid' /\ sent[i].pwin <= pwid'
                       /\ sent[i].until <= now' + MaxOf(RetryFor, TokenLife)
    BY <1>0, <1>2, <1>5, <1>6, <2>1, <2>3 DEF LedgerInv, NotAhead
  <2>7. \A x \in Entries : x[2] > wid' => had[x] <= 0
    BY <1>5, <2>4 DEF LedgerInv, NotAhead
  <2> QED BY <1>0, <2>5, <2>6, <2>7, Zenon DEF LedgerInv, NotAhead
<1>8. NoSecondTime' BY <1>0, <1>4, Zenon DEF LedgerInv, NoSecondTime
<1>9. Covered'
  <2> SUFFICES ASSUME NEW k \in Keys, NEW w \in Windows PROVE KeyCovered(k, w)' BY Zenon DEF Covered
  <2>1. KeyCovered(k, w) BY Zenon DEF LedgerInv, Covered
  <2>2. tat[k] \in Nat BY <1>1, Zenon DEF LedgerTypeOK
  <2>3. Tat(k) <= Tat(k)' /\ Tat(k) \in Nat /\ Tat(k)' \in Nat
    BY <1>0, <1>2, <2>2 DEF Tat, MaxOf
  <2>4. KeySum(sent, applied, k, w) \in Nat /\ had[<<k, w>>] \in Int
    BY <1>1, DueNat, Zenon DEF LedgerTypeOK, Entries
  <2>5. Bucket => (had[<<k, w>>] + KeySum(sent, applied, k, w)) * spec.T \in Int
    BY <1>1, <2>4, ClockFacts
  <2> QED BY <1>0, <1>4, <2>1, <2>3, <2>5 DEF KeyCovered
<1>10. OrgCovered'
  <2>1. \A w \in Windows : w >= pwid' => w >= pwid BY <1>6 DEF Windows
  <2> QED BY <1>0, <2>1, Zenon DEF LedgerInv, OrgCovered
<1>11. LimitHolds'
  <2> SUFFICES ASSUME NEW x \in Entries
               PROVE  had[x] <= spec.limit + (IF Bucket THEN (now + 1) \div spec.T ELSE 0)
    BY <1>0, <1>4, Zenon DEF LimitHolds
  <2>1. had[x] <= spec.limit + (IF Bucket THEN now \div spec.T ELSE 0) BY Zenon DEF LedgerInv, LimitHolds
  <2>2. had[x] \in Int /\ spec.limit \in Nat BY <1>1, ClockFacts, Zenon DEF LedgerTypeOK
  <2>3. CASE Bucket
    <3>1. spec.T \in Nat \ {0} BY <1>1, <2>3, ClockFacts
    <3>2. /\ now \div spec.T <= (now + 1) \div spec.T
          /\ now \div spec.T \in Nat /\ (now + 1) \div spec.T \in Nat
      <4>1. /\ WindowOf(now, spec.T) \in Nat
            /\ WindowOf(now + 1, spec.T) \in {WindowOf(now, spec.T), WindowOf(now, spec.T) + 1}
        BY <1>2, <3>1, WindowFacts, Zenon
      <4> QED BY <4>1 DEF WindowOf
    <3> QED BY <2>1, <2>2, <2>3, <3>2
  <2>4. CASE ~Bucket BY <2>1, <2>4, Zenon
  <2> QED BY <2>3, <2>4, Zenon
<1>12. OrgBudgetHolds' BY <1>0, Zenon DEF LedgerInv, OrgBudgetHolds
<1>13. Smooth'
  <2> SUFFICES ASSUME spec.algo = "sliding", wid' > 0, NEW k \in Keys
               PROVE  had[<<k, wid'>>] * spec.win
                        + MaxOf(had[<<k, wid' - 1>>], 0) * (WindowEnd(wid', spec.win) - (now + 1))
                      <= spec.limit * spec.win
    BY <1>0, Zenon DEF Smooth
  <2>1. ~Bucket BY Zenon DEF Bucket
  <2>2. spec.win \in Nat /\ spec.win > 0 /\ wid = WindowOf(now, spec.win) /\ spec.limit \in Nat
    BY <1>1, <2>1, ClockFacts, Zenon
  <2>3. wid' = WindowOf(now + 1, spec.win) BY <1>0, <1>4, <2>1, Zenon DEF wid
  <2> DEFINE c == WindowEnd(wid', spec.win) - (now + 1)
  <2>4. c \in Int /\ c > 0 /\ c <= spec.win
    <3>1. /\ now + 1 < WindowEnd(wid', spec.win) /\ WindowEnd(wid', spec.win) <= now + 1 + spec.win
      BY <1>2, <2>2, <2>3, WindowFacts
    <3>2. WindowEnd(wid', spec.win) \in Int BY <1>5, <2>2 DEF WindowEnd
    <3> QED BY <1>2, <2>2, <3>1, <3>2
  <2>5. wid' \in Windows /\ wid \in Windows /\ wid' - 1 \in Windows
    <3>1. WindowOf(now + 1, spec.win) <= now + 1 BY <1>2, <2>2, WindowFacts
    <3>2. wid \in Windows BY <1>1, ClockFacts, Zenon
    <3> QED BY <1>0, <1>2, <1>5, <2>3, <3>1, <3>2 DEF Windows
  <2>6. <<k, wid'>> \in Entries /\ <<k, wid' - 1>> \in Entries BY <2>5, Zenon DEF Entries
  <2> DEFINE a == had[<<k, wid'>>]
             b == MaxOf(had[<<k, wid' - 1>>], 0)
  <2>7. a \in Int /\ b \in Nat BY <1>1, <2>6 DEF LedgerTypeOK, MaxOf
  <2>8. CASE wid' = wid
    <3> DEFINE d == WindowEnd(wid, spec.win) - now
    <3>1. a * spec.win + b * d <= spec.limit * spec.win BY <2>8, Zenon DEF LedgerInv, Smooth
    <3>2. d = c + 1
      <4>1. WindowEnd(wid, spec.win) \in Int BY <1>5, <2>2 DEF WindowEnd
      <4> QED BY <1>2, <2>8, <4>1
    <3> HIDE DEF a, b, c, d
    <3>3. b * d = b * c + b BY <2>4, <2>7, <3>2
    <3> QED BY <2>2, <2>4, <2>7, <3>1, <3>3 DEF a, b, c
  <2>9. CASE wid' = wid + 1
    <3>1. a <= 0
      <4>1. <<k, wid'>>[2] > wid BY <1>5, <2>9
      <4> QED BY <2>6, <4>1, Zenon DEF LedgerInv, NotAhead
    <3>2. b <= spec.limit
      <4>1. had[<<k, wid' - 1>>] <= spec.limit BY <2>1, <2>2, <2>6 DEF LedgerInv, LimitHolds
      <4> QED BY <2>2, <4>1 DEF MaxOf
    <3> HIDE DEF a, b, c
    <3>3. a * spec.win <= 0 BY <2>2, <2>7, <3>1
    <3>4. b * c <= spec.limit * spec.win
      <4>1. b * c <= b * spec.win BY <2>2, <2>4, <2>7
      <4>2. b * spec.win <= spec.limit * spec.win BY <2>2, <2>7, <3>2
      <4>3. b * c \in Int /\ b * spec.win \in Int /\ spec.limit * spec.win \in Int BY <2>2, <2>4, <2>7
      <4> QED BY <4>1, <4>2, <4>3
    <3>5. a * spec.win \in Int /\ b * c \in Int /\ spec.limit * spec.win \in Int BY <2>2, <2>4, <2>7
    <3>6. a * spec.win + b * c <= spec.limit * spec.win BY <3>3, <3>4, <3>5
    <3> QED BY <3>6, Zenon DEF a, b, c
  <2> QED BY <1>5, <2>8, <2>9, Zenon
<1> QED BY <1>3, <1>7, <1>8, <1>9, <1>10, <1>11, <1>12, <1>13, Zenon DEF LedgerInv


\* Nobody's having less breaks the smoothness of a sliding window.
LEMMA SmoothLess ==
  ASSUME LedgerTypeOK, Smooth, UNCHANGED <<spec, org, now>>,
         \A x \in Entries : had'[x] <= had[x] /\ had[x] \in Int /\ had'[x] \in Int
  PROVE  Smooth'
<1>1. wid' = wid BY ClockKept, Zenon
<1> SUFFICES ASSUME spec.algo = "sliding", wid > 0, NEW k \in Keys
             PROVE  had'[<<k, wid>>] * spec.win
                      + MaxOf(had'[<<k, wid - 1>>], 0) * (WindowEnd(wid, spec.win) - now)
                    <= spec.limit * spec.win
  BY <1>1, Zenon DEF Smooth
<1>2. ~Bucket BY Zenon DEF Bucket
<1>3. /\ spec.win \in Nat /\ spec.win > 0 /\ now \in Nat /\ spec.limit \in Nat
      /\ wid = WindowOf(now, spec.win) /\ wid \in Nat /\ wid \in Windows
  BY <1>2, ClockFacts, Zenon
<1> DEFINE c == WindowEnd(wid, spec.win) - now
           a == had[<<k, wid>>]
           b == MaxOf(had[<<k, wid - 1>>], 0)
           p == had'[<<k, wid>>]
           q == MaxOf(had'[<<k, wid - 1>>], 0)
<1>4. c \in Nat
  <2>0. now < WindowEnd(WindowOf(now, spec.win), spec.win)
    <3>1. now \in Nat /\ spec.win \in Nat \ {0} BY <1>3
    <3> QED BY <3>1, WindowFacts, Zenon
  <2>1. now < WindowEnd(wid, spec.win) BY <1>3, <2>0, Zenon
  <2>2. WindowEnd(wid, spec.win) \in Int BY <1>3 DEF WindowEnd
  <2> QED BY <1>3, <2>1, <2>2
<1>5. <<k, wid>> \in Entries /\ <<k, wid - 1>> \in Entries
  <2>1. wid - 1 \in Windows BY <1>3, LedgerSettings DEF Windows
  <2> QED BY <1>3, <2>1, Zenon DEF Entries
<1>6. a \in Int /\ b \in Nat /\ p \in Int /\ q \in Nat /\ p <= a /\ q <= b BY <1>5 DEF MaxOf
<1>7. a * spec.win + b * c <= spec.limit * spec.win BY Zenon DEF Smooth
<1> HIDE DEF a, b, c, p, q
<1>8. p * spec.win <= a * spec.win BY <1>3, <1>6
<1>9. q * c <= b * c BY <1>4, <1>6
<1>10. /\ p * spec.win \in Int /\ a * spec.win \in Int /\ q * c \in Int /\ b * c \in Int
       /\ spec.limit * spec.win \in Int
  BY <1>3, <1>4, <1>6
<1>11. p * spec.win + q * c <= spec.limit * spec.win BY <1>7, <1>8, <1>9, <1>10
<1> QED BY <1>11, Zenon DEF c, p, q

\* A return under a new id: what its sender no longer counts as had is on its
\* way back, so the counters cover the two as before.
LEMMA SendStep ==
  ASSUME LedgerInv, NEW e \in Edges, NEW tokens \in Int, NEW until \in Int, NEW m \in Nat,
         until <= now + MaxOf(RetryFor, TokenLife), Send(e, tokens, until),
         held' = [held EXCEPT ![e].n = m],
         had' = [had EXCEPT ![<<KeyOf[e], held[e].win>>] = @ - MaxOf(tokens, 0)],
         phad' = IF org # NoOrg /\ pwid = held[e].pwin
                 THEN [phad EXCEPT ![pwid] = @ - MaxOf(tokens, 0)] ELSE phad,
         UNCHANGED <<spec, org, now, used, pused, tat, deduped, call, applied>>
  PROVE  LedgerInv'
<1> DEFINE i == <<e, seq[e] + 1>>
           k == KeyOf[e]
           h == held[e]
           d == MaxOf(tokens, 0)
<1>1. LedgerTypeOK BY Zenon DEF LedgerInv
<1>2. wid' = wid /\ pwid' = pwid /\ (Bucket <=> Bucket') BY ClockKept, Zenon
<1>3. /\ k \in Keys /\ h \in HeldRec /\ d \in Nat /\ seq[e] \in Nat /\ MaxReturns \in Nat
      /\ h.win \in Windows /\ h.pwin \in Windows /\ h.n \in Nat
      /\ h.win <= wid /\ h.pwin <= pwid
      /\ wid \in Nat /\ pwid \in Nat /\ pwid \in Windows
  BY <1>1, LedgerSettings, ClockFacts DEF LedgerInv, LedgerTypeOK, HeldRec, NotAhead, MaxOf
<1>4. seq[e] < MaxReturns /\ seq' = [seq EXCEPT ![e] = seq[e] + 1]
      /\ sent' = [sent EXCEPT ![i] = [win |-> h.win, pwin |-> h.pwin, tokens |-> tokens, until |-> until]]
  BY Zenon DEF Send
<1>5. i \in Ids BY <1>3, <1>4 DEF Ids
<1>6. sent[i] = NoReturn /\ applied[i] = 0
  <2>1. i[1] = e /\ i[2] > seq[i[1]] BY <1>3
  <2> QED BY <1>5, <2>1, Zenon DEF LedgerInv, NotAhead
<1>7. sent' \in [Ids -> SentRec]
        /\ sent'[i] = [win |-> h.win, pwin |-> h.pwin, tokens |-> tokens, until |-> until]
      /\ \A j \in Ids \ {i} : sent'[j] = sent[j]
  BY <1>1, <1>3, <1>4, <1>5, Zenon DEF LedgerTypeOK, SentRec
<1>8. /\ <<k, h.win>> \in Entries
      /\ had' \in [Entries -> Int]
      /\ \A x \in Entries : had'[x] = IF x = <<k, h.win>> THEN had[x] - d ELSE had[x]
      /\ \A x \in Entries : had'[x] <= had[x] /\ had[x] \in Int /\ had'[x] \in Int
  <2>1. <<k, h.win>> \in Entries BY <1>3, Zenon DEF Entries
  <2>2. had \in [Entries -> Int] BY <1>1, Zenon DEF LedgerTypeOK
  <2> HIDE DEF d, h, k
  <2>3. had' = [had EXCEPT ![<<k, h.win>>] = had[<<k, h.win>>] - d] BY Zenon DEF d, h, k
  <2>4. \A x \in Entries : had[x] \in Int /\ had[x] - d \in Int /\ had[x] - d <= had[x] BY <1>3, <2>2
  <2>5. \A x \in Entries : had'[x] = IF x = <<k, h.win>> THEN had[x] - d ELSE had[x]
    BY <2>1, <2>2, <2>3, Zenon
  <2>6. had' \in [Entries -> Int] BY <2>1, <2>2, <2>3, <2>4, Zenon
  <2> QED BY <2>1, <2>4, <2>5, <2>6
<1>9. /\ phad' \in [Windows -> Int]
      /\ \A w \in Windows : phad'[w]
           = IF org # NoOrg /\ pwid = h.pwin /\ w = pwid THEN phad[w] - d ELSE phad[w]
      /\ \A w \in Windows : phad'[w] <= phad[w] /\ phad[w] \in Int /\ phad'[w] \in Int
  BY <1>1, <1>3 DEF LedgerTypeOK
<1>10. /\ held' \in [Edges -> HeldRec]
       /\ \A f \in Edges : held'[f].win = held[f].win /\ held'[f].pwin = held[f].pwin
  BY <1>1, Zenon DEF LedgerTypeOK, HeldRec
<1>11. LedgerTypeOK'
  <2>1. seq' \in [Edges -> Nat] BY <1>1, <1>3, <1>4 DEF LedgerTypeOK
  <2> QED BY <1>1, <1>7, <1>8, <1>9, <1>10, <2>1, Zenon DEF LedgerTypeOK
<1>12. NotAhead'
  <2>1. \A f \in Edges : /\ call'[f] # NoCall => call'[f].granted \in Nat
                         /\ call'[f].win <= wid' /\ call'[f].pwin <= pwid'
                         /\ held'[f].win <= wid' /\ held'[f].pwin <= pwid'
    BY <1>2, <1>10, Zenon DEF LedgerInv, NotAhead
  <2>2. ASSUME NEW j \in Ids
        PROVE  /\ sent'[j].win <= wid' /\ sent'[j].pwin <= pwid'
               /\ sent'[j].until <= now' + MaxOf(RetryFor, TokenLife)
    BY <1>2, <1>3, <1>7 DEF LedgerInv, NotAhead
  <2>3. ASSUME NEW j \in Ids, j[2] > seq'[j[1]] PROVE sent'[j] = NoReturn /\ applied'[j] = 0
    <3>1. j[1] \in Edges /\ j[2] \in Nat /\ j = <<j[1], j[2]>> BY DEF Ids
    <3>2. seq'[j[1]] = IF j[1] = e THEN seq[e] + 1 ELSE seq[j[1]]
      BY <1>1, <1>4, <3>1, Zenon DEF LedgerTypeOK
    <3>3. seq[j[1]] \in Nat BY <1>1, <3>1, Zenon DEF LedgerTypeOK
    <3>4. j # i /\ j[2] > seq[j[1]] BY <1>3, <2>3, <3>1, <3>2, <3>3
    <3> QED BY <1>7, <3>4, Zenon DEF LedgerInv, NotAhead
  <2>4. \A x \in Entries : x[2] > wid' => had'[x] <= 0
    BY <1>2, <1>8 DEF LedgerInv, NotAhead
  <2> QED BY <2>1, <2>2, <2>3, <2>4, Zenon DEF NotAhead
<1>13. NoSecondTime'
  <2> SUFFICES ASSUME NEW j \in Ids, applied[j] = 1 PROVE sent'[j] = sent[j]
    BY <1>2, Zenon DEF LedgerInv, NoSecondTime
  <2> QED BY <1>6, <1>7
<1>14. Due(sent, applied, i) = 0 /\ Due(sent', applied, i) = d
  BY <1>6, <1>7 DEF Due, NoReturn, MaxOf
<1>15. /\ \A l, w : KeySum(sent', applied, l, w)
            = KeySum(sent, applied, l, w) + (IF k = l /\ h.win = w THEN d ELSE 0)
       /\ \A w : OrgSum(sent', applied, w) = OrgSum(sent, applied, w) + (IF h.pwin = w THEN d ELSE 0)
  <2>1. sent \in Returns BY <1>1, Zenon DEF LedgerTypeOK, Returns
  <2>2. \A j \in Ids \ {i} : sent'[j] = sent[j] /\ applied'[j] = applied[j] BY <1>7, Zenon
  <2>3. i[1] = e /\ sent'[i].win = h.win /\ sent'[i].pwin = h.pwin BY <1>7
  <2>4. i \in Ids /\ sent' \in Returns BY <1>5, <1>7, Zenon DEF Returns
  <2>5. d - 0 = d /\ 0 - 0 = 0 /\ applied' = applied BY <1>3
  <2> HIDE DEF i, d, h
  <2>6. /\ \A l, w : KeySum(sent', applied', l, w) = KeySum(sent, applied, l, w)
                       + (KeyPart(sent', applied', l, w, i) - KeyPart(sent, applied, l, w, i))
        /\ \A w : OrgSum(sent', applied', w) = OrgSum(sent, applied, w)
                    + (OrgPart(sent', applied', w, i) - OrgPart(sent, applied, w, i))
    BY <2>1, <2>2, <2>4, SumsMove, Zenon
  <2>8. \A l, w : /\ KeyPart(sent', applied', l, w, i) = IF k = l /\ h.win = w THEN d ELSE 0
                  /\ KeyPart(sent, applied, l, w, i) = 0
    BY <1>14, <2>3, <2>5, Zenon DEF KeyPart
  <2>9. \A w : /\ OrgPart(sent', applied', w, i) = IF h.pwin = w THEN d ELSE 0
               /\ OrgPart(sent, applied, w, i) = 0
    BY <1>14, <2>3, <2>5, Zenon DEF OrgPart
  <2> QED BY <2>5, <2>6, <2>8, <2>9
<1>16. /\ \A l, w : KeySum(sent, applied, l, w) \in Nat
       /\ \A w : OrgSum(sent, applied, w) \in Nat
  BY <1>1, DueNat, Zenon DEF LedgerTypeOK
<1>17. Covered'
  <2> SUFFICES ASSUME NEW l \in Keys, NEW w \in Windows PROVE KeyCovered(l, w)' BY Zenon DEF Covered
  <2>1. KeyCovered(l, w) BY Zenon DEF LedgerInv, Covered
  <2>2. had'[<<l, w>>] = had[<<l, w>>] - (IF k = l /\ h.win = w THEN d ELSE 0) /\ had[<<l, w>>] \in Int
    BY <1>3, <1>8 DEF Entries
  <2>3. had'[<<l, w>>] + KeySum(sent', applied, l, w) = had[<<l, w>>] + KeySum(sent, applied, l, w)
    BY <1>3, <1>15, <1>16, <2>2
  <2>4. Tat(l)' = Tat(l) BY Zenon DEF Tat
  <2> QED BY <1>2, <2>1, <2>3, <2>4, Zenon DEF KeyCovered
<1>18. OrgCovered'
  <2> SUFFICES ASSUME org # NoOrg, NEW w \in Windows, w >= pwid
               PROVE  phad'[w] + OrgSum(sent', applied, w) <= pused[w]
    BY <1>2, Zenon DEF OrgCovered
  <2>1. phad[w] + OrgSum(sent, applied, w) <= pused[w] BY Zenon DEF LedgerInv, OrgCovered
  <2>2. w \in Int /\ (h.pwin = w => pwid = h.pwin /\ w = pwid) BY <1>3 DEF Windows
  <2>3. phad'[w] <= phad[w] - (IF h.pwin = w THEN d ELSE 0) BY <1>3, <1>9, <2>2
  <2>4. pused[w] \in Nat BY <1>1, Zenon DEF LedgerTypeOK
  <2> QED BY <1>3, <1>9, <1>15, <1>16, <2>1, <2>3, <2>4
<1>19. LimitHolds'
  <2> SUFFICES ASSUME NEW x \in Entries
               PROVE  had'[x] <= spec.limit + (IF Bucket THEN now \div spec.T ELSE 0)
    BY <1>2, Zenon DEF LimitHolds
  <2>1. had[x] <= spec.limit + (IF Bucket THEN now \div spec.T ELSE 0) BY Zenon DEF LedgerInv, LimitHolds
  <2>2. spec.limit + (IF Bucket THEN now \div spec.T ELSE 0) \in Int BY <1>1, ClockFacts
  <2> QED BY <1>8, <2>1, <2>2
<1>20. OrgBudgetHolds'
  <2>1. org # NoOrg => org.limit \in Nat BY <1>1, ClockFacts, Zenon
  <2> QED BY <1>9, <2>1 DEF LedgerInv, OrgBudgetHolds
<1>21. Smooth' BY <1>1, <1>2, <1>8, SmoothLess, Zenon DEF LedgerInv
<1> QED BY <1>11, <1>12, <1>13, <1>17, <1>18, <1>19, <1>20, <1>21, Zenon DEF LedgerInv

\* An edge gives back what it holds.
LEMMA GiveBackStep == ASSUME LedgerInv, NEW e \in Edges, GiveBack(e) PROVE LedgerInv'
<1>1. LedgerTypeOK BY Zenon DEF LedgerInv
<1>2. /\ held[e].n \in Nat /\ held[e].n \in Int /\ held[e].n > 0 /\ now \in Nat
      /\ RetryFor \in Nat /\ TokenLife \in Nat
  BY <1>1, ClockFacts, LedgerSettings DEF LedgerTypeOK, HeldRec, GiveBack
<1>3. MaxOf(held[e].n, 0) = held[e].n BY <1>2 DEF MaxOf
<1>4. now + RetryFor \in Int /\ now + RetryFor <= now + MaxOf(RetryFor, TokenLife) BY <1>2 DEF MaxOf
<1>5. /\ Send(e, held[e].n, now + RetryFor)
      /\ held' = [held EXCEPT ![e].n = 0]
      /\ had' = [had EXCEPT ![<<KeyOf[e], held[e].win>>] = @ - MaxOf(held[e].n, 0)]
      /\ phad' = IF org # NoOrg /\ pwid = held[e].pwin
                 THEN [phad EXCEPT ![pwid] = @ - MaxOf(held[e].n, 0)] ELSE phad
      /\ UNCHANGED <<spec, org, now, used, pused, tat, deduped, call, applied>>
  BY <1>3, Zenon DEF GiveBack, ledger
<1> QED BY <1>2, <1>4, <1>5, SendStep, Zenon

\* A reservation is settled.
LEMMA SettleStep ==
  ASSUME LedgerInv, NEW e \in Edges, NEW actual \in Actuals, Settle(e, actual) PROVE LedgerInv'
<1>1. LedgerTypeOK BY Zenon DEF LedgerInv
<1>2. /\ held[e].n \in Nat /\ held[e].n > 0 /\ now \in Nat /\ actual \in Nat
      /\ RetryFor \in Nat /\ TokenLife \in Nat
  BY <1>1, ClockFacts, LedgerSettings, Zenon DEF LedgerTypeOK, HeldRec, Settle
<1>3. /\ now + TokenLife \in Int /\ now + TokenLife <= now + MaxOf(RetryFor, TokenLife)
      /\ 1 - actual \in Int /\ held[e].n - 1 \in Nat
  BY <1>2 DEF MaxOf
<1>4. /\ Send(e, 1 - actual, now + TokenLife)
      /\ held' = [held EXCEPT ![e].n = held[e].n - 1]
      /\ had' = [had EXCEPT ![<<KeyOf[e], held[e].win>>] = @ - MaxOf(1 - actual, 0)]
      /\ phad' = IF org # NoOrg /\ pwid = held[e].pwin
                 THEN [phad EXCEPT ![pwid] = @ - MaxOf(1 - actual, 0)] ELSE phad
      /\ UNCHANGED <<spec, org, now, used, pused, tat, deduped, call, applied>>
  BY Zenon DEF Settle, ledger
<1> QED BY <1>3, <1>4, SendStep, Zenon


\* A counter goes down by no more than what is returned, and never below zero.
LEMMA CreditFacts ==
  ASSUME NEW u \in Nat, NEW t \in Int
  PROVE  Credit(u, t) \in Nat /\ Credit(u, t) >= u - MaxOf(t, 0)
BY DEF Credit, MinOf, MaxOf

\* Whether the handler finds no record of the return, and what it then credits.
IsNew(i) == deduped[i] <= now

ForKey(i) == IsNew(i) /\ ~Bucket /\ wid = sent[i].win

ForOrg(i) == IsNew(i) /\ org # NoOrg /\ pwid = sent[i].pwin

Effective(i) == ForKey(i) \/ (IsNew(i) /\ Bucket) \/ ForOrg(i)

Given(i) == MaxOf(sent[i].tokens, 0)

\* What holds of a return about to be executed.
Executable(i) ==
  /\ /\ KeyOf[i[1]] \in Keys /\ sent[i] \in SentRec /\ sent[i].win \in Windows /\ sent[i].pwin \in Windows
     /\ sent[i].tokens \in Int /\ sent[i].until \in Int /\ sent[i].win \in Nat /\ sent[i].pwin \in Nat
          /\ Given(i) \in Nat
     /\ sent[i].win <= wid /\ sent[i].pwin <= pwid /\ sent[i].until <= now + MaxOf(RetryFor, TokenLife)
     /\ deduped[i] \in Nat /\ applied[i] \in {0, 1}
  /\ /\ now \in Nat /\ wid \in Windows /\ pwid \in Windows /\ wid \in Nat /\ pwid \in Nat
     /\ spec.limit \in Nat /\ spec.limit > 0
     /\ Bucket => wid = 0 /\ spec.T \in Nat /\ spec.T > 0
     /\ ~Bucket => /\ spec.win \in Nat /\ spec.win > 0 /\ wid = WindowOf(now, spec.win)
     /\ org # NoOrg => /\ org.win \in Nat /\ org.win > 0 /\ pwid = WindowOf(now, org.win)
  /\ /\ DedupeFor \in Nat
     /\ ~Bucket => DedupeFor >= spec.win
     /\ org # NoOrg => DedupeFor >= org.win
     /\ Bucket => DedupeFor > MaxOf(RetryFor, TokenLife)
  /\ /\ ~Bucket => WindowEnd(sent[i].win, spec.win) <= now + DedupeFor
     /\ org # NoOrg => WindowEnd(sent[i].pwin, org.win) <= now + DedupeFor
  /\ applied[i] = 1 => ~Effective(i)

\* What executing it does to the counters.
Executed(i) ==
  /\ now <= sent[i].until /\ UNCHANGED <<spec, org, now, call, held, sent, seq, had, phad>>
  /\ wid' = wid /\ pwid' = pwid /\ (Bucket <=> Bucket')
  /\ /\ deduped' \in [Ids -> Nat] /\ deduped'[i] = (IF IsNew(i) THEN now + DedupeFor ELSE deduped[i])
     /\ applied' \in [Ids -> Nat] /\ applied'[i] = (IF Effective(i) THEN 1 ELSE applied[i])
     /\ \A j \in Ids \ {i} : deduped'[j] = deduped[j] /\ applied'[j] = applied[j]
  /\ /\ used' \in [Entries -> Nat]
     /\ \A x \in Entries : used'[x] >= used[x] - (IF ForKey(i) /\ x = <<KeyOf[i[1]], wid>>
          THEN Given(i) ELSE 0)
  /\ /\ pused' \in [Windows -> Nat]
     /\ \A w \in Windows : pused'[w] >= pused[w] - (IF ForOrg(i) /\ w = pwid THEN Given(i) ELSE 0)
  /\ /\ tat' \in [Keys -> Nat]
     /\ ~(IsNew(i) /\ Bucket) => tat' = tat
     /\ \A l \in Keys \ {KeyOf[i[1]]} : tat'[l] = tat[l]
     /\ IsNew(i) /\ Bucket => tat'[KeyOf[i[1]]] >= Tat(KeyOf[i[1]]) - Given(i) * spec.T

\* What executing it does to what is owed.
Repaid(i) ==
  /\ /\ \A l, w : KeySum(sent', applied', l, w) = KeySum(sent, applied, l, w)
                     - (IF Effective(i) /\ KeyOf[i[1]] = l /\ sent[i].win = w THEN Given(i) ELSE 0)
     /\ \A w : OrgSum(sent', applied', w) = OrgSum(sent, applied, w)
                  - (IF Effective(i) /\ sent[i].pwin = w THEN Given(i) ELSE 0)
  /\ /\ \A l, w : KeySum(sent, applied, l, w) \in Nat
     /\ \A w : OrgSum(sent, applied, w) \in Nat

\* A return about to be executed either has no record or moves nothing.
LEMMA ExecuteBefore ==
  ASSUME RecordsOutlast, LedgerInv, NEW i \in Ids, Execute(i)
  PROVE  Executable(i)
<1> DEFINE k == KeyOf[i[1]]
           r == sent[i]
<1>1. LedgerTypeOK BY Zenon DEF LedgerInv
<1>2. /\ now <= r.until
      /\ deduped' = IF IsNew(i) THEN [deduped EXCEPT ![i] = now + DedupeFor] ELSE deduped
      /\ tat' = IF IsNew(i) /\ Bucket
                THEN [tat EXCEPT ![k] = MaxOf(Tat(k) - r.tokens * spec.T, now)] ELSE tat
      /\ used'
           = IF ForKey(i) THEN [used EXCEPT ![<<k, wid>>] = Credit(used[<<k, wid>>], r.tokens)] ELSE used
      /\ pused' = IF ForOrg(i) THEN [pused EXCEPT ![pwid] = Credit(pused[pwid], r.tokens)] ELSE pused
      /\ applied' = IF Effective(i) THEN [applied EXCEPT ![i] = applied[i] + 1] ELSE applied
      /\ UNCHANGED <<spec, org, now, call, held, sent, seq, had, phad>>
  BY Zenon DEF Execute, edges, IsNew, ForKey, ForOrg, Effective
<1>4. /\ k \in Keys /\ r \in SentRec /\ r.win \in Windows /\ r.pwin \in Windows
      /\ r.tokens \in Int /\ r.until \in Int /\ r.win \in Nat /\ r.pwin \in Nat /\ Given(i) \in Nat
      /\ r.win <= wid /\ r.pwin <= pwid /\ r.until <= now + MaxOf(RetryFor, TokenLife)
      /\ deduped[i] \in Nat /\ applied[i] \in {0, 1}
  <2>1. i[1] \in Edges /\ k \in Keys BY LedgerSettings, Zenon DEF Ids
  <2>2. r \in SentRec /\ deduped[i] \in Nat BY <1>1, Zenon DEF LedgerTypeOK
  <2>3. r.win \in Windows /\ r.pwin \in Windows /\ r.tokens \in Int /\ r.until \in Int
    BY <2>2, Zenon DEF SentRec
  <2>4. \A w \in Windows : w \in Nat BY DEF Windows
  <2>5. Given(i) \in Nat BY <2>3 DEF Given, MaxOf
  <2>6. /\ r.win <= wid /\ r.pwin <= pwid /\ r.until <= now + MaxOf(RetryFor, TokenLife)
        /\ applied[i] \in {0, 1}
    BY Zenon DEF LedgerInv, NotAhead, NoSecondTime
  <2> QED BY <2>1, <2>2, <2>3, <2>4, <2>5, <2>6, Zenon
<1>5. /\ now \in Nat /\ wid \in Windows /\ pwid \in Windows /\ wid \in Nat /\ pwid \in Nat
      /\ spec.limit \in Nat /\ spec.limit > 0
      /\ Bucket => wid = 0 /\ spec.T \in Nat /\ spec.T > 0
      /\ ~Bucket => /\ spec.win \in Nat /\ spec.win > 0 /\ wid = WindowOf(now, spec.win)
      /\ org # NoOrg => /\ org.win \in Nat /\ org.win > 0 /\ pwid = WindowOf(now, org.win)
  BY <1>1, ClockFacts, Zenon
<1>6. /\ DedupeFor \in Nat
      /\ ~Bucket => DedupeFor >= spec.win
      /\ org # NoOrg => DedupeFor >= org.win
      /\ Bucket => DedupeFor > MaxOf(RetryFor, TokenLife)
  <2>1. Period \in Nat /\ (~Bucket => Period = spec.win) /\ (Bucket => Period = spec.limit * spec.T)
    BY <1>5 DEF Period
  <2>2. Bucket => MaxOf(RetryFor, TokenLife) < 2 * MaxOf(1, Period)
    BY <1>1, <2>1, Zenon DEF RecordsOutlast, LedgerTypeOK, Bucket
  <2>3. MaxOf(RetryFor, TokenLife) \in Nat BY LedgerSettings, Zenon DEF MaxOf
  <2> QED BY <1>5, <2>1, <2>2, <2>3 DEF DedupeFor, MaxOf
<1>7. /\ ~Bucket => WindowEnd(r.win, spec.win) <= now + DedupeFor
      /\ org # NoOrg => WindowEnd(r.pwin, org.win) <= now + DedupeFor
  <2>1. ASSUME NEW win \in Nat \ {0}, NEW w \in Nat, w <= WindowOf(now, win), DedupeFor >= win
        PROVE  WindowEnd(w, win) <= now + DedupeFor
    <3>1. WindowOf(now, win) \in Nat /\ WindowEnd(WindowOf(now, win), win) <= now + win
      BY <1>5, WindowFacts, Zenon
    <3> DEFINE v == WindowOf(now, win)
    <3> HIDE DEF v
    <3>2. v \in Nat /\ w <= v /\ (v + 1) * win <= now + win BY <2>1, <3>1, Zenon DEF WindowEnd, v
    <3>3. (w + 1) * win <= (v + 1) * win BY <3>2
    <3>4. (w + 1) * win \in Int /\ (v + 1) * win \in Int BY <3>2
    <3> QED BY <1>5, <1>6, <2>1, <3>2, <3>3, <3>4 DEF WindowEnd
  <2>2. ~Bucket => spec.win \in Nat \ {0} /\ r.win <= WindowOf(now, spec.win) BY <1>4, <1>5
  <2>3. org # NoOrg => org.win \in Nat \ {0} /\ r.pwin <= WindowOf(now, org.win) BY <1>4, <1>5
  <2> HIDE DEF r
  <2> QED BY <1>4, <1>6, <2>1, <2>2, <2>3, Zenon
<1>8. applied[i] = 1 => ~Effective(i)
  <2> SUFFICES ASSUME applied[i] = 1, IsNew(i) PROVE ~ForKey(i) /\ ~Bucket /\ ~ForOrg(i)
    BY Zenon DEF IsNew, ForKey, ForOrg, Effective
  <2>1. /\ ~Bucket => deduped[i] >= WindowEnd(r.win, spec.win)
        /\ Bucket => deduped[i] > r.until
        /\ org # NoOrg => deduped[i] >= WindowEnd(r.pwin, org.win)
    BY Zenon DEF LedgerInv, NoSecondTime
  <2>2. ~Bucket BY <1>2, <1>4, <1>5, <2>1 DEF IsNew
  <2>3. now >= WindowEnd(r.win, spec.win)
    <3>1. WindowEnd(r.win, spec.win) \in Int BY <1>4, <1>5, <2>2 DEF WindowEnd
    <3> QED BY <1>4, <1>5, <2>1, <2>2, <3>1 DEF IsNew
  <2>4. r.win < wid
    <3>1. spec.win \in Nat \ {0} /\ now \in Nat BY <1>5, <2>2
    <3>2. \A w \in Nat : now >= WindowEnd(w, spec.win) => w < WindowOf(now, spec.win)
      BY <3>1, WindowFacts, Zenon
    <3> QED BY <1>4, <1>5, <2>2, <2>3, <3>2, Zenon
  <2>5. org # NoOrg => r.pwin < pwid
    <3> SUFFICES ASSUME org # NoOrg PROVE r.pwin < pwid BY Zenon
    <3>1. org.win \in Nat \ {0} /\ now \in Nat BY <1>5
    <3>2. \A w \in Nat : now >= WindowEnd(w, org.win) => w < WindowOf(now, org.win)
      BY <3>1, WindowFacts, Zenon
    <3>3. WindowEnd(r.pwin, org.win) \in Int BY <1>4, <1>5 DEF WindowEnd
    <3>4. now >= WindowEnd(r.pwin, org.win) BY <1>4, <1>5, <2>1, <3>3 DEF IsNew
    <3> QED BY <1>4, <1>5, <3>2, <3>4, Zenon
  <2> QED BY <1>4, <1>5, <2>2, <2>4, <2>5 DEF ForKey, ForOrg
<1> QED BY <1>4, <1>5, <1>6, <1>7, <1>8, Zenon DEF Executable

\* Executing it gives the counters back at most what it brings.
LEMMA ExecuteCounters ==
  ASSUME LedgerInv, NEW i \in Ids, Execute(i), Executable(i)
  PROVE  Executed(i) /\ LedgerTypeOK'
<1> DEFINE k == KeyOf[i[1]]
           r == sent[i]
<1>1. LedgerTypeOK BY Zenon DEF LedgerInv
<1>4. /\ k \in Keys /\ r \in SentRec /\ r.win \in Windows /\ r.pwin \in Windows
      /\ r.tokens \in Int /\ r.until \in Int /\ r.win \in Nat /\ r.pwin \in Nat /\ Given(i) \in Nat
      /\ r.win <= wid /\ r.pwin <= pwid /\ r.until <= now + MaxOf(RetryFor, TokenLife)
      /\ deduped[i] \in Nat /\ applied[i] \in {0, 1}
  BY Zenon DEF Executable
<1>5. /\ now \in Nat /\ wid \in Windows /\ pwid \in Windows /\ wid \in Nat /\ pwid \in Nat
      /\ spec.limit \in Nat /\ spec.limit > 0
      /\ Bucket => wid = 0 /\ spec.T \in Nat /\ spec.T > 0
      /\ ~Bucket => /\ spec.win \in Nat /\ spec.win > 0 /\ wid = WindowOf(now, spec.win)
      /\ org # NoOrg => /\ org.win \in Nat /\ org.win > 0 /\ pwid = WindowOf(now, org.win)
  BY Zenon DEF Executable
<1>6. /\ DedupeFor \in Nat
      /\ ~Bucket => DedupeFor >= spec.win
      /\ org # NoOrg => DedupeFor >= org.win
      /\ Bucket => DedupeFor > MaxOf(RetryFor, TokenLife)
  BY Zenon DEF Executable
<1>8. applied[i] = 1 => ~Effective(i) BY Zenon DEF Executable
<1>2. /\ now <= r.until
      /\ deduped' = IF IsNew(i) THEN [deduped EXCEPT ![i] = now + DedupeFor] ELSE deduped
      /\ tat' = IF IsNew(i) /\ Bucket
                THEN [tat EXCEPT ![k] = MaxOf(Tat(k) - r.tokens * spec.T, now)] ELSE tat
      /\ used'
           = IF ForKey(i) THEN [used EXCEPT ![<<k, wid>>] = Credit(used[<<k, wid>>], r.tokens)] ELSE used
      /\ pused' = IF ForOrg(i) THEN [pused EXCEPT ![pwid] = Credit(pused[pwid], r.tokens)] ELSE pused
      /\ applied' = IF Effective(i) THEN [applied EXCEPT ![i] = applied[i] + 1] ELSE applied
      /\ UNCHANGED <<spec, org, now, call, held, sent, seq, had, phad>>
  BY Zenon DEF Execute, edges, IsNew, ForKey, ForOrg, Effective
<1>3. wid' = wid /\ pwid' = pwid /\ (Bucket <=> Bucket') BY <1>2, ClockKept, Zenon
<1>9. /\ deduped' \in [Ids -> Nat] /\ deduped'[i] = (IF IsNew(i) THEN now + DedupeFor ELSE deduped[i])
      /\ applied' \in [Ids -> Nat] /\ applied'[i] = (IF Effective(i) THEN 1 ELSE applied[i])
      /\ \A j \in Ids \ {i} : deduped'[j] = deduped[j] /\ applied'[j] = applied[j]
  <2>1. deduped \in [Ids -> Nat] /\ applied \in [Ids -> Nat] BY <1>1, Zenon DEF LedgerTypeOK
  <2>2. Effective(i) => applied[i] = 0 BY <1>4, <1>8, Zenon
  <2>3. now + DedupeFor \in Nat BY <1>5, <1>6
  <2>4. deduped' = IF IsNew(i) THEN [deduped EXCEPT ![i] = now + DedupeFor] ELSE deduped BY <1>2, Zenon
  <2>5. applied' = IF Effective(i) THEN [applied EXCEPT ![i] = 1] ELSE applied
    <3>1. Effective(i) => applied[i] + 1 = 1 BY <2>2
    <3>2. applied' = IF Effective(i) THEN [applied EXCEPT ![i] = applied[i] + 1] ELSE applied BY <1>2, Zenon
    <3>3. CASE Effective(i)
      <4>1. applied[i] + 1 = 1 BY <3>1, <3>3, Zenon
      <4>2. applied' = [applied EXCEPT ![i] = applied[i] + 1] BY <3>2, <3>3, Zenon
      <4> QED BY <3>3, <4>1, <4>2, Zenon
    <3> QED BY <3>2, <3>3, Zenon
  <2>6. /\ deduped' \in [Ids -> Nat] /\ deduped'[i] = (IF IsNew(i) THEN now + DedupeFor ELSE deduped[i])
        /\ \A j \in Ids \ {i} : deduped'[j] = deduped[j]
    BY <2>1, <2>3, <2>4, Zenon
  <2>7. /\ applied' \in [Ids -> Nat] /\ applied'[i] = (IF Effective(i) THEN 1 ELSE applied[i])
        /\ \A j \in Ids \ {i} : applied'[j] = applied[j]
    BY <2>1, <2>5, Zenon
  <2> QED BY <2>6, <2>7, Zenon
<1>10. /\ used' \in [Entries -> Nat]
       /\ \A x \in Entries : used'[x] >= used[x] - (IF ForKey(i) /\ x = <<k, wid>> THEN Given(i) ELSE 0)
  <2>1. <<k, wid>> \in Entries BY <1>4, <1>5, Zenon DEF Entries
  <2>2. used \in [Entries -> Nat] BY <1>1, Zenon DEF LedgerTypeOK
  <2> DEFINE c == Credit(used[<<k, wid>>], r.tokens)
  <2>3. c \in Nat /\ c >= used[<<k, wid>>] - Given(i) BY <1>4, <2>1, <2>2, CreditFacts, Zenon DEF Given
  <2> HIDE DEF c, k
  <2>4. used' = IF ForKey(i) THEN [used EXCEPT ![<<k, wid>>] = c] ELSE used BY <1>2, Zenon DEF c
  <2> QED BY <2>1, <2>2, <2>3, <2>4
<1>11. /\ pused' \in [Windows -> Nat]
       /\ \A w \in Windows : pused'[w] >= pused[w] - (IF ForOrg(i) /\ w = pwid THEN Given(i) ELSE 0)
  <2>1. pused \in [Windows -> Nat] BY <1>1, Zenon DEF LedgerTypeOK
  <2> DEFINE c == Credit(pused[pwid], r.tokens)
  <2>2. c \in Nat /\ c >= pused[pwid] - Given(i) BY <1>4, <1>5, <2>1, CreditFacts, Zenon DEF Given
  <2> HIDE DEF c
  <2>3. pused' = IF ForOrg(i) THEN [pused EXCEPT ![pwid] = c] ELSE pused BY <1>2, Zenon DEF c
  <2> QED BY <1>5, <2>1, <2>2, <2>3
<1>12. /\ tat' \in [Keys -> Nat]
       /\ ~(IsNew(i) /\ Bucket) => tat' = tat
       /\ \A l \in Keys \ {k} : tat'[l] = tat[l]
       /\ IsNew(i) /\ Bucket => tat'[k] >= Tat(k) - Given(i) * spec.T
  <2>1. tat \in [Keys -> Nat] BY <1>1, Zenon DEF LedgerTypeOK
  <2>2. Tat(k) \in Nat BY <1>4, <1>5, <2>1, Zenon DEF Tat, MaxOf
  <2> DEFINE c == MaxOf(Tat(k) - r.tokens * spec.T, now)
  <2>3. Bucket
          => r.tokens * spec.T \in Int /\ Given(i) * spec.T \in Int
            /\ r.tokens * spec.T <= Given(i) * spec.T
    <3> SUFFICES ASSUME Bucket
                 PROVE  r.tokens * spec.T \in Int /\ Given(i) * spec.T \in Int
                          /\ r.tokens * spec.T <= Given(i) * spec.T
      BY Zenon
    <3>1. r.tokens <= Given(i) /\ r.tokens \in Int /\ Given(i) \in Int BY <1>4 DEF Given, MaxOf
    <3>2. spec.T \in Nat BY <1>5, Zenon
    <3> HIDE DEF r
    <3> QED BY <3>1, <3>2
  <2>4. Bucket => c \in Nat /\ c >= Tat(k) - Given(i) * spec.T BY <1>5, <2>2, <2>3 DEF MaxOf
  <2> HIDE DEF c, k
  <2>5. tat' = IF IsNew(i) /\ Bucket THEN [tat EXCEPT ![k] = c] ELSE tat BY <1>2, Zenon DEF c, k
  <2> QED BY <1>4, <2>1, <2>4, <2>5, Zenon
<1>13. LedgerTypeOK' BY <1>1, <1>2, <1>9, <1>10, <1>11, <1>12, Zenon DEF LedgerTypeOK
<1> QED BY <1>2, <1>3, <1>9, <1>10, <1>11, <1>12, <1>13, Zenon DEF Executed

\* Executing it takes what it brings out of what is owed.
LEMMA ExecuteRepays ==
  ASSUME LedgerInv, NEW i \in Ids, Executable(i), Executed(i)
  PROVE  Repaid(i)
<1> DEFINE k == KeyOf[i[1]]
           r == sent[i]
<1>1. LedgerTypeOK BY Zenon DEF LedgerInv
<1>2. now <= sent[i].until /\ UNCHANGED <<spec, org, now, call, held, sent, seq, had, phad>>
  BY Zenon DEF Executed
<1>4. /\ k \in Keys /\ r \in SentRec /\ r.win \in Windows /\ r.pwin \in Windows
      /\ r.tokens \in Int /\ r.until \in Int /\ r.win \in Nat /\ r.pwin \in Nat /\ Given(i) \in Nat
      /\ r.win <= wid /\ r.pwin <= pwid /\ r.until <= now + MaxOf(RetryFor, TokenLife)
      /\ deduped[i] \in Nat /\ applied[i] \in {0, 1}
  BY Zenon DEF Executable
<1>8. applied[i] = 1 => ~Effective(i) BY Zenon DEF Executable
<1>9. /\ deduped' \in [Ids -> Nat] /\ deduped'[i] = (IF IsNew(i) THEN now + DedupeFor ELSE deduped[i])
      /\ applied' \in [Ids -> Nat] /\ applied'[i] = (IF Effective(i) THEN 1 ELSE applied[i])
      /\ \A j \in Ids \ {i} : deduped'[j] = deduped[j] /\ applied'[j] = applied[j]
  BY Zenon DEF Executed
<1>16. Due(sent, applied, i) \in Nat /\ (applied[i] = 0 => Due(sent, applied, i) = Given(i))
       /\ Due(sent', applied', i) = (IF Effective(i) THEN 0 ELSE Due(sent, applied, i))
  <2>1. Due(sent, applied, i) \in Nat /\ (applied[i] = 0 => Due(sent, applied, i) = Given(i))
    BY <1>4 DEF Due, Given, MaxOf
  <2>2. sent' = sent BY <1>2, Zenon
  <2> QED BY <1>9, <2>1, <2>2 DEF Due
<1>17. /\ \A l, w : KeySum(sent', applied', l, w) = KeySum(sent, applied, l, w)
                       - (IF Effective(i) /\ k = l /\ r.win = w THEN Given(i) ELSE 0)
       /\ \A w : OrgSum(sent', applied', w) = OrgSum(sent, applied, w)
                    - (IF Effective(i) /\ r.pwin = w THEN Given(i) ELSE 0)
  <2>1. sent \in Returns /\ sent' \in Returns /\ sent' = sent BY <1>1, <1>2, Zenon DEF LedgerTypeOK, Returns
  <2>2. \A j \in Ids \ {i} : sent'[j] = sent[j] /\ applied'[j] = applied[j] BY <1>9, <2>1, Zenon
  <2>3. /\ \A l, w : KeySum(sent', applied', l, w) = KeySum(sent, applied, l, w)
                       + (KeyPart(sent', applied', l, w, i) - KeyPart(sent, applied, l, w, i))
        /\ \A w : OrgSum(sent', applied', w) = OrgSum(sent, applied, w)
                    + (OrgPart(sent', applied', w, i) - OrgPart(sent, applied, w, i))
    BY <2>1, <2>2, SumsMove, Zenon
  <2>4. Effective(i) => Due(sent, applied, i) = Given(i) BY <1>4, <1>8, <1>16, Zenon
  <2>5. \A l, w : KeyPart(sent', applied', l, w, i) - KeyPart(sent, applied, l, w, i)
                  = 0 - (IF Effective(i) /\ k = l /\ r.win = w THEN Given(i) ELSE 0)
    BY <1>4, <1>16, <2>1, <2>4 DEF KeyPart
  <2>6. \A w : OrgPart(sent', applied', w, i) - OrgPart(sent, applied, w, i)
               = 0 - (IF Effective(i) /\ r.pwin = w THEN Given(i) ELSE 0)
    BY <1>4, <1>16, <2>1, <2>4 DEF OrgPart
  <2>7. /\ \A l, w : KeySum(sent, applied, l, w) \in Nat
        /\ \A w : OrgSum(sent, applied, w) \in Nat
    BY <1>1, DueNat, Zenon DEF LedgerTypeOK
  <2>8. Given(i) \in Nat BY <1>4, Zenon
  <2> HIDE DEF k, r
  <2>9. \A l, w : KeySum(sent', applied', l, w) = KeySum(sent, applied, l, w)
                     - (IF Effective(i) /\ k = l /\ r.win = w THEN Given(i) ELSE 0)
    <3> SUFFICES ASSUME NEW l, NEW w
                 PROVE  KeySum(sent', applied', l, w) = KeySum(sent, applied, l, w)
                           - (IF Effective(i) /\ k = l /\ r.win = w THEN Given(i) ELSE 0)
      BY Zenon
    <3>1. KeySum(sent', applied', l, w) = KeySum(sent, applied, l, w)
            + (0 - (IF Effective(i) /\ k = l /\ r.win = w THEN Given(i) ELSE 0))
      BY <2>3, <2>5
    <3>2. KeySum(sent, applied, l, w) \in Nat BY <2>7, Zenon
    <3> QED BY <2>8, <3>1, <3>2
  <2>10. \A w : OrgSum(sent', applied', w) = OrgSum(sent, applied, w)
                  - (IF Effective(i) /\ r.pwin = w THEN Given(i) ELSE 0)
    <3> SUFFICES ASSUME NEW w
                 PROVE  OrgSum(sent', applied', w) = OrgSum(sent, applied, w)
                          - (IF Effective(i) /\ r.pwin = w THEN Given(i) ELSE 0)
      BY Zenon
    <3>1. OrgSum(sent', applied', w) = OrgSum(sent, applied, w)
            + (0 - (IF Effective(i) /\ r.pwin = w THEN Given(i) ELSE 0))
      BY <2>3, <2>6, Zenon
    <3>2. OrgSum(sent, applied, w) \in Nat BY <2>7, Zenon
    <3> QED BY <2>8, <3>1, <3>2
  <2> QED BY <2>9, <2>10, Zenon
<1>18. /\ \A l, w : KeySum(sent, applied, l, w) \in Nat
       /\ \A w : OrgSum(sent, applied, w) \in Nat
  BY <1>1, DueNat, Zenon DEF LedgerTypeOK
<1> QED BY <1>17, <1>18, Zenon DEF Repaid

\* What it names is not ahead.
LEMMA ExecuteNotAhead ==
  ASSUME LedgerInv, NEW i \in Ids, Executable(i), Executed(i)
  PROVE  NotAhead'
<1> DEFINE k == KeyOf[i[1]]
           r == sent[i]
<1>2. now <= sent[i].until /\ UNCHANGED <<spec, org, now, call, held, sent, seq, had, phad>>
  BY Zenon DEF Executed
<1>5. /\ now \in Nat /\ wid \in Windows /\ pwid \in Windows /\ wid \in Nat /\ pwid \in Nat
      /\ spec.limit \in Nat /\ spec.limit > 0
      /\ Bucket => wid = 0 /\ spec.T \in Nat /\ spec.T > 0
      /\ ~Bucket => /\ spec.win \in Nat /\ spec.win > 0 /\ wid = WindowOf(now, spec.win)
      /\ org # NoOrg => /\ org.win \in Nat /\ org.win > 0 /\ pwid = WindowOf(now, org.win)
  BY Zenon DEF Executable
<1>3. wid' = wid /\ pwid' = pwid /\ (Bucket <=> Bucket') BY Zenon DEF Executed
<1>9. /\ deduped' \in [Ids -> Nat] /\ deduped'[i] = (IF IsNew(i) THEN now + DedupeFor ELSE deduped[i])
      /\ applied' \in [Ids -> Nat] /\ applied'[i] = (IF Effective(i) THEN 1 ELSE applied[i])
      /\ \A j \in Ids \ {i} : deduped'[j] = deduped[j] /\ applied'[j] = applied[j]
  BY Zenon DEF Executed
<1>14. NotAhead'
  <2>1. ASSUME NEW j \in Ids, j[2] > seq[j[1]] PROVE sent[j] = NoReturn /\ applied'[j] = 0
    <3>1. sent[j] = NoReturn /\ applied[j] = 0 BY <2>1, Zenon DEF LedgerInv, NotAhead
    <3>2. j # i BY <1>2, <1>5, <3>1 DEF NoReturn
    <3> QED BY <1>9, <3>1, <3>2, Zenon
  <2> QED BY <1>2, <1>3, <2>1, Zenon DEF LedgerInv, NotAhead
<1> QED BY <1>14, Zenon

\* No return is applied a second time.
LEMMA ExecuteOnce ==
  ASSUME LedgerInv, NEW i \in Ids, Executable(i), Executed(i)
  PROVE  NoSecondTime'
<1> DEFINE k == KeyOf[i[1]]
           r == sent[i]
<1>2. now <= sent[i].until /\ UNCHANGED <<spec, org, now, call, held, sent, seq, had, phad>>
  BY Zenon DEF Executed
<1>4. /\ k \in Keys /\ r \in SentRec /\ r.win \in Windows /\ r.pwin \in Windows
      /\ r.tokens \in Int /\ r.until \in Int /\ r.win \in Nat /\ r.pwin \in Nat /\ Given(i) \in Nat
      /\ r.win <= wid /\ r.pwin <= pwid /\ r.until <= now + MaxOf(RetryFor, TokenLife)
      /\ deduped[i] \in Nat /\ applied[i] \in {0, 1}
  BY Zenon DEF Executable
<1>5. /\ now \in Nat /\ wid \in Windows /\ pwid \in Windows /\ wid \in Nat /\ pwid \in Nat
      /\ spec.limit \in Nat /\ spec.limit > 0
      /\ Bucket => wid = 0 /\ spec.T \in Nat /\ spec.T > 0
      /\ ~Bucket => /\ spec.win \in Nat /\ spec.win > 0 /\ wid = WindowOf(now, spec.win)
      /\ org # NoOrg => /\ org.win \in Nat /\ org.win > 0 /\ pwid = WindowOf(now, org.win)
  BY Zenon DEF Executable
<1>6. /\ DedupeFor \in Nat
      /\ ~Bucket => DedupeFor >= spec.win
      /\ org # NoOrg => DedupeFor >= org.win
      /\ Bucket => DedupeFor > MaxOf(RetryFor, TokenLife)
  BY Zenon DEF Executable
<1>7. /\ ~Bucket => WindowEnd(r.win, spec.win) <= now + DedupeFor
      /\ org # NoOrg => WindowEnd(r.pwin, org.win) <= now + DedupeFor
  BY Zenon DEF Executable
<1>3. wid' = wid /\ pwid' = pwid /\ (Bucket <=> Bucket') BY Zenon DEF Executed
<1>9. /\ deduped' \in [Ids -> Nat] /\ deduped'[i] = (IF IsNew(i) THEN now + DedupeFor ELSE deduped[i])
      /\ applied' \in [Ids -> Nat] /\ applied'[i] = (IF Effective(i) THEN 1 ELSE applied[i])
      /\ \A j \in Ids \ {i} : deduped'[j] = deduped[j] /\ applied'[j] = applied[j]
  BY Zenon DEF Executed
<1>15. NoSecondTime'
  <2> SUFFICES ASSUME NEW j \in Ids
               PROVE  /\ applied'[j] \in {0, 1}
                      /\ applied'[j] = 1 =>
                           /\ ~Bucket => deduped'[j] >= WindowEnd(sent[j].win, spec.win)
                           /\ Bucket => deduped'[j] > sent[j].until
                           /\ org # NoOrg => deduped'[j] >= WindowEnd(sent[j].pwin, org.win)
    BY <1>2, <1>3, Zenon DEF NoSecondTime
  <2>1. /\ applied[j] \in {0, 1}
        /\ applied[j] = 1 => /\ ~Bucket => deduped[j] >= WindowEnd(sent[j].win, spec.win)
                             /\ Bucket => deduped[j] > sent[j].until
                             /\ org # NoOrg => deduped[j] >= WindowEnd(sent[j].pwin, org.win)
    BY Zenon DEF LedgerInv, NoSecondTime
  <2>2. CASE j # i BY <1>9, <2>1, <2>2, Zenon
  <2>3. CASE j = i /\ ~IsNew(i)
    <3>1. ~Effective(i) BY <2>3, Zenon DEF ForKey, ForOrg, Effective
    <3> QED BY <1>9, <2>1, <2>3, <3>1, Zenon
  <2>4. CASE j = i /\ IsNew(i)
    <3>1. deduped'[i] = now + DedupeFor /\ applied'[i] \in {0, 1} BY <1>4, <1>9, <2>4, Zenon
    <3>2. ~Bucket => deduped'[i] >= WindowEnd(r.win, spec.win)
      <4>1. ~Bucket => WindowEnd(r.win, spec.win) \in Int BY <1>4, <1>5 DEF WindowEnd
      <4> QED BY <1>5, <1>6, <1>7, <3>1, <4>1, Zenon
    <3>3. org # NoOrg => deduped'[i] >= WindowEnd(r.pwin, org.win)
      <4>1. org # NoOrg => WindowEnd(r.pwin, org.win) \in Int BY <1>4, <1>5 DEF WindowEnd
      <4> QED BY <1>5, <1>6, <1>7, <3>1, <4>1, Zenon
    <3>4. Bucket => deduped'[i] > r.until
      <4>1. MaxOf(RetryFor, TokenLife) \in Nat BY LedgerSettings, Zenon DEF MaxOf
      <4> QED BY <1>4, <1>5, <1>6, <3>1, <4>1
    <3> QED BY <2>4, <3>1, <3>2, <3>3, <3>4, Zenon
  <2> QED BY <2>2, <2>3, <2>4, Zenon
<1> QED BY <1>15, Zenon

\* The key's counter still covers what is out.
LEMMA ExecuteCovered ==
  ASSUME LedgerInv, NEW i \in Ids, Executable(i), Executed(i), Repaid(i)
  PROVE  Covered'
<1> DEFINE k == KeyOf[i[1]]
           r == sent[i]
<1>1. LedgerTypeOK BY Zenon DEF LedgerInv
<1>2. now <= sent[i].until /\ UNCHANGED <<spec, org, now, call, held, sent, seq, had, phad>>
  BY Zenon DEF Executed
<1>4. /\ k \in Keys /\ r \in SentRec /\ r.win \in Windows /\ r.pwin \in Windows
      /\ r.tokens \in Int /\ r.until \in Int /\ r.win \in Nat /\ r.pwin \in Nat /\ Given(i) \in Nat
      /\ r.win <= wid /\ r.pwin <= pwid /\ r.until <= now + MaxOf(RetryFor, TokenLife)
      /\ deduped[i] \in Nat /\ applied[i] \in {0, 1}
  BY Zenon DEF Executable
<1>5. /\ now \in Nat /\ wid \in Windows /\ pwid \in Windows /\ wid \in Nat /\ pwid \in Nat
      /\ spec.limit \in Nat /\ spec.limit > 0
      /\ Bucket => wid = 0 /\ spec.T \in Nat /\ spec.T > 0
      /\ ~Bucket => /\ spec.win \in Nat /\ spec.win > 0 /\ wid = WindowOf(now, spec.win)
      /\ org # NoOrg => /\ org.win \in Nat /\ org.win > 0 /\ pwid = WindowOf(now, org.win)
  BY Zenon DEF Executable
<1>3. wid' = wid /\ pwid' = pwid /\ (Bucket <=> Bucket') BY Zenon DEF Executed
<1>10. /\ used' \in [Entries -> Nat]
       /\ \A x \in Entries : used'[x] >= used[x] - (IF ForKey(i) /\ x = <<k, wid>> THEN Given(i) ELSE 0)
  BY Zenon DEF Executed
<1>12. /\ tat' \in [Keys -> Nat]
       /\ ~(IsNew(i) /\ Bucket) => tat' = tat
       /\ \A l \in Keys \ {k} : tat'[l] = tat[l]
       /\ IsNew(i) /\ Bucket => tat'[k] >= Tat(k) - Given(i) * spec.T
  BY Zenon DEF Executed
<1>17. /\ \A l, w : KeySum(sent', applied', l, w) = KeySum(sent, applied, l, w)
                       - (IF Effective(i) /\ k = l /\ r.win = w THEN Given(i) ELSE 0)
       /\ \A w : OrgSum(sent', applied', w) = OrgSum(sent, applied, w)
                    - (IF Effective(i) /\ r.pwin = w THEN Given(i) ELSE 0)
  BY Zenon DEF Repaid
<1>18. /\ \A l, w : KeySum(sent, applied, l, w) \in Nat
       /\ \A w : OrgSum(sent, applied, w) \in Nat
  BY Zenon DEF Repaid
<1>19. Covered'
  <2> SUFFICES ASSUME NEW l \in Keys, NEW w \in Windows PROVE KeyCovered(l, w)' BY Zenon DEF Covered
  <2>1. KeyCovered(l, w) BY Zenon DEF LedgerInv, Covered
  <2> DEFINE o == IF Effective(i) /\ k = l /\ r.win = w THEN Given(i) ELSE 0
             a == had[<<l, w>>] + KeySum(sent, applied, l, w)
             b == had'[<<l, w>>] + KeySum(sent', applied', l, w)
  <2>2. <<l, w>> \in Entries /\ had[<<l, w>>] \in Int /\ had' = had
    BY <1>1, <1>2, Zenon DEF LedgerTypeOK, Entries
  <2>3. o \in Nat /\ a \in Int /\ b = a - o
    <3>1. o \in Nat BY <1>4, Zenon
    <3>2. KeySum(sent', applied', l, w) = KeySum(sent, applied, l, w) - o BY <1>17, Zenon
    <3>3. KeySum(sent, applied, l, w) \in Nat BY <1>18, Zenon
    <3> HIDE DEF o
    <3> QED BY <2>2, <3>1, <3>2, <3>3
  <2>4. CASE ~Bucket
    <3>1. a <= used[<<l, w>>] /\ used[<<l, w>>] \in Nat /\ used'[<<l, w>>] \in Nat
      BY <1>1, <1>10, <2>1, <2>2, <2>4, Zenon DEF KeyCovered, LedgerTypeOK
    <3>2. ForKey(i) /\ <<l, w>> = <<k, wid>> => o = Given(i) BY <2>4, Zenon DEF ForKey, Effective
    <3>3. used'[<<l, w>>] >= used[<<l, w>>] - o
      <4> DEFINE q == IF ForKey(i) /\ <<l, w>> = <<k, wid>> THEN Given(i) ELSE 0
      <4>1. used'[<<l, w>>] >= used[<<l, w>>] - q BY <1>10, <2>2, Zenon
      <4> HIDE DEF o
      <4>2. q \in Nat /\ q <= o BY <1>4, <2>3, <3>2
      <4>3. o \in Nat /\ used[<<l, w>>] \in Nat /\ used'[<<l, w>>] \in Nat BY <2>3, <3>1, Zenon
      <4> HIDE DEF q, a, b
      <4> QED BY <4>1, <4>2, <4>3
    <3> HIDE DEF a, b, o
    <3>4. b <= used'[<<l, w>>] BY <2>3, <3>1, <3>3
    <3> QED BY <1>3, <2>4, <3>4, Zenon DEF KeyCovered, b
  <2>5. CASE Bucket /\ w = 0
    <3>1. a * spec.T <= Tat(l) BY <2>1, <2>5, Zenon DEF KeyCovered
    <3>2. r.win = w
      <4>1. r.win \in Nat /\ r.win <= 0 BY <1>4, <1>5, <2>5, Zenon
      <4> HIDE DEF r
      <4> QED BY <2>5, <4>1
    <3>3. tat'[l] \in Nat /\ Tat(l) \in Nat /\ Tat(l)' \in Nat /\ Tat(l)' >= tat'[l]
      <4>1. tat[l] \in Nat /\ tat'[l] \in Nat BY <1>1, <1>12, Zenon DEF LedgerTypeOK
      <4>2. Tat(l) = MaxOf(tat[l], now) /\ Tat(l)' = MaxOf(tat'[l], now) BY <1>2, Zenon DEF Tat
      <4>3. now \in Nat BY <1>5, Zenon
      <4> HIDE DEF o, a, b
      <4> QED BY <4>1, <4>2, <4>3 DEF MaxOf
    <3>4. Tat(l)' >= Tat(l) - o * spec.T
      <4>1. CASE IsNew(i) /\ l = k
        <5>1. o = Given(i) BY <2>5, <3>2, <4>1, Zenon DEF Effective
        <5>2. tat'[l] >= Tat(l) - Given(i) * spec.T BY <1>12, <2>5, <4>1, Zenon
        <5>3. Given(i) * spec.T \in Int BY <1>4, <1>5, <2>5
        <5> HIDE DEF o
        <5> QED BY <3>3, <5>1, <5>2, <5>3
      <4>2. CASE ~(IsNew(i) /\ l = k)
        <5>1. o = 0 BY <2>5, <4>2, Zenon DEF ForKey, ForOrg, Effective
        <5>2. tat'[l] = tat[l] BY <1>12, <4>2, Zenon
        <5>3. Tat(l)' = Tat(l) BY <1>2, <5>2, Zenon DEF Tat
        <5>4. 0 * spec.T = 0 BY <1>5, <2>5
        <5> QED BY <3>3, <5>1, <5>3, <5>4
      <4> QED BY <4>1, <4>2, Zenon
    <3>5. spec.T \in Nat BY <1>5, <2>5, Zenon
    <3> HIDE DEF a, b, o
    <3>6. b * spec.T = a * spec.T - o * spec.T BY <2>3, <3>5
    <3>7. a * spec.T \in Int /\ o * spec.T \in Int BY <2>3, <3>5
    <3>8. b * spec.T <= Tat(l)' BY <3>1, <3>3, <3>4, <3>6, <3>7
    <3> QED BY <1>2, <1>3, <2>5, <3>8, Zenon DEF KeyCovered, b
  <2> QED BY <1>3, <2>4, <2>5, Zenon DEF KeyCovered
<1> QED BY <1>19, Zenon

\* The organisation's counter still covers what is out.
LEMMA ExecuteOrgCovered ==
  ASSUME LedgerInv, NEW i \in Ids, Executable(i), Executed(i), Repaid(i)
  PROVE  OrgCovered'
<1> DEFINE k == KeyOf[i[1]]
           r == sent[i]
<1>1. LedgerTypeOK BY Zenon DEF LedgerInv
<1>2. now <= sent[i].until /\ UNCHANGED <<spec, org, now, call, held, sent, seq, had, phad>>
  BY Zenon DEF Executed
<1>4. /\ k \in Keys /\ r \in SentRec /\ r.win \in Windows /\ r.pwin \in Windows
      /\ r.tokens \in Int /\ r.until \in Int /\ r.win \in Nat /\ r.pwin \in Nat /\ Given(i) \in Nat
      /\ r.win <= wid /\ r.pwin <= pwid /\ r.until <= now + MaxOf(RetryFor, TokenLife)
      /\ deduped[i] \in Nat /\ applied[i] \in {0, 1}
  BY Zenon DEF Executable
<1>3. wid' = wid /\ pwid' = pwid /\ (Bucket <=> Bucket') BY Zenon DEF Executed
<1>11. /\ pused' \in [Windows -> Nat]
       /\ \A w \in Windows : pused'[w] >= pused[w] - (IF ForOrg(i) /\ w = pwid THEN Given(i) ELSE 0)
  BY Zenon DEF Executed
<1>17. /\ \A l, w : KeySum(sent', applied', l, w) = KeySum(sent, applied, l, w)
                       - (IF Effective(i) /\ k = l /\ r.win = w THEN Given(i) ELSE 0)
       /\ \A w : OrgSum(sent', applied', w) = OrgSum(sent, applied, w)
                    - (IF Effective(i) /\ r.pwin = w THEN Given(i) ELSE 0)
  BY Zenon DEF Repaid
<1>18. /\ \A l, w : KeySum(sent, applied, l, w) \in Nat
       /\ \A w : OrgSum(sent, applied, w) \in Nat
  BY Zenon DEF Repaid
<1>20. OrgCovered'
  <2> SUFFICES ASSUME org # NoOrg, NEW w \in Windows, w >= pwid
               PROVE  phad[w] + OrgSum(sent', applied', w) <= pused'[w]
    BY <1>2, <1>3, Zenon DEF OrgCovered
  <2> DEFINE o == IF Effective(i) /\ r.pwin = w THEN Given(i) ELSE 0
  <2>1. phad[w] + OrgSum(sent, applied, w) <= pused[w] BY Zenon DEF LedgerInv, OrgCovered
  <2>2. phad[w] \in Int /\ pused[w] \in Nat /\ pused'[w] \in Nat BY <1>1, <1>11, Zenon DEF LedgerTypeOK
  <2>3. ForOrg(i) /\ w = pwid => o = Given(i) BY Zenon DEF ForOrg, Effective
  <2>4. pused'[w] >= pused[w] - (IF ForOrg(i) /\ w = pwid THEN Given(i) ELSE 0) BY <1>11, Zenon
  <2>5. o \in Nat BY <1>4, Zenon
  <2>6. OrgSum(sent', applied', w) = OrgSum(sent, applied, w) - o BY <1>17, Zenon
  <2> HIDE DEF o
  <2> QED BY <1>4, <1>18, <2>1, <2>2, <2>3, <2>4, <2>5, <2>6
<1> QED BY <1>20, Zenon

\* A return that arrives: it finds its record, or its windows over, or takes
\* effect for the first time and leaves a record that outlasts its repeats.
LEMMA ExecuteStep ==
  ASSUME RecordsOutlast, LedgerInv, NEW i \in Ids, Execute(i)
  PROVE  LedgerInv'
<1>1. Executable(i) BY ExecuteBefore, Zenon
<1>2. Executed(i) /\ LedgerTypeOK' BY <1>1, ExecuteCounters, Zenon
<1>3. Repaid(i) BY <1>1, <1>2, ExecuteRepays, Zenon
<1>4. NotAhead' /\ NoSecondTime' BY <1>1, <1>2, ExecuteNotAhead, ExecuteOnce, Zenon
<1>5. Covered' /\ OrgCovered' BY <1>1, <1>2, <1>3, ExecuteCovered, ExecuteOrgCovered, Zenon
<1>6. UNCHANGED <<spec, org, now, had, phad>> /\ wid' = wid /\ (Bucket <=> Bucket')
  BY <1>2, Zenon DEF Executed
<1>7. LimitHolds' /\ OrgBudgetHolds' /\ Smooth' BY <1>6, BudgetsKept, Zenon
<1> QED BY <1>2, <1>4, <1>5, <1>7, Zenon DEF LedgerInv



\* What a bucket hands out fits its burst and what refilled.
LEMMA BucketFits ==
  ASSUME NEW h \in Int, NEW limit \in Nat, NEW t \in Nat, NEW T \in Nat \ {0},
         h * T <= t + limit * T
  PROVE  h <= limit + t \div T
<1> DEFINE q == t \div T
<1>1. q \in Nat /\ t < (q + 1) * T OBVIOUS
<1> HIDE DEF q
<1> SUFFICES ASSUME h >= limit + q + 1 PROVE FALSE BY <1>1 DEF q
<1>2. h * T >= (limit + q + 1) * T BY <1>1
<1>3. (limit + q + 1) * T = limit * T + (q + 1) * T BY <1>1
<1>4. h * T \in Int /\ limit * T \in Int /\ (q + 1) * T \in Int BY <1>1
<1> QED BY <1>1, <1>2, <1>3, <1>4

\* What a sliding window hands out leaves room for the part of the last
\* window that still overlaps.
LEMMA SlidingFits ==
  ASSUME NEW a \in Int, NEW b \in Nat, NEW u \in Nat, NEW p \in Nat, NEW g \in Nat, NEW limit \in Nat,
         NEW win \in Nat \ {0}, NEW c \in Nat,
         a <= u, b <= p, g <= limit - (u + CeilDiv(p * c, win))
  PROVE  (a + g) * win + b * c <= limit * win
<1>1. p * c \in Nat OBVIOUS
<1> DEFINE o == CeilDiv(p * c, win)
<1>2. o \in Nat /\ o * win >= p * c BY <1>1, CeilFacts, Zenon
<1>3. g <= limit - (u + o) BY Zenon
<1> HIDE DEF o
<1>4. (a + g) * win <= (limit - o) * win BY <1>2, <1>3
<1>5. (limit - o) * win = limit * win - o * win BY <1>2
<1>6. b * c <= p * c OBVIOUS
<1>7. /\ (a + g) * win \in Int /\ limit * win \in Int /\ o * win \in Int
      /\ b * c \in Int /\ p * c \in Int
  BY <1>2
<1> QED BY <1>2, <1>4, <1>5, <1>6, <1>7

\* What is left of a key's quota, and of its organisation's.
LEMMA AvailFacts ==
  ASSUME LedgerTypeOK, NEW k \in Keys
  PROVE  /\ KeyAvail(k) \in Int /\ Avail(k) \in Int /\ Avail(k) <= KeyAvail(k)
         /\ org # NoOrg => Avail(k) <= org.limit - pused[pwid]
         /\ ~Bucket => KeyAvail(k) <= spec.limit - used[<<k, wid>>]
         /\ Bucket => KeyAvail(k) * spec.T <= now + spec.limit * spec.T - Tat(k)
         /\ spec.algo = "sliding" /\ wid > 0 =>
              /\ WindowEnd(wid, spec.win) - now \in Nat
              /\ KeyAvail(k) = spec.limit - (used[<<k, wid>>]
                   + CeilDiv(used[<<k, wid - 1>>] * (WindowEnd(wid, spec.win) - now), spec.win))
<1>1. /\ now \in Nat /\ wid \in Windows /\ pwid \in Windows /\ wid \in Nat
      /\ spec.limit \in Nat
      /\ Bucket => spec.T \in Nat /\ spec.T > 0
      /\ ~Bucket => /\ spec.win \in Nat /\ spec.win > 0 /\ wid = WindowOf(now, spec.win)
      /\ org # NoOrg => org.limit \in Nat
  BY ClockFacts, Zenon
<1>2. used[<<k, wid>>] \in Nat /\ pused[pwid] \in Nat /\ tat[k] \in Nat
  BY <1>1, Zenon DEF LedgerTypeOK, Entries
<1>3. ASSUME Bucket
      PROVE  KeyAvail(k) \in Int /\ KeyAvail(k) * spec.T <= now + spec.limit * spec.T - Tat(k)
  <2> DEFINE m == now + spec.limit * spec.T - Tat(k)
  <2>1. spec.T \in Nat /\ spec.T > 0 BY <1>1, <1>3, Zenon
  <2>2. Tat(k) \in Nat BY <1>1, <1>2, Zenon DEF Tat, MaxOf
  <2>3. m \in Int BY <1>1, <2>1, <2>2
  <2> HIDE DEF m
  <2>4. m \div spec.T \in Int /\ (m \div spec.T) * spec.T <= m BY <2>1, <2>3
  <2>5. KeyAvail(k) = m \div spec.T BY <1>3, Zenon DEF KeyAvail, m
  <2> QED BY <2>4, <2>5, Zenon DEF m
<1>4. ASSUME spec.algo = "sliding", wid > 0
      PROVE  /\ WindowEnd(wid, spec.win) - now \in Nat
             /\ used[<<k, wid - 1>>] \in Nat
             /\ Overlap(used[<<k, wid - 1>>]) \in Nat
             /\ KeyAvail(k) = spec.limit - (used[<<k, wid>>]
                   + CeilDiv(used[<<k, wid - 1>>] * (WindowEnd(wid, spec.win) - now), spec.win))
  <2>1. ~Bucket BY <1>4, Zenon DEF Bucket
  <2>2. spec.win \in Nat \ {0} /\ now \in Nat /\ wid = WindowOf(now, spec.win) BY <1>1, <2>1
  <2>3. now < WindowEnd(wid, spec.win)
    <3>1. now < WindowEnd(WindowOf(now, spec.win), spec.win) BY <2>2, WindowFacts, Zenon
    <3> QED BY <2>2, <3>1, Zenon
  <2>4. WindowEnd(wid, spec.win) \in Int BY <1>1, <2>2 DEF WindowEnd
  <2> DEFINE c == WindowEnd(wid, spec.win) - now
  <2>5. c \in Nat BY <2>2, <2>3, <2>4
  <2>6. wid - 1 \in Windows BY <1>1, <1>4, LedgerSettings DEF Windows
  <2>7. used[<<k, wid - 1>>] \in Nat BY <2>6, Zenon DEF LedgerTypeOK, Entries
  <2> DEFINE p == used[<<k, wid - 1>>]
  <2> HIDE DEF c, p
  <2>8. p * c \in Nat BY <2>5, <2>7 DEF p
  <2>9. CeilDiv(p * c, spec.win) \in Nat BY <2>2, <2>8, CeilFacts, Zenon
  <2>10. Overlap(p) = CeilDiv(p * c, spec.win) BY Zenon DEF Overlap, c
  <2>11. KeyAvail(k) = spec.limit - (used[<<k, wid>>] + Overlap(p))
    BY <1>4, <2>1, Zenon DEF KeyAvail, Weighted, p
  <2> QED BY <2>5, <2>7, <2>9, <2>10, <2>11, Zenon DEF c, p
<1>5. ASSUME ~Bucket PROVE KeyAvail(k) \in Int /\ KeyAvail(k) <= spec.limit - used[<<k, wid>>]
  <2>1. Weighted(k) \in Nat /\ Weighted(k) >= used[<<k, wid>>]
    <3>1. CASE spec.algo = "sliding" /\ wid > 0
      <4>1. Weighted(k) = used[<<k, wid>>] + Overlap(used[<<k, wid - 1>>]) BY <3>1, Zenon DEF Weighted
      <4> QED BY <1>2, <1>4, <3>1, <4>1
    <3>2. CASE ~(spec.algo = "sliding" /\ wid > 0) BY <1>2, <3>2 DEF Weighted
    <3> QED BY <3>1, <3>2, Zenon
  <2> QED BY <1>1, <1>2, <1>5, <2>1 DEF KeyAvail
<1>6. KeyAvail(k) \in Int BY <1>3, <1>5, Zenon
<1>7. /\ Avail(k) \in Int /\ Avail(k) <= KeyAvail(k)
      /\ org # NoOrg => Avail(k) <= org.limit - pused[pwid]
  BY <1>1, <1>2, <1>6 DEF Avail, MinOf
<1> QED BY <1>3, <1>4, <1>5, <1>6, <1>7, Zenon


\* What a lease of g tokens does.
Granted(e, k, g) ==
  /\ wid' = wid /\ pwid' = pwid /\ (Bucket <=> Bucket')
  /\ /\ now \in Nat /\ wid \in Windows /\ pwid \in Windows /\ wid \in Nat /\ pwid \in Nat
     /\ spec.limit \in Nat
     /\ Bucket => wid = 0 /\ spec.T \in Nat /\ spec.T > 0
     /\ ~Bucket => /\ spec.win \in Nat /\ spec.win > 0 /\ wid = WindowOf(now, spec.win)
     /\ org # NoOrg => org.win \in Nat /\ org.win > 0 /\ org.limit \in Nat
  /\ k \in Keys /\ <<k, wid>> \in Entries
  /\ /\ KeyAvail(k) \in Int
     /\ ~Bucket => KeyAvail(k) <= spec.limit - used[<<k, wid>>]
     /\ Bucket => KeyAvail(k) * spec.T <= now + spec.limit * spec.T - Tat(k)
     /\ spec.algo = "sliding" /\ wid > 0 =>
          /\ WindowEnd(wid, spec.win) - now \in Nat
          /\ KeyAvail(k) = spec.limit - (used[<<k, wid>>]
               + CeilDiv(used[<<k, wid - 1>>] * (WindowEnd(wid, spec.win) - now), spec.win))
  /\ g \in Nat /\ (g > 0 => /\ g <= KeyAvail(k)
                            /\ org # NoOrg => g <= org.limit - pused[pwid])
  /\ /\ had' \in [Entries -> Int]
     /\ \A x \in Entries : /\ had'[x] = IF x = <<k, wid>> THEN had[x] + g ELSE had[x]
                           /\ had[x] \in Int
  /\ /\ phad' \in [Windows -> Int]
     /\ \A w \in Windows : /\ phad'[w] = IF org # NoOrg /\ w = pwid THEN phad[w] + g ELSE phad[w]
                           /\ phad[w] \in Int
  /\ /\ pused' \in [Windows -> Nat]
     /\ \A w \in Windows : /\ pused'[w] = IF org # NoOrg /\ w = pwid THEN pused[w] + g ELSE pused[w]
                           /\ pused[w] \in Nat
  /\ /\ used' \in [Entries -> Nat]
     /\ \A x \in Entries : used[x] \in Nat
     /\ ~Bucket => \A x \in Entries : used'[x] = IF x = <<k, wid>> THEN used[x] + g ELSE used[x]
  /\ /\ tat' \in [Keys -> Nat]
     /\ Tat(k) \in Nat /\ (Bucket => g * spec.T \in Nat)
     /\ \A l \in Keys \ {k} : tat'[l] = tat[l]
     /\ Bucket /\ g > 0 => tat'[k] = Tat(k) + g * spec.T
     /\ g = 0 => tat' = tat
  /\ /\ call' \in [Edges -> CallRec]
     /\ \A f \in Edges \ {e} : call'[f] = call[f]
     /\ call'[e].granted = g /\ call'[e].win = wid /\ call'[e].pwin = pwid
  /\ /\ \A l, w : KeySum(sent, applied, l, w) \in Nat
     /\ \A w : OrgSum(sent, applied, w) \in Nat
  /\ used[<<k, wid>>] \in Nat /\ had[<<k, wid>>] \in Int /\ (~Bucket => had[<<k, wid>>] <= used[<<k, wid>>])
  /\ UNCHANGED <<spec, org, now, deduped, held, sent, seq, applied>>

\* What Grant changes: the key's window or its bucket and the organisation's window, by what it grants.
LEMMA GrantFacts ==
  ASSUME LedgerInv, NEW e \in Edges, NEW target \in Targets, NEW n \in 1 .. Cardinality(Edges),
         Grant(e, target, n)
  PROVE  LedgerTypeOK' /\ NoSecondTime' /\ \E k, g : Granted(e, k, g)
<1> DEFINE k == KeyOf[e]
           g == IF Avail(k) <= 0 THEN 0 ELSE GrantSize(Avail(k), n, Capped(target, spec.limit))
<1>1. LedgerTypeOK BY Zenon DEF LedgerInv
<1>2. /\ call' = [call EXCEPT ![e] = [granted |-> g, win |-> wid, pwin |-> pwid, exp |-> now + ExpiresIn]]
      /\ Bucket => /\ tat' = IF g = 0 THEN tat ELSE [tat EXCEPT ![k] = Tat(k) + g * spec.T]
                   /\ used' = used
      /\ ~Bucket => /\ used' = [used EXCEPT ![<<k, wid>>] = used[<<k, wid>>] + g]
                    /\ tat' = tat
      /\ pused' = IF org = NoOrg THEN pused ELSE [pused EXCEPT ![pwid] = pused[pwid] + g]
      /\ had' = [had EXCEPT ![<<k, wid>>] = had[<<k, wid>>] + g]
      /\ phad' = IF org = NoOrg THEN phad ELSE [phad EXCEPT ![pwid] = phad[pwid] + g]
      /\ UNCHANGED <<spec, org, now, deduped, held, sent, seq, applied>>
  BY Zenon DEF Grant
<1>3. wid' = wid /\ pwid' = pwid /\ (Bucket <=> Bucket') BY <1>2, ClockKept, Zenon
<1>4. /\ now \in Nat /\ wid \in Windows /\ pwid \in Windows /\ wid \in Nat /\ pwid \in Nat
      /\ spec.limit \in Nat
      /\ Bucket => wid = 0 /\ spec.T \in Nat /\ spec.T > 0
      /\ ~Bucket => /\ spec.win \in Nat /\ spec.win > 0 /\ wid = WindowOf(now, spec.win)
      /\ org # NoOrg => org.win \in Nat /\ org.win > 0 /\ org.limit \in Nat
  BY <1>1, ClockFacts, Zenon
<1>5. k \in Keys /\ <<k, wid>> \in Entries BY <1>4, LedgerSettings, Zenon DEF Entries
<1>6. /\ KeyAvail(k) \in Int
      /\ ~Bucket => KeyAvail(k) <= spec.limit - used[<<k, wid>>]
      /\ Bucket => KeyAvail(k) * spec.T <= now + spec.limit * spec.T - Tat(k)
      /\ spec.algo = "sliding" /\ wid > 0 =>
           /\ WindowEnd(wid, spec.win) - now \in Nat
           /\ KeyAvail(k) = spec.limit - (used[<<k, wid>>]
                + CeilDiv(used[<<k, wid - 1>>] * (WindowEnd(wid, spec.win) - now), spec.win))
  BY <1>1, <1>5, AvailFacts, Zenon
<1>7. g \in Nat /\ (g > 0 => /\ g <= KeyAvail(k)
                             /\ org # NoOrg => g <= org.limit - pused[pwid])
  <2>1. /\ Avail(k) \in Int /\ Avail(k) <= KeyAvail(k)
        /\ org # NoOrg => Avail(k) <= org.limit - pused[pwid]
    BY <1>1, <1>5, AvailFacts, Zenon
  <2>2. n \in Nat \ {0} /\ target \in Nat \ {0} BY LedgerSettings
  <2>3. pused[pwid] \in Nat BY <1>1, <1>4, Zenon DEF LedgerTypeOK
  <2>4. CASE Avail(k) <= 0 BY <2>4
  <2>5. CASE Avail(k) > 0
    <3>1. g = GrantSize(Avail(k), n, Capped(target, spec.limit)) BY <2>1, <2>5
    <3> HIDE DEF g
    <3>2. g \in Nat /\ g <= Avail(k) BY <1>4, <2>1, <2>2, <2>5, <3>1, GrantFits, Zenon
    <3>3. KeyAvail(k) \in Int /\ (org # NoOrg => org.limit \in Nat) BY <1>4, <1>6, Zenon
    <3> QED BY <2>1, <2>3, <3>2, <3>3
  <2> QED BY <2>1, <2>4, <2>5
<1> HIDE DEF g, k
<1>8. /\ had' \in [Entries -> Int]
      /\ \A x \in Entries : /\ had'[x] = IF x = <<k, wid>> THEN had[x] + g ELSE had[x]
                            /\ had[x] \in Int
  BY <1>1, <1>2, <1>5, <1>7 DEF LedgerTypeOK
<1>9. /\ phad' \in [Windows -> Int]
      /\ \A w \in Windows : /\ phad'[w] = IF org # NoOrg /\ w = pwid THEN phad[w] + g ELSE phad[w]
                            /\ phad[w] \in Int
  BY <1>1, <1>2, <1>4, <1>7 DEF LedgerTypeOK
<1>10. /\ pused' \in [Windows -> Nat]
       /\ \A w \in Windows : /\ pused'[w] = IF org # NoOrg /\ w = pwid THEN pused[w] + g ELSE pused[w]
                             /\ pused[w] \in Nat
  BY <1>1, <1>2, <1>4, <1>7 DEF LedgerTypeOK
<1>11. /\ used' \in [Entries -> Nat]
       /\ \A x \in Entries : used[x] \in Nat
       /\ ~Bucket => \A x \in Entries : used'[x] = IF x = <<k, wid>> THEN used[x] + g ELSE used[x]
  BY <1>1, <1>2, <1>5, <1>7 DEF LedgerTypeOK
<1>12. /\ tat' \in [Keys -> Nat]
       /\ Tat(k) \in Nat /\ (Bucket => g * spec.T \in Nat)
       /\ \A l \in Keys \ {k} : tat'[l] = tat[l]
       /\ Bucket /\ g > 0 => tat'[k] = Tat(k) + g * spec.T
       /\ g = 0 => tat' = tat
  <2>1. tat \in [Keys -> Nat] BY <1>1, Zenon DEF LedgerTypeOK
  <2>2. Tat(k) \in Nat BY <1>4, <1>5, <2>1, Zenon DEF Tat, MaxOf
  <2>3. Bucket => g * spec.T \in Nat BY <1>4, <1>7
  <2>4. Bucket => Tat(k) + g * spec.T \in Nat BY <2>2, <2>3
  <2> QED BY <1>2, <1>5, <1>7, <2>1, <2>2, <2>3, <2>4
<1>13. ExpiresIn \in Int
  <2>1. Lifetime \in Int
    <3>1. Bucket => spec.ttl \in Nat BY <1>1, LedgerSettings, Zenon DEF LedgerTypeOK, Bucket
    <3> QED BY <1>4, <3>1 DEF Lifetime, WindowEnd
  <2>2. org # NoOrg => WindowEnd(pwid, org.win) \in Int BY <1>4 DEF WindowEnd
  <2> QED BY <1>4, <2>1, <2>2 DEF ExpiresIn, MinOf
<1>14. /\ call' \in [Edges -> CallRec]
       /\ \A f \in Edges \ {e} : call'[f] = call[f]
       /\ call'[e].granted = g /\ call'[e].win = wid /\ call'[e].pwin = pwid
  <2>1. call \in [Edges -> CallRec] BY <1>1, Zenon DEF LedgerTypeOK
  <2>2. now + ExpiresIn \in Int BY <1>4, <1>13
  <2>3. [granted |-> g, win |-> wid, pwin |-> pwid, exp |-> now + ExpiresIn] \in CallRec
    BY <1>4, <1>7, <2>2 DEF CallRec
  <2> QED BY <1>2, <2>1, <2>3, Zenon
<1>15. LedgerTypeOK' BY <1>1, <1>2, <1>8, <1>9, <1>10, <1>11, <1>12, <1>14, Zenon DEF LedgerTypeOK
<1>17. NoSecondTime' BY <1>2, <1>3, Zenon DEF LedgerInv, NoSecondTime
<1>18. /\ \A l, w : KeySum(sent, applied, l, w) \in Nat
       /\ \A w : OrgSum(sent, applied, w) \in Nat
  BY <1>1, DueNat, Zenon DEF LedgerTypeOK
<1>21. used[<<k, wid>>] \in Nat /\ had[<<k, wid>>] \in Int
         /\ (~Bucket => had[<<k, wid>>] <= used[<<k, wid>>])
  <2>1. ~Bucket => had[<<k, wid>>] + KeySum(sent, applied, k, wid) <= used[<<k, wid>>]
    BY <1>4, <1>5, Zenon DEF LedgerInv, Covered, KeyCovered
  <2>2. KeySum(sent, applied, k, wid) \in Nat BY <1>18, Zenon
  <2> QED BY <1>5, <1>8, <1>11, <2>1, <2>2
<1>25. Granted(e, k, g)
  BY <1>2, <1>3, <1>4, <1>5, <1>6, <1>7, <1>8, <1>9, <1>10, <1>11, <1>12, <1>14, <1>18, <1>21, Zenon
     DEF Granted
<1> QED BY <1>15, <1>17, <1>25, Zenon

\* The windows it names are not ahead.
LEMMA GrantNotAhead ==
  ASSUME LedgerInv, NEW e \in Edges, NEW k, NEW g, Granted(e, k, g)
  PROVE  NotAhead'
<1>2. UNCHANGED <<spec, org, now, deduped, held, sent, seq, applied>> BY Zenon DEF Granted
<1>3. wid' = wid /\ pwid' = pwid /\ (Bucket <=> Bucket') BY Zenon DEF Granted
<1>4. /\ now \in Nat /\ wid \in Windows /\ pwid \in Windows /\ wid \in Nat /\ pwid \in Nat
      /\ spec.limit \in Nat
      /\ Bucket => wid = 0 /\ spec.T \in Nat /\ spec.T > 0
      /\ ~Bucket => /\ spec.win \in Nat /\ spec.win > 0 /\ wid = WindowOf(now, spec.win)
      /\ org # NoOrg => org.win \in Nat /\ org.win > 0 /\ org.limit \in Nat
  BY Zenon DEF Granted
<1>7. g \in Nat /\ (g > 0 => /\ g <= KeyAvail(k)
                             /\ org # NoOrg => g <= org.limit - pused[pwid])
  BY Zenon DEF Granted
<1>8. /\ had' \in [Entries -> Int]
      /\ \A x \in Entries : /\ had'[x] = IF x = <<k, wid>> THEN had[x] + g ELSE had[x]
                            /\ had[x] \in Int
  BY Zenon DEF Granted
<1>14. /\ call' \in [Edges -> CallRec]
       /\ \A f \in Edges \ {e} : call'[f] = call[f]
       /\ call'[e].granted = g /\ call'[e].win = wid /\ call'[e].pwin = pwid
  BY Zenon DEF Granted
<1>16. NotAhead'
  <2>1. \A f \in Edges : /\ call'[f] # NoCall => call'[f].granted \in Nat
                         /\ call'[f].win <= wid /\ call'[f].pwin <= pwid
                         /\ held[f].win <= wid /\ held[f].pwin <= pwid
    <3> SUFFICES ASSUME NEW f \in Edges
                 PROVE  /\ call'[f] # NoCall => call'[f].granted \in Nat
                        /\ call'[f].win <= wid /\ call'[f].pwin <= pwid
                        /\ held[f].win <= wid /\ held[f].pwin <= pwid
      BY Zenon
    <3>1. held[f].win <= wid /\ held[f].pwin <= pwid BY Zenon DEF LedgerInv, NotAhead
    <3>2. CASE f = e BY <1>4, <1>7, <1>14, <3>1, <3>2
    <3>3. CASE f # e BY <1>14, <3>1, <3>3, Zenon DEF LedgerInv, NotAhead
    <3> QED BY <3>2, <3>3, Zenon
  <2>2. \A x \in Entries : x[2] > wid => had'[x] <= 0 BY <1>4, <1>8 DEF LedgerInv, NotAhead
  <2> QED BY <1>2, <1>3, <2>1, <2>2, Zenon DEF LedgerInv, NotAhead
<1> QED BY <1>16, Zenon

\* The key's counter still covers what is out.
LEMMA GrantCovered ==
  ASSUME LedgerInv, NEW e \in Edges, NEW k, NEW g, Granted(e, k, g)
  PROVE  Covered'
<1>1. LedgerTypeOK BY Zenon DEF LedgerInv
<1>2. UNCHANGED <<spec, org, now, deduped, held, sent, seq, applied>> BY Zenon DEF Granted
<1>3. wid' = wid /\ pwid' = pwid /\ (Bucket <=> Bucket') BY Zenon DEF Granted
<1>4. /\ now \in Nat /\ wid \in Windows /\ pwid \in Windows /\ wid \in Nat /\ pwid \in Nat
      /\ spec.limit \in Nat
      /\ Bucket => wid = 0 /\ spec.T \in Nat /\ spec.T > 0
      /\ ~Bucket => /\ spec.win \in Nat /\ spec.win > 0 /\ wid = WindowOf(now, spec.win)
      /\ org # NoOrg => org.win \in Nat /\ org.win > 0 /\ org.limit \in Nat
  BY Zenon DEF Granted
<1>7. g \in Nat /\ (g > 0 => /\ g <= KeyAvail(k)
                             /\ org # NoOrg => g <= org.limit - pused[pwid])
  BY Zenon DEF Granted
<1>8. /\ had' \in [Entries -> Int]
      /\ \A x \in Entries : /\ had'[x] = IF x = <<k, wid>> THEN had[x] + g ELSE had[x]
                            /\ had[x] \in Int
  BY Zenon DEF Granted
<1>11. /\ used' \in [Entries -> Nat]
       /\ \A x \in Entries : used[x] \in Nat
       /\ ~Bucket => \A x \in Entries : used'[x] = IF x = <<k, wid>> THEN used[x] + g ELSE used[x]
  BY Zenon DEF Granted
<1>12. /\ tat' \in [Keys -> Nat]
       /\ Tat(k) \in Nat /\ (Bucket => g * spec.T \in Nat)
       /\ \A l \in Keys \ {k} : tat'[l] = tat[l]
       /\ Bucket /\ g > 0 => tat'[k] = Tat(k) + g * spec.T
       /\ g = 0 => tat' = tat
  BY Zenon DEF Granted
<1>18. /\ \A l, w : KeySum(sent, applied, l, w) \in Nat
       /\ \A w : OrgSum(sent, applied, w) \in Nat
  BY Zenon DEF Granted
<1>19. Covered'
  <2> SUFFICES ASSUME NEW l \in Keys, NEW w \in Windows PROVE KeyCovered(l, w)' BY Zenon DEF Covered
  <2>1. KeyCovered(l, w) /\ <<l, w>> \in Entries BY Zenon DEF LedgerInv, Covered, Entries
  <2> DEFINE s == KeySum(sent, applied, l, w)
             a == had[<<l, w>>]
             b == had'[<<l, w>>]
             o == IF l = k /\ w = wid THEN g ELSE 0
  <2>2. s \in Nat /\ a \in Int /\ o \in Nat BY <1>7, <1>8, <1>18, <2>1, Zenon
  <2>3. b = a + o BY <1>8, <2>1, <2>2
  <2>4. CASE ~Bucket
    <3>1. a + s <= used[<<l, w>>] /\ used[<<l, w>>] \in Nat BY <1>11, <2>1, <2>4, Zenon DEF KeyCovered
    <3>2. used'[<<l, w>>] = used[<<l, w>>] + o BY <1>11, <2>1, <2>4, <3>1
    <3> HIDE DEF s, a, b, o
    <3>3. b + s <= used'[<<l, w>>] BY <2>2, <2>3, <3>1, <3>2
    <3> QED BY <1>2, <1>3, <2>4, <3>3, Zenon DEF KeyCovered, s, b
  <2>5. CASE Bucket /\ w = 0
    <3>1. (a + s) * spec.T <= Tat(l) BY <2>1, <2>5, Zenon DEF KeyCovered
    <3>2. spec.T \in Nat /\ wid = w BY <1>4, <2>5, Zenon
    <3>3. Tat(l) \in Nat /\ Tat(l)' \in Nat /\ Tat(l)' >= Tat(l) + o * spec.T
      <4>1. tat[l] \in Nat /\ tat'[l] \in Nat BY <1>1, <1>12, Zenon DEF LedgerTypeOK
      <4>2. Tat(l) = MaxOf(tat[l], now) /\ Tat(l)' = MaxOf(tat'[l], now) BY <1>2, Zenon DEF Tat
      <4>3. Tat(l) \in Nat /\ Tat(l)' \in Nat /\ Tat(l)' >= tat'[l] BY <1>4, <4>1, <4>2 DEF MaxOf
      <4>4. CASE l = k /\ g > 0
        <5>1. o = g /\ tat'[l] = Tat(l) + g * spec.T BY <1>12, <2>5, <3>2, <4>4, Zenon
        <5> HIDE DEF o
        <5> QED BY <4>3, <5>1, Zenon
      <4>5. CASE ~(l = k /\ g > 0)
        <5>1. o = 0 BY <1>7, <4>5
        <5>2. tat'[l] = tat[l] BY <1>7, <1>12, <4>5
        <5>3. 0 * spec.T = 0 BY <3>2
        <5> HIDE DEF o
        <5> QED BY <4>2, <4>3, <5>1, <5>2, <5>3
      <4> QED BY <4>4, <4>5, Zenon
    <3> HIDE DEF a, b, o, s
    <3>4. (b + s) * spec.T = (a + s) * spec.T + o * spec.T BY <2>2, <2>3, <3>2
    <3>5. (a + s) * spec.T \in Int /\ o * spec.T \in Int BY <2>2, <3>2
    <3>6. (b + s) * spec.T <= Tat(l)' BY <3>1, <3>3, <3>4, <3>5
    <3> QED BY <1>2, <1>3, <2>5, <3>6, Zenon DEF KeyCovered, s, b
  <2> QED BY <1>3, <2>4, <2>5, Zenon DEF KeyCovered
<1> QED BY <1>19, Zenon

\* The organisation's counter still covers what is out.
LEMMA GrantOrgCovered ==
  ASSUME LedgerInv, NEW e \in Edges, NEW k, NEW g, Granted(e, k, g)
  PROVE  OrgCovered'
<1>2. UNCHANGED <<spec, org, now, deduped, held, sent, seq, applied>> BY Zenon DEF Granted
<1>3. wid' = wid /\ pwid' = pwid /\ (Bucket <=> Bucket') BY Zenon DEF Granted
<1>7. g \in Nat /\ (g > 0 => /\ g <= KeyAvail(k)
                             /\ org # NoOrg => g <= org.limit - pused[pwid])
  BY Zenon DEF Granted
<1>9. /\ phad' \in [Windows -> Int]
      /\ \A w \in Windows : /\ phad'[w] = IF org # NoOrg /\ w = pwid THEN phad[w] + g ELSE phad[w]
                            /\ phad[w] \in Int
  BY Zenon DEF Granted
<1>10. /\ pused' \in [Windows -> Nat]
       /\ \A w \in Windows : /\ pused'[w] = IF org # NoOrg /\ w = pwid THEN pused[w] + g ELSE pused[w]
                             /\ pused[w] \in Nat
  BY Zenon DEF Granted
<1>18. /\ \A l, w : KeySum(sent, applied, l, w) \in Nat
       /\ \A w : OrgSum(sent, applied, w) \in Nat
  BY Zenon DEF Granted
<1>20. OrgCovered'
  <2> SUFFICES ASSUME org # NoOrg, NEW w \in Windows, w >= pwid
               PROVE  phad'[w] + OrgSum(sent, applied, w) <= pused'[w]
    BY <1>2, <1>3, Zenon DEF OrgCovered
  <2>1. phad[w] + OrgSum(sent, applied, w) <= pused[w] BY Zenon DEF LedgerInv, OrgCovered
  <2> QED BY <1>7, <1>9, <1>10, <1>18, <2>1
<1> QED BY <1>20, Zenon

\* The key's quota is not passed.
LEMMA GrantLimit ==
  ASSUME LedgerInv, NEW e \in Edges, NEW k, NEW g, Granted(e, k, g)
  PROVE  LimitHolds'
<1>2. UNCHANGED <<spec, org, now, deduped, held, sent, seq, applied>> BY Zenon DEF Granted
<1>3. wid' = wid /\ pwid' = pwid /\ (Bucket <=> Bucket') BY Zenon DEF Granted
<1>4. /\ now \in Nat /\ wid \in Windows /\ pwid \in Windows /\ wid \in Nat /\ pwid \in Nat
      /\ spec.limit \in Nat
      /\ Bucket => wid = 0 /\ spec.T \in Nat /\ spec.T > 0
      /\ ~Bucket => /\ spec.win \in Nat /\ spec.win > 0 /\ wid = WindowOf(now, spec.win)
      /\ org # NoOrg => org.win \in Nat /\ org.win > 0 /\ org.limit \in Nat
  BY Zenon DEF Granted
<1>5. k \in Keys /\ <<k, wid>> \in Entries BY Zenon DEF Granted
<1>6. /\ KeyAvail(k) \in Int
      /\ ~Bucket => KeyAvail(k) <= spec.limit - used[<<k, wid>>]
      /\ Bucket => KeyAvail(k) * spec.T <= now + spec.limit * spec.T - Tat(k)
      /\ spec.algo = "sliding" /\ wid > 0 =>
           /\ WindowEnd(wid, spec.win) - now \in Nat
           /\ KeyAvail(k) = spec.limit - (used[<<k, wid>>]
                + CeilDiv(used[<<k, wid - 1>>] * (WindowEnd(wid, spec.win) - now), spec.win))
  BY Zenon DEF Granted
<1>7. g \in Nat /\ (g > 0 => /\ g <= KeyAvail(k)
                             /\ org # NoOrg => g <= org.limit - pused[pwid])
  BY Zenon DEF Granted
<1>8. /\ had' \in [Entries -> Int]
      /\ \A x \in Entries : /\ had'[x] = IF x = <<k, wid>> THEN had[x] + g ELSE had[x]
                            /\ had[x] \in Int
  BY Zenon DEF Granted
<1>12. /\ tat' \in [Keys -> Nat]
       /\ Tat(k) \in Nat /\ (Bucket => g * spec.T \in Nat)
       /\ \A l \in Keys \ {k} : tat'[l] = tat[l]
       /\ Bucket /\ g > 0 => tat'[k] = Tat(k) + g * spec.T
       /\ g = 0 => tat' = tat
  BY Zenon DEF Granted
<1>18. /\ \A l, w : KeySum(sent, applied, l, w) \in Nat
       /\ \A w : OrgSum(sent, applied, w) \in Nat
  BY Zenon DEF Granted
<1>21. used[<<k, wid>>] \in Nat /\ had[<<k, wid>>] \in Int
         /\ (~Bucket => had[<<k, wid>>] <= used[<<k, wid>>])
  BY Zenon DEF Granted
<1>22. LimitHolds'
  <2> SUFFICES ASSUME NEW x \in Entries
               PROVE  had'[x] <= spec.limit + (IF Bucket THEN now \div spec.T ELSE 0)
    BY <1>2, <1>3, Zenon DEF LimitHolds
  <2>1. had[x] <= spec.limit + (IF Bucket THEN now \div spec.T ELSE 0) BY Zenon DEF LedgerInv, LimitHolds
  <2>2. CASE x # <<k, wid>> \/ g = 0
    <3>1. had'[x] = had[x] BY <1>8, <2>2
    <3> QED BY <2>1, <3>1, Zenon
  <2>3. CASE x = <<k, wid>> /\ g > 0 /\ ~Bucket
    <3>1. had'[x] = had[<<k, wid>>] + g BY <1>8, <2>3, Zenon
    <3>2. had[<<k, wid>>] + g <= spec.limit BY <1>4, <1>6, <1>7, <1>21, <2>3
    <3> QED BY <1>4, <2>3, <3>1, <3>2
  <2>4. CASE x = <<k, wid>> /\ g > 0 /\ Bucket
    <3> DEFINE h == had[<<k, wid>>]
               s == KeySum(sent, applied, k, wid)
    <3>1. had'[x] = h + g BY <1>8, <2>4, Zenon
    <3>2. /\ h \in Int /\ s \in Nat /\ spec.T \in Nat /\ spec.T > 0 /\ Tat(k) \in Nat
          /\ g <= KeyAvail(k) /\ KeyAvail(k) \in Int
          /\ KeyAvail(k) * spec.T <= now + spec.limit * spec.T - Tat(k)
      BY <1>4, <1>6, <1>7, <1>12, <1>18, <1>21, <2>4, Zenon
    <3>3. (h + s) * spec.T <= Tat(k)
      BY <1>4, <1>5, <2>4, Zenon DEF LedgerInv, Covered, KeyCovered
    <3> HIDE DEF h, s
    <3>4. h * spec.T <= (h + s) * spec.T BY <3>2
    <3>5. g * spec.T <= KeyAvail(k) * spec.T BY <1>7, <3>2
    <3>6. (h + g) * spec.T = h * spec.T + g * spec.T BY <1>7, <3>2
    <3>7. /\ h * spec.T \in Int /\ g * spec.T \in Int /\ (h + s) * spec.T \in Int
          /\ KeyAvail(k) * spec.T \in Int /\ spec.limit * spec.T \in Int
      BY <1>4, <1>7, <3>2
    <3>8. (h + g) * spec.T <= now + spec.limit * spec.T BY <1>4, <3>2, <3>3, <3>4, <3>5, <3>6, <3>7
    <3>9. h + g \in Int /\ spec.T \in Nat \ {0} BY <1>7, <3>2
    <3>10. h + g <= spec.limit + now \div spec.T BY <1>4, <3>8, <3>9, BucketFits, Zenon
    <3> QED BY <2>4, <3>1, <3>10, Zenon
  <2> QED BY <1>7, <2>2, <2>3, <2>4
<1> QED BY <1>22, Zenon

\* The organisation's budget is not passed.
LEMMA GrantOrgBudget ==
  ASSUME LedgerInv, NEW e \in Edges, NEW k, NEW g, Granted(e, k, g)
  PROVE  OrgBudgetHolds'
<1>2. UNCHANGED <<spec, org, now, deduped, held, sent, seq, applied>> BY Zenon DEF Granted
<1>4. /\ now \in Nat /\ wid \in Windows /\ pwid \in Windows /\ wid \in Nat /\ pwid \in Nat
      /\ spec.limit \in Nat
      /\ Bucket => wid = 0 /\ spec.T \in Nat /\ spec.T > 0
      /\ ~Bucket => /\ spec.win \in Nat /\ spec.win > 0 /\ wid = WindowOf(now, spec.win)
      /\ org # NoOrg => org.win \in Nat /\ org.win > 0 /\ org.limit \in Nat
  BY Zenon DEF Granted
<1>7. g \in Nat /\ (g > 0 => /\ g <= KeyAvail(k)
                             /\ org # NoOrg => g <= org.limit - pused[pwid])
  BY Zenon DEF Granted
<1>9. /\ phad' \in [Windows -> Int]
      /\ \A w \in Windows : /\ phad'[w] = IF org # NoOrg /\ w = pwid THEN phad[w] + g ELSE phad[w]
                            /\ phad[w] \in Int
  BY Zenon DEF Granted
<1>10. /\ pused' \in [Windows -> Nat]
       /\ \A w \in Windows : /\ pused'[w] = IF org # NoOrg /\ w = pwid THEN pused[w] + g ELSE pused[w]
                             /\ pused[w] \in Nat
  BY Zenon DEF Granted
<1>18. /\ \A l, w : KeySum(sent, applied, l, w) \in Nat
       /\ \A w : OrgSum(sent, applied, w) \in Nat
  BY Zenon DEF Granted
<1>23. OrgBudgetHolds'
  <2> SUFFICES ASSUME org # NoOrg, NEW w \in Windows PROVE phad'[w] <= org.limit
    BY <1>2, Zenon DEF OrgBudgetHolds
  <2>1. phad[w] <= org.limit BY Zenon DEF LedgerInv, OrgBudgetHolds
  <2>2. CASE w # pwid \/ g = 0 BY <1>9, <2>1, <2>2
  <2>3. CASE w = pwid /\ g > 0
    <3>1. phad[w] + OrgSum(sent, applied, w) <= pused[w] BY <1>4, <2>3 DEF LedgerInv, OrgCovered
    <3>2. phad[w] <= pused[w] BY <1>9, <1>10, <1>18, <3>1
    <3>3. phad'[w] = phad[w] + g /\ g <= org.limit - pused[w] BY <1>7, <1>9, <2>3, Zenon
    <3> QED BY <1>4, <1>7, <1>9, <1>10, <3>2, <3>3
  <2> QED BY <1>7, <2>2, <2>3
<1> QED BY <1>23, Zenon

\* The sliding window is not passed.
LEMMA GrantSmooth ==
  ASSUME LedgerInv, NEW e \in Edges, NEW k, NEW g, Granted(e, k, g)
  PROVE  Smooth'
<1>2. UNCHANGED <<spec, org, now, deduped, held, sent, seq, applied>> BY Zenon DEF Granted
<1>3. wid' = wid /\ pwid' = pwid /\ (Bucket <=> Bucket') BY Zenon DEF Granted
<1>4. /\ now \in Nat /\ wid \in Windows /\ pwid \in Windows /\ wid \in Nat /\ pwid \in Nat
      /\ spec.limit \in Nat
      /\ Bucket => wid = 0 /\ spec.T \in Nat /\ spec.T > 0
      /\ ~Bucket => /\ spec.win \in Nat /\ spec.win > 0 /\ wid = WindowOf(now, spec.win)
      /\ org # NoOrg => org.win \in Nat /\ org.win > 0 /\ org.limit \in Nat
  BY Zenon DEF Granted
<1>5. k \in Keys /\ <<k, wid>> \in Entries BY Zenon DEF Granted
<1>6. /\ KeyAvail(k) \in Int
      /\ ~Bucket => KeyAvail(k) <= spec.limit - used[<<k, wid>>]
      /\ Bucket => KeyAvail(k) * spec.T <= now + spec.limit * spec.T - Tat(k)
      /\ spec.algo = "sliding" /\ wid > 0 =>
           /\ WindowEnd(wid, spec.win) - now \in Nat
           /\ KeyAvail(k) = spec.limit - (used[<<k, wid>>]
                + CeilDiv(used[<<k, wid - 1>>] * (WindowEnd(wid, spec.win) - now), spec.win))
  BY Zenon DEF Granted
<1>7. g \in Nat /\ (g > 0 => /\ g <= KeyAvail(k)
                             /\ org # NoOrg => g <= org.limit - pused[pwid])
  BY Zenon DEF Granted
<1>8. /\ had' \in [Entries -> Int]
      /\ \A x \in Entries : /\ had'[x] = IF x = <<k, wid>> THEN had[x] + g ELSE had[x]
                            /\ had[x] \in Int
  BY Zenon DEF Granted
<1>11. /\ used' \in [Entries -> Nat]
       /\ \A x \in Entries : used[x] \in Nat
       /\ ~Bucket => \A x \in Entries : used'[x] = IF x = <<k, wid>> THEN used[x] + g ELSE used[x]
  BY Zenon DEF Granted
<1>18. /\ \A l, w : KeySum(sent, applied, l, w) \in Nat
       /\ \A w : OrgSum(sent, applied, w) \in Nat
  BY Zenon DEF Granted
<1>21. used[<<k, wid>>] \in Nat /\ had[<<k, wid>>] \in Int
         /\ (~Bucket => had[<<k, wid>>] <= used[<<k, wid>>])
  BY Zenon DEF Granted
<1>24. Smooth'
  <2> SUFFICES ASSUME spec.algo = "sliding", wid > 0, NEW l \in Keys
               PROVE  had'[<<l, wid>>] * spec.win
                        + MaxOf(had'[<<l, wid - 1>>], 0) * (WindowEnd(wid, spec.win) - now)
                      <= spec.limit * spec.win
    BY <1>2, <1>3, Zenon DEF Smooth
  <2>1. had[<<l, wid>>] * spec.win + MaxOf(had[<<l, wid - 1>>], 0) * (WindowEnd(wid, spec.win) - now)
          <= spec.limit * spec.win
    BY Zenon DEF LedgerInv, Smooth
  <2>2. ~Bucket BY Zenon DEF Bucket
  <2>3. wid - 1 \in Windows BY <1>4, LedgerSettings DEF Windows
  <2>4. <<l, wid>> \in Entries /\ <<l, wid - 1>> \in Entries BY <1>4, <2>3, Zenon DEF Entries
  <2>5. had'[<<l, wid - 1>>] = had[<<l, wid - 1>>]
    <3>1. <<l, wid - 1>> # <<k, wid>> BY <1>4
    <3> QED BY <1>8, <2>4, <3>1, Zenon
  <2>6. CASE l # k \/ g = 0
    <3>1. had'[<<l, wid>>] = had[<<l, wid>>] BY <1>8, <2>4, <2>6
    <3> QED BY <2>1, <2>5, <3>1, Zenon
  <2>7. CASE l = k /\ g > 0
    <3> DEFINE a == had[<<k, wid>>]
               b == MaxOf(had[<<k, wid - 1>>], 0)
               u == used[<<k, wid>>]
               p == used[<<k, wid - 1>>]
               c == WindowEnd(wid, spec.win) - now
    <3>1. had'[<<l, wid>>] = a + g BY <1>8, <2>4, <2>7, Zenon
    <3>2. c \in Nat /\ g <= spec.limit - (u + CeilDiv(p * c, spec.win)) BY <1>6, <1>7, <2>7, Zenon
    <3>3. a \in Int /\ u \in Nat /\ a <= u BY <1>21, <2>2, Zenon
    <3>4. b \in Nat /\ p \in Nat /\ b <= p
      <4>1. had[<<k, wid - 1>>] + KeySum(sent, applied, k, wid - 1) <= p
        BY <1>5, <2>2, <2>3, Zenon DEF LedgerInv, Covered, KeyCovered
      <4>2. KeySum(sent, applied, k, wid - 1) \in Nat /\ had[<<k, wid - 1>>] \in Int /\ p \in Nat
        BY <1>8, <1>11, <1>18, <2>4, <2>7, Zenon
      <4> QED BY <4>1, <4>2 DEF MaxOf
    <3>5. spec.win \in Nat \ {0} BY <1>4, <2>2
    <3> HIDE DEF a, b, u, p, c
    <3>6. (a + g) * spec.win + b * c <= spec.limit * spec.win
      BY <1>4, <1>7, <3>2, <3>3, <3>4, <3>5, SlidingFits, Zenon
    <3> QED BY <2>5, <2>7, <3>1, <3>6, Zenon DEF a, b, c
  <2> QED BY <1>7, <2>6, <2>7
<1> QED BY <1>24, Zenon

\* A lease takes what is left, in both counters or none.
LEMMA GrantStep ==
  ASSUME LedgerInv, NEW e \in Edges, NEW target \in Targets, NEW n \in 1 .. Cardinality(Edges),
         Grant(e, target, n)
  PROVE  LedgerInv'
<1>1. LedgerTypeOK' /\ NoSecondTime' BY GrantFacts, Zenon
<1>2. PICK k, g : Granted(e, k, g) BY GrantFacts, Zenon
<1> QED
  BY <1>1, <1>2, GrantNotAhead, GrantCovered, GrantOrgCovered, GrantLimit, GrantOrgBudget, GrantSmooth,
     Zenon DEF LedgerInv


----------------------------------------------------------------------------
(* The theorem, and what it says of the properties.                        *)

\* Every step of the ledger keeps the invariant.
LEMMA LedgerStep == ASSUME RecordsOutlast, LedgerInv, [Next]_vars PROVE LedgerInv'
<1>1. CASE UNCHANGED vars
  <2>1. UNCHANGED <<spec, org, now, used, pused, tat, deduped, call, held, sent, seq, had, phad, applied>>
    BY <1>1, Zenon DEF vars, ledger, edges, history
  <2>2. LedgerTypeOK' BY <2>1, Zenon DEF LedgerInv, LedgerTypeOK
  <2>3. wid' = wid /\ pwid' = pwid BY <2>1, ClockKept, Zenon
  <2>4. NotAhead' BY <2>1, <2>3, Zenon DEF LedgerInv, NotAhead
  <2> QED BY <2>1, <2>2, <2>4, AccountsKept, Zenon DEF LedgerInv
<1>2. CASE Tick BY <1>2, TickStep, Zenon
<1>3. ASSUME NEW e \in Edges, NEW target \in Targets, NEW n \in 1 .. Cardinality(Edges), Grant(e, target, n)
      PROVE  LedgerInv'
  BY <1>3, GrantStep, Zenon
<1>4. ASSUME NEW e \in Edges, Deliver(e) \/ Lose(e) \/ Spend(e) PROVE LedgerInv' BY <1>4, HandStep, Zenon
<1>5. ASSUME NEW e \in Edges, GiveBack(e) PROVE LedgerInv' BY <1>5, GiveBackStep, Zenon
<1>6. ASSUME NEW e \in Edges, NEW actual \in Actuals, Settle(e, actual) PROVE LedgerInv'
  BY <1>6, SettleStep, Zenon
<1>7. ASSUME NEW i \in Ids, Execute(i) PROVE LedgerInv' BY <1>7, ExecuteStep, Zenon
<1> QED BY <1>1, <1>2, <1>3, <1>4, <1>5, <1>6, <1>7, Zenon DEF Next

\* The ledger's counters cover what is out, whatever is lost, late or repeated
\* (Lease, Return).
THEOREM LedgerInvariance ==
  ASSUME RecordsOutlast PROVE Spec => []LedgerInv
<1>1. Init => LedgerInv BY LedgerStart, Zenon
<1>2. LedgerInv /\ [Next]_vars => LedgerInv' BY LedgerStep, Zenon
<1> QED BY <1>1, <1>2, PTL DEF Spec

\* What the invariant says of a sliding window: no burst across a reset.
LEMMA SmoothFits == LedgerInv => SlidingSmooth
<1> SUFFICES ASSUME LedgerInv, spec.algo = "sliding", wid > 0, NEW k \in Keys
             PROVE  had[<<k, wid>>] * spec.win + had[<<k, wid - 1>>] * (WindowEnd(wid, spec.win) - now)
                      <= spec.limit * spec.win
  BY Zenon DEF SlidingSmooth
<1>1. LedgerTypeOK /\ ~Bucket BY Zenon DEF LedgerInv, Bucket
<1>2. /\ now \in Nat /\ wid \in Windows /\ wid \in Nat /\ spec.limit \in Nat
      /\ spec.win \in Nat \ {0} /\ wid = WindowOf(now, spec.win)
  BY <1>1, ClockFacts
<1> DEFINE a == had[<<k, wid>>]
           b == had[<<k, wid - 1>>]
           c == WindowEnd(wid, spec.win) - now
           d == MaxOf(b, 0)
<1>3. a * spec.win + d * c <= spec.limit * spec.win BY Zenon DEF LedgerInv, Smooth
<1>4. c \in Nat
  <2>1. now < WindowEnd(WindowOf(now, spec.win), spec.win) BY <1>2, WindowFacts, Zenon
  <2>2. WindowEnd(wid, spec.win) \in Int BY <1>2 DEF WindowEnd
  <2> QED BY <1>2, <2>1, <2>2
<1>5. wid - 1 \in Windows BY <1>2, LedgerSettings DEF Windows
<1>6. a \in Int /\ b \in Int BY <1>1, <1>2, <1>5, Zenon DEF LedgerTypeOK, Entries
<1>7. d \in Nat /\ b <= d BY <1>6 DEF MaxOf
<1> HIDE DEF a, b, c, d
<1>8. b * c <= d * c BY <1>4, <1>6, <1>7
<1>9. a * spec.win \in Int /\ b * c \in Int /\ d * c \in Int /\ spec.limit * spec.win \in Int
  BY <1>2, <1>4, <1>6, <1>7
<1>10. a * spec.win + b * c <= spec.limit * spec.win BY <1>3, <1>8, <1>9
<1> QED BY <1>10, Zenon DEF a, b, c

\* What it says of a return: it took effect at most once.
LEMMA OnceFits == LedgerInv => AppliedOnce
<1> SUFFICES ASSUME LedgerInv, NEW i \in Ids PROVE applied[i] <= 1 BY Zenon DEF AppliedOnce
<1>1. applied[i] \in {0, 1} BY Zenon DEF LedgerInv, NoSecondTime
<1> QED BY <1>1

=============================================================================
