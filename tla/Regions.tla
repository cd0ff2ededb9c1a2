------------------------------ MODULE Regions ------------------------------
(***************************************************************************)
(* A global quota split between regions (packages/region and               *)
(* ledger/region.go).  Each region enforces its own allocation, per window, *)
(* on its own ledger's clock; a hub that ran out borrows from peers by     *)
(* debit-first transfers.  A borrow call may be lost, answered late,       *)
(* executed after its caller gave up, or executed twice; hub replicas of   *)
(* one region borrow at the same time and restart.                         *)
(*                                                                         *)
(* The quota is one key's; the rotation of the peers' order is left open   *)
(* (any order), and the configuration does not change.                     *)
(***************************************************************************)
EXTENDS LedgerArith, FiniteSets, Functions

CONSTANTS
  Regions,       \* the regions deployed
  Hubs,          \* their hub replicas
  RegionOf,      \* RegionOf[h]: the region of a hub
  Quota,         \* the global limit per window
  Floors,        \* Floors[r]: floor share in percent (limits.global.floors)
  Home,          \* the region that wins the key's rendezvous hash
  Window,        \* length of a window, in ticks
  RegionTargets, \* sizes of lease requests
  Skew,          \* how far a hub's clock is from its ledger's
  RegionTime,    \* bound: the ledgers' clocks stop here
  MaxTransfers   \* bound: borrow calls of one hub

ASSUME RegionConstants ==
  /\ IsFiniteSet(Regions) /\ IsFiniteSet(Hubs)
  /\ RegionOf \in [Hubs -> Regions]
  /\ Quota \in Nat \ {0} /\ Window \in Nat \ {0}
  /\ DOMAIN Floors \subseteq Regions
  /\ \A r \in DOMAIN Floors : Floors[r] \in 0 .. 100
  /\ Home \in DOMAIN Floors
  /\ RegionTargets \subseteq Nat \ {0}
  /\ Skew \in Nat /\ RegionTime \in Nat /\ MaxTransfers \in Nat

VARIABLES
  clock,     \* clock[r]: the ledger's clock
  granted,   \* granted[<<r, w>>]: tokens region r granted in window w
  alloc,     \* alloc[<<r, w>>]: what r borrowed minus what it lent
  lent,      \* lent[i]: what transfer i was given; NotLent without a record
  credited,  \* transfers credited to their borrower
  asked,     \* asked[i]: the borrow call of transfer i
  replies,   \* answers to borrow calls, <<transfer, given>>
  needs,     \* needs[h]: the window hub h ran out in; NoWindow if none
  node,      \* node[h]: the round of rebalancing hub h is in
  asks       \* asks[h]: borrow calls hub h has made

regionVars == <<clock, granted, alloc, lent, credited, asked, replies, needs, node, asks>>

RegionWindows == 0 .. WindowOf(RegionTime, Window)
NoWindow == -1
NotLent == -1
Transfers == Hubs \X (1 .. MaxTransfers)
RegionEntries == Regions \X RegionWindows
widOf(r) == WindowOf(clock[r], Window)

\* A region's floor of the quota, and its allocation: the floor, and for the
\* home region of the key whatever the floors leave over.
floor(r) == IF r \in DOMAIN Floors THEN (Quota * Floors[r]) \div 100 ELSE 0
FloorOf == [r \in Regions |-> floor(r)]
BaseRounded(r) ==
  (Quota * Floors[r] + 99) \div 100
  + (IF r = Home THEN Quota - SumFunctionOnSet(FloorOf, Regions) ELSE 0)
Base(r) ==
  floor(r) + (IF r = Home THEN Quota - SumFunctionOnSet(FloorOf, Regions) ELSE 0)

\* The validator's bound on the shares (their sum is at most 1).
ASSUME FloorsFit == SumFunctionOnSet(FloorOf, Regions) <= Quota

NotAsked == [to |-> Home, w |-> NoWindow, want |-> 0]
Resting == [pc |-> "idle", w |-> NoWindow, left |-> {}, id |-> 0, given |-> 0]

RegionsInit ==
  /\ clock = [r \in Regions |-> 0]
  /\ granted = [x \in RegionEntries |-> 0]
  /\ alloc = [x \in RegionEntries |-> 0]
  /\ lent = [i \in Transfers |-> NotLent]
  /\ credited = {}
  /\ asked = [i \in Transfers |-> NotAsked]
  /\ replies = {}
  /\ needs = [h \in Hubs |-> NoWindow]
  /\ node = [h \in Hubs |-> Resting]
  /\ asks = [h \in Hubs |-> 0]

RegionTick(r) ==
  /\ clock[r] < RegionTime
  /\ clock' = [clock EXCEPT ![r] = @ + 1]
  /\ UNCHANGED <<granted, alloc, lent, credited, asked, replies, needs, node, asks>>

----------------------------------------------------------------------------
\* The lease path: what is left of the region's own allocation.
Left(r, w) == Base(r) + alloc[<<r, w>>] - granted[<<r, w>>]

\* A lease request at hub h: a grant from the allocation, with n edges asking
\* near its end, or the report that it has run out.
RegionGrant(h, target, n) ==
  LET r == RegionOf[h]
      w == widOf(r)
      size == GrantSize(Left(r, w), n, Capped(target, Quota))
  IN  /\ IF Left(r, w) > 0
         THEN granted' = [granted EXCEPT ![<<r, w>>] = @ + size] /\ UNCHANGED needs
         ELSE needs' = [needs EXCEPT ![h] = w] /\ UNCHANGED granted
      /\ UNCHANGED <<clock, alloc, lent, credited, asked, replies, node, asks>>

\* Edges give back tokens of the current window.
RegionReturn(r, n) ==
  LET x == <<r, widOf(r)>>
  IN  /\ n \in 1 .. granted[x]
      /\ granted' = [granted EXCEPT ![x] = Credit(@, n)]
      /\ UNCHANGED <<clock, alloc, lent, credited, asked, replies, needs, node, asks>>

----------------------------------------------------------------------------
\* Rebalancing: the round starts with the need on record, if the hub's own
\* clock says its window is still running.
Rebalance(h, t) ==
  LET peers == Regions \ {RegionOf[h]}
      w == needs[h]
  IN  /\ node[h].pc = "idle" /\ w # NoWindow
      /\ needs' = [needs EXCEPT ![h] = NoWindow]
      /\ node' = IF peers # {} /\ WindowOf(t, Window) = w
                 THEN [node EXCEPT ![h] = [Resting EXCEPT !.pc = "ask", !.w = w,
                                                          !.left = peers]]
                 ELSE node
      /\ UNCHANGED <<clock, granted, alloc, lent, credited, asked, replies, asks>>

\* The next peer is asked for a quarter of the quota under a fresh transfer id.
Ask(h, p) ==
  LET i == <<h, asks[h] + 1>>
  IN  /\ node[h].pc = "ask" /\ p \in node[h].left /\ asks[h] < MaxTransfers
      /\ asks' = [asks EXCEPT ![h] = @ + 1]
      /\ asked' = [asked EXCEPT ![i] = [to |-> p, w |-> node[h].w,
                                      want |-> MaxOf(Quota \div 4, 1)]]
      /\ node' = [node EXCEPT ![h] = [@ EXCEPT !.pc = "wait", !.left = node[h].left \ {p},
                                                !.id = asks[h] + 1]]
      /\ UNCHANGED <<clock, granted, alloc, lent, credited, replies, needs>>

\* The round ends when no peer is left to ask.
Exhausted(h) ==
  /\ node[h].pc = "ask" /\ (node[h].left = {} \/ asks[h] = MaxTransfers)
  /\ node' = [node EXCEPT ![h] = Resting]
  /\ UNCHANGED <<clock, granted, alloc, lent, credited, asked, replies, needs, asks>>

\* What the lender is on pace to use in the rest of the window, rounded up.
Pace(r, w) ==
  LET elapsed == clock[r] - w * Window
      rate    == MaxOf(elapsed, 1)
  IN  (granted[<<r, w>>] * (Window - elapsed) + rate - 1) \div rate

Spare(i) ==
  LET c == asked[i]
  IN  MaxOf(MinOf(c.want, Left(c.to, c.w) - Pace(c.to, c.w)), 0)

\* The lender executes transfer i, for the first time or again: nothing after
\* the window has ended, the recorded answer if there is one, and otherwise
\* the allocation is lowered before the answer leaves.
LendAgain(i) ==
  LET c == asked[i]
      x == <<c.to, c.w>>
  IN  /\ IF widOf(c.to) # c.w THEN UNCHANGED <<alloc, lent>> /\ replies' = replies \cup {<<i, 0>>}
         ELSE /\ alloc' = [alloc EXCEPT ![x] = @ - Spare(i)]
              /\ lent' = [lent EXCEPT ![i] = Spare(i)]
              /\ replies' = replies \cup {<<i, Spare(i)>>}
      /\ UNCHANGED <<clock, granted, credited, asked, needs, node, asks>>
Lend(i) ==
  LET c == asked[i]
      x == <<c.to, c.w>>
      give == IF widOf(c.to) # c.w THEN 0
              ELSE IF lent[i] # NotLent THEN lent[i] ELSE Spare(i)
      first == widOf(c.to) = c.w /\ lent[i] = NotLent
  IN  /\ alloc' = IF first THEN [alloc EXCEPT ![x] = @ - give] ELSE alloc
      /\ lent' = IF first THEN [lent EXCEPT ![i] = give] ELSE lent
      /\ replies' = replies \cup {<<i, give>>}
      /\ UNCHANGED <<clock, granted, credited, asked, needs, node, asks>>
Borrow(i) == asked[i] # NotAsked /\ Lend(i)

\* The answer: a refusal moves on to the next peer, a loan has to be credited.
Hear(h, n) ==
  /\ node[h].pc = "wait" /\ <<<<h, node[h].id>>, n>> \in replies
  /\ node' = IF n > 0 THEN [node EXCEPT ![h] = [@ EXCEPT !.pc = "credit", !.given = n]]
                      ELSE [node EXCEPT ![h].pc = "ask"]
  /\ UNCHANGED <<clock, granted, alloc, lent, credited, asked, replies, needs, asks>>

\* borrowTimeout, or an error: the peer counts as unreachable.
Timeout(h) ==
  /\ node[h].pc = "wait"
  /\ node' = [node EXCEPT ![h].pc = "ask"]
  /\ UNCHANGED <<clock, granted, alloc, lent, credited, asked, replies, needs, asks>>

\* The borrower's ledger: once per transfer, only in the window lent in.
Creditable(r, w) == widOf(r) = w
CreditLoan(h) ==
  LET r == RegionOf[h]
      n == node[h]
      i == <<h, n.id>>
      ok == Creditable(r, n.w) /\ i \notin credited
  IN  /\ n.pc = "credit"
      /\ alloc' = IF ok THEN [alloc EXCEPT ![<<r, n.w>>] = @ + n.given] ELSE alloc
      /\ credited' = IF ok THEN credited \cup {i} ELSE credited
      /\ node' = [node EXCEPT ![h] = Resting]
      /\ UNCHANGED <<clock, granted, lent, asked, replies, needs, asks>>

\* The credit does not reach the ledger, or the hub restarts: what it knew of
\* its needs and its round is gone.
Restart(h) ==
  /\ node[h] # Resting
  /\ node' = [node EXCEPT ![h] = Resting]
  /\ needs' = [needs EXCEPT ![h] = NoWindow]
  /\ UNCHANGED <<clock, granted, alloc, lent, credited, asked, replies, asks>>

RegionsNext ==
  \/ \E r \in Regions : RegionTick(r)
  \/ \E r \in Regions : \E n \in RegionTargets : RegionReturn(r, n)
  \/ \E h \in Hubs : \E target \in RegionTargets, n \in 1 .. 2 : RegionGrant(h, target, n)
  \/ \E h \in Hubs :
       \E t \in clock[RegionOf[h]] - Skew .. clock[RegionOf[h]] + Skew : Rebalance(h, t)
  \/ \E h \in Hubs : \E p \in Regions : Ask(h, p)
  \/ \E h \in Hubs : Exhausted(h)
  \/ \E i \in Transfers : Borrow(i)
  \/ \E h \in Hubs : \E n \in 0 .. Quota : Hear(h, n)
  \/ \E h \in Hubs : Timeout(h)
  \/ \E h \in Hubs : CreditLoan(h)
  \/ \E h \in Hubs : Restart(h)

RegionsSpec == RegionsInit /\ [][RegionsNext]_regionVars

----------------------------------------------------------------------------
AllocAt(w) == [r \in Regions |-> alloc[<<r, w>>]]
GrantedAt(w) == [r \in Regions |-> granted[<<r, w>>]]
\* What transfer i has taken from its lender in window w and not yet given.
Transit(w) ==
  [i \in Transfers |-> IF asked[i].w = w /\ lent[i] # NotLent /\ i \notin credited
                 THEN lent[i] ELSE 0]

Rounds == [pc : {"idle", "ask", "wait", "credit"}, w : RegionWindows \cup {NoWindow},
           left : SUBSET Regions, id : 0 .. MaxTransfers, given : Nat]
TypeOK ==
  /\ clock \in [Regions -> 0 .. RegionTime]
  /\ granted \in [RegionEntries -> Nat]
  /\ alloc \in [RegionEntries -> Int]
  /\ lent \in [Transfers -> Nat \cup {NotLent}]
  /\ credited \in SUBSET Transfers
  /\ asked \in [Transfers -> [to : Regions, w : RegionWindows \cup {NoWindow}, want : Nat]]
  /\ replies \in SUBSET (Transfers \X Nat)
  /\ needs \in [Hubs -> RegionWindows \cup {NoWindow}]
  /\ node \in [Hubs -> Rounds]
  /\ asks \in [Hubs -> 0 .. MaxTransfers]

\* Whatever is lost, late or repeated between regions, they never grant more
\* than the global quota in a window (region.go: "none can make the regions
\* admit more than Q").
GlobalQuotaHolds == \A w \in RegionWindows : SumFunctionOnSet(GrantedAt(w), Regions) <= Quota

\* A transfer moves allocation and makes none: in every window what lenders
\* gave up is with the borrowers or on its way (or lost), and the allocations
\* of all regions add up to the quota without the transfers.
TransfersBalance ==
  \A w \in RegionWindows :
    SumFunctionOnSet(AllocAt(w), Regions) + SumFunctionOnSet(Transit(w), Transfers) = 0

\* No region lends what it has already granted to its edges, nor credits a
\* loan to another window: what it granted fits its allocation.
NoRegionOverdrawn == \A x \in RegionEntries : granted[x] <= Base(x[1]) + alloc[x]

\* What the nodes and the answers in flight know of the transfers: a loan a
\* node is about to credit is the one on record, for the window it was lent in.
NodeOnRecord(h) ==
  /\ node[h].pc \in {"wait", "credit"} =>
       /\ node[h].id >= 1
       /\ node[h].w \in RegionWindows
       /\ asked[<<h, node[h].id>>].w = node[h].w
  /\ node[h].pc = "ask" => node[h].w \in RegionWindows
  /\ node[h].pc = "credit" => node[h].given > 0 /\ lent[<<h, node[h].id>>] = node[h].given
LoansOnRecord ==
  /\ \A h \in Hubs, n \in 1 .. MaxTransfers :
       n > asks[h] => asked[<<h, n>>] = NotAsked
  /\ \A i \in Transfers : asked[i] = NotAsked => lent[i] = NotLent /\ i \notin credited
  /\ \A i \in credited : lent[i] # NotLent
  /\ \A x \in replies : x[2] > 0 => lent[x[1]] = x[2]
  /\ \A x \in replies : asked[x[1]] # NotAsked
  /\ \A h \in Hubs : NodeOnRecord(h)

RInv == TypeOK /\ TransfersBalance /\ NoRegionOverdrawn /\ LoansOnRecord

=============================================================================
