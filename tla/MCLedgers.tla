----------------------------- MODULE MCLedgers ------------------------------
(***************************************************************************)
(* What the ledgers promise, on small instances: one ledger with every     *)
(* algorithm and an organisation's budget (Ledger), and the ledgers of     *)
(* regions that lend each other allocation (Regions). A behaviour explores *)
(* one of the two; the variables of the other are 0 throughout.            *)
(***************************************************************************)
EXTENDS MCLedger, MCRegions

VARIABLE part   \* the component this behaviour explores

ledgerOff ==
  /\ spec = 0 /\ org = 0 /\ now = 0 /\ used = 0 /\ pused = 0 /\ tat = 0 /\ deduped = 0
  /\ call = 0 /\ held = 0 /\ sent = 0 /\ seq = 0 /\ had = 0 /\ phad = 0 /\ applied = 0
regionsOff ==
  /\ clock = 0 /\ granted = 0 /\ alloc = 0 /\ lent = 0 /\ credited = 0 /\ asked = 0 /\ replies = 0
  /\ needs = 0 /\ node = 0 /\ asks = 0

AllInit ==
  \/ part = "ledger" /\ Init /\ regionsOff
  \/ part = "regions" /\ RegionsInit /\ ledgerOff

OnlyLedger == part = "ledger" /\ UNCHANGED << part, regionVars >>
OnlyRegions == part = "regions" /\ UNCHANGED << part, vars >>
AllNext ==
  \/ OnlyLedger /\ Tick
  \/ OnlyLedger /\ (\E e \in Edges : \E target \in Targets, n \in 1 .. Cardinality(Edges) : Grant(e, target, n))
  \/ OnlyLedger /\ (\E e \in Edges : Deliver(e))
  \/ OnlyLedger /\ (\E e \in Edges : Lose(e))
  \/ OnlyLedger /\ (\E e \in Edges : Spend(e))
  \/ OnlyLedger /\ (\E e \in Edges : GiveBack(e))
  \/ OnlyLedger /\ (\E e \in Edges : \E actual \in Actuals : Settle(e, actual))
  \/ OnlyLedger /\ (\E i \in Ids : Execute(i))
  \/ OnlyRegions /\ (\E r \in Regions : RegionTick(r))
  \/ OnlyRegions /\ (\E r \in Regions, n \in RegionTargets : RegionReturn(r, n))
  \/ OnlyRegions /\ (\E h \in Hubs, target \in RegionTargets, n \in 1 .. 2 : RegionGrant(h, target, n))
  \/ OnlyRegions /\ (\E h \in Hubs : \E t \in clock[RegionOf[h]] - Skew .. clock[RegionOf[h]] + Skew : Rebalance(h, t))
  \/ OnlyRegions /\ (\E h \in Hubs, p \in Regions : Ask(h, p))
  \/ OnlyRegions /\ (\E h \in Hubs : Exhausted(h))
  \/ OnlyRegions /\ (\E i \in Transfers : Borrow(i))
  \/ OnlyRegions /\ (\E h \in Hubs, n \in 0 .. Quota : Hear(h, n))
  \/ OnlyRegions /\ (\E h \in Hubs : Timeout(h))
  \/ OnlyRegions /\ (\E h \in Hubs : CreditLoan(h))
  \/ OnlyRegions /\ (\E h \in Hubs : Restart(h))

AllSpec == AllInit /\ [][AllNext]_<< part, vars, regionVars >>

Scope == (part = "ledger" => LedgerScope) /\ (part = "regions" => RegionsScope)

----------------------------------------------------------------------------
\* The properties of the component modules, each of the behaviours that explore its component.

\* No window hands out more than its limit, and no bucket more than its burst and what has
\* refilled (Spec.Limit).
AllLimitHolds == part = "ledger" => LimitHolds

\* The keys of an organisation together are within its budget (Ref.Parent).
AllOrgBudgetHolds == part = "ledger" => OrgBudgetHolds

\* A sliding window lets no burst across a reset (SlidingWindow).
AllSlidingSmooth == part = "ledger" => SlidingSmooth

\* A return takes effect once, however often it arrives (Return).
AllAppliedOnce == part = "ledger" => AppliedOnce

\* The regions together grant no more than the global quota in a window (Base, Lend, Credit).
AllGlobalQuotaHolds == part = "regions" => GlobalQuotaHolds

\* The inductive invariant of the regions: transfers balance, and what a region granted fits
\* its allocation (Lend, Credit).
AllRInv == part = "regions" => RInv
=============================================================================
