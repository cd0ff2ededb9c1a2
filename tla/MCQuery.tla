------------------------------ MODULE MCQuery ------------------------------
(***************************************************************************)
(* AnalyticsQuery on small instances: up to three events of kinds that the *)
(* two stores, the aggregates and the filters could treat differently.     *)
(***************************************************************************)
EXTENDS AnalyticsQuery

Ev(s, t, e, c, h, f, total, up) ==
  [ts |-> 0, service |-> s, tier |-> t, edge |-> e, code |-> c, hit |-> h, failed |-> f, total |-> total, up |-> up]
CheckedIntervals == [fine |-> [size |-> 1, window |-> 2], coarse |-> [size |-> 2, window |-> 4]]
CheckedRanges == [short |-> [span |-> 2, bucket |-> 1], long |-> [span |-> 4, bucket |-> 2]]
Hit == Ev("s1", "free", "e1", 200, TRUE, FALSE, 1, 0)
Ok == Ev("s2", "pro", "e2", 200, FALSE, FALSE, 5, 3)
Limited == Ev("s1", "free", "e2", 429, FALSE, FALSE, 1, 0)
LimitedUp == Ev("s3", "", "e1", 429, FALSE, TRUE, 4, 4)
Missing == Ev("s1", "", "", 404, FALSE, FALSE, 2, 3)
Down == Ev("s2", "pro", "e1", 502, FALSE, TRUE, 9, 8)
Cut == Ev("s3", "free", "", 200, FALSE, TRUE, 3, 2)
CheckedKinds == {{Hit, Down}, {Ok, Limited}, {LimitedUp, Missing}, {Cut, Ok}}
\* The refresh and a page read only share the store: no behaviour explored has both in progress.
\* A third event is stored for the answers on request only.
QueryScope ==
  /\ page.step = "idle" \/ (refresh.step = "idle" /\ summaries = <<>>)
  /\ pushed > 2 => Quiet /\ agg = NoAgg
CheckedFilters == {NoFilter, [NoFilter EXCEPT !.service = {"s1", "s3"}], [NoFilter EXCEPT !.tier = {"pro"}]}
=============================================================================
