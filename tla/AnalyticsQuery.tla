--------------------------- MODULE AnalyticsQuery ---------------------------
(***************************************************************************)
(* The read side of the analytics service (packages/analytics): the event  *)
(* store, the aggregates a background refresh rebuilds from it, and the    *)
(* answers to /summary, /overview and /events, as the Redis store computes *)
(* them in process and as the ClickHouse store computes them in SQL.       *)
(*                                                                         *)
(* An event is [ts, service, tier, edge, code, hit, failed, total, up]:    *)
(* whether it came from the cache, whether the upstream failed, and its    *)
(* latencies.  Averages and shares are pairs.  The prefix and method       *)
(* groupings are like the others and left out.                             *)
(***************************************************************************)
EXTENDS Integers, Sequences, FiniteSets, Functions, TLC

CONSTANTS
  Intervals,    \* Intervals[id]: the size of its buckets and the window shown
  Ranges,       \* Ranges[id]: a dashboard range's span and the size of its buckets
  History,      \* how long aggregates are kept
  LoadLimit,    \* most events a refresh loads
  RowLimit,     \* most rows of a table
  RecentLimit,  \* most recent requests shown
  Kinds,        \* the sets of events, but for their time, a behaviour draws from
  Filters,      \* filters asked for
  MaxEvents, MaxNow

VARIABLES
  kinds,    \* the events this behaviour draws from
  log,      \* the store: events in order of arrival
  pushed,   \* how many events were ever stored (a bound)
  now,
  refresh,  \* the background refresh: its step and the events loaded
  agg,      \* agg.of[id]: an interval's buckets; agg.from: the events they were made from
  summaries, \* <<>>, or the snapshots served, when they were built and from which events
  clearing, \* the store is cleared and the caches are not yet
  page      \* a read of a page: its window, the store when its length was read, whether a clear followed

queryVars == <<kinds, log, pushed, now, refresh, agg, summaries, clearing, page>>

Truncate(t, size) == t - (t % size)
\* op over the elements of s, from the first on.
FoldLeft(op(_, _), base, s) ==
  MapThenFoldSet(LAMBDA e, acc : op(acc, e), base, LAMBDA i : s[i],
                 LAMBDA S : CHOOSE i \in S : \A j \in S : j <= i, DOMAIN s)
CountIf(es, P(_)) == Len(SelectSeq(es, P))
Total(f) == FoldLeft(LAMBDA a, b : a + b, 0, f)
ratio(a, b) == IF b = 0 THEN <<0, 1>> ELSE <<a, b>>
At(t, e) == [e EXCEPT !.ts = t]
Dimensions == {"service", "tier", "edge"}

----------------------------------------------------------------------------
(* Aggregation in process.                                                 *)

Zero == [count |-> 0, total |-> 0, up |-> 0, samples |-> 0, added |-> 0, hits |-> 0, ok |-> 0,
         limited |-> 0, failed |-> 0, tiers |-> {}, totals |-> <<>>]
One(b) == IF b THEN 1 ELSE 0
\* statsAccumulator.add
add(a, e) ==
  LET proxied == ~e.hit /\ e.code # 429
  IN  [count |-> a.count + 1, total |-> a.total + e.total,
       up |-> a.up + IF proxied THEN e.up ELSE 0, samples |-> a.samples + One(proxied),
       added |-> a.added + IF e.total > e.up THEN e.total - e.up ELSE 0,
       hits |-> a.hits + One(e.hit), ok |-> a.ok + One(e.code \in 200 .. 299),
       limited |-> a.limited + One(e.code = 429), failed |-> a.failed + One(e.failed),
       tiers |-> a.tiers \cup {e.tier}, totals |-> Append(a.totals, e.total)]
\* statsAccumulator.merge; a sample below its capacity keeps every value.
merge(a, b) ==
  [f \in DOMAIN Zero |-> CASE f = "tiers" -> a.tiers \cup b.tiers
                           [] f = "totals" -> a.totals \o b.totals
                           [] OTHER -> a[f] + b[f]]
\* boundedPercentiles.percentile, in hundredths: interpolated between ranks.
percentile(values, p) ==
  LET s == SortSeq(values, <)
      rank == p * (Len(s) - 1)
      lo == rank \div 100 + 1
  IN  IF s = <<>> THEN 0
      ELSE IF lo + 1 > Len(s) THEN 100 * s[lo]
      ELSE s[lo] * (100 - (rank % 100)) + s[lo + 1] * (rank % 100)
toSummary(a) ==
  [count |-> a.count, avgTotal |-> ratio(a.total, a.count), avgUpstream |-> ratio(a.up, a.samples),
   avgAdded |-> ratio(a.added, a.count), hitRate |-> ratio(a.hits, a.count), successRate |-> ratio(a.ok, a.count),
   tiers |-> Cardinality(a.tiers), limited |-> a.limited, failed |-> a.failed]

Lookup(f, k) == IF k \in DOMAIN f THEN f[k] ELSE Zero
NewBucket == [total |-> Zero, groups |-> [d \in Dimensions |-> <<>>]]
addGroup(groups, key, e) == (key :> add(Lookup(groups, key), e)) @@ groups
NameOr(name, blank) == IF name = "" THEN blank ELSE name
\* bucketAggregation.add, intervalAggregation.ingest and its prune
addToBucket(b, e) == [total |-> add(b.total, e), groups |-> [d \in Dimensions |-> addGroup(b.groups[d], NameOr(e[d], "unknown"), e)]]
prune(buckets, t) == [k \in {k \in DOMAIN buckets : k >= t - History} |-> buckets[k]]
ingest(buckets, size, e) ==
  LET k == Truncate(e.ts, size)
      b == IF k \in DOMAIN buckets THEN buckets[k] ELSE NewBucket
  IN  prune((k :> addToBucket(b, e)) @@ buckets, e.ts)
NoBuckets == [k \in {} |-> NewBucket]
Aggregate(es, size) == FoldLeft(LAMBDA buckets, e : ingest(buckets, size, e), NoBuckets, es)

\* The buckets a snapshot covers: the one in progress and those before it.
firstBucketEarly(id, t) == Truncate(t, Intervals[id].size) - Intervals[id].window
firstBucket(id, t) == Truncate(t, Intervals[id].size) - (Intervals[id].window \div Intervals[id].size - 1) * Intervals[id].size
buildSnapshot(id, buckets, t) ==
  LET size == Intervals[id].size
      starts == [i \in 1 .. Intervals[id].window \div size |-> firstBucket(id, t) + (i - 1) * size]
      present == SelectSeq(starts, LAMBDA k : k \in DOMAIN buckets)
      all == FoldLeft(LAMBDA a, k : merge(a, buckets[k].total), Zero, present)
      names(d) == UNION {DOMAIN buckets[k].groups[d] : k \in Range(present)}
  IN  [total |-> all,
       groups |-> [d \in Dimensions |-> [n \in names(d) |->
                    FoldLeft(LAMBDA a, k : merge(a, Lookup(buckets[k].groups[d], n)), Zero, present)]],
       series |-> [i \in DOMAIN starts |->
                    LET a == IF starts[i] \in DOMAIN buckets THEN buckets[starts[i]].total ELSE Zero
                    IN  [start |-> starts[i], count |-> a.count, hits |-> a.hits, limited |-> a.limited,
                         p50 |-> percentile(a.totals, 50), p90 |-> percentile(a.totals, 90)]]]
summarizeByGroup(es, d) == FoldLeft(LAMBDA groups, e : addGroup(groups, e[d], e), <<>>, es)
buildFilteredSummary(es, id, t) == buildSnapshot(id, Aggregate(es, Intervals[id].size), t)

----------------------------------------------------------------------------
(* Filters: sets of names, where none means all, and optional bounds.      *)

NoFilter == [service |-> {}, tier |-> {}, edge |-> {}, codeMin |-> <<>>, codeMax |-> <<>>,
             hit |-> <<>>, failed |-> <<>>, totalMin |-> <<>>, totalMax |-> <<>>, start |-> <<>>, end |-> <<>>]
Given(opt, P(_)) == \A i \in DOMAIN opt : P(opt[i])
\* filterEntries, in process
filterEntries(es, f) ==
  SelectSeq(es, LAMBDA e :
    /\ \A d \in Dimensions : f[d] = {} \/ e[d] \in f[d]
    /\ Given(f.codeMin, LAMBDA v : e.code >= v) /\ Given(f.codeMax, LAMBDA v : e.code <= v)
    /\ Given(f.hit, LAMBDA v : e.hit = v) /\ Given(f.failed, LAMBDA v : e.failed = v)
    /\ Given(f.totalMin, LAMBDA v : e.total >= v) /\ Given(f.totalMax, LAMBDA v : e.total <= v)
    /\ Given(f.start, LAMBDA v : e.ts >= v) /\ Given(f.end, LAMBDA v : e.ts <= v))
matchesOverviewFilters(e, f) == \A d \in Dimensions : f[d] = {} \/ e[d] \in f[d]
\* buildClickHouseWhere and appendInClause
InClause(e, d, names) == names = {} \/ e[d] \in names
Where(es, start, end, f) ==
  SelectSeq(es, LAMBDA e :
    /\ e.ts >= start /\ e.ts < end
    /\ \A d \in Dimensions : InClause(e, d, f[d])
    /\ Given(f.codeMin, LAMBDA v : e.code >= v) /\ Given(f.codeMax, LAMBDA v : e.code <= v)
    /\ Given(f.hit, LAMBDA v : e.hit = v) /\ Given(f.failed, LAMBDA v : e.failed = v)
    /\ Given(f.totalMin, LAMBDA v : e.total >= v) /\ Given(f.totalMax, LAMBDA v : e.total <= v))

----------------------------------------------------------------------------
(* The dashboard's overview, in process and in SQL.                        *)

\* parseOverviewQuery: the window includes the bucket in progress.
overviewSpec(range, f, t) ==
  LET r == Ranges[range]
      end == Truncate(t, r.bucket) + r.bucket
  IN  [start |-> end - r.span, end |-> end, prevStart |-> end - 2 * r.span, bucket |-> r.bucket,
       points |-> r.span \div r.bucket, filters |-> f]
fillSeries(spec, byBucket) == [i \in 1 .. spec.points |-> byBucket[spec.start + (i - 1) * spec.bucket]]
kpis(w) == [successRate |-> ratio(w.requests - w.upstream, w.requests),
            limitedShare |-> ratio(w.limited, w.requests), hitRate |-> ratio(w.hits, w.requests)]
newOverview(cur, prev) == [cur |-> cur, prev |-> prev, kpis |-> kpis(cur), prevKpis |-> kpis(prev)]

outcomeOf(e) ==
  IF e.code = 429 THEN "limited"
  ELSE IF e.failed \/ e.code >= 500 THEN "upstream"
  ELSE IF e.code >= 400 THEN "client" ELSE "ok"
Outcomes(es, o) == CountIf(es, LAMBDA e : outcomeOf(e) = o)
statsOf(es) ==
  [requests |-> Len(es), limited |-> Outcomes(es, "limited"), upstream |-> Outcomes(es, "upstream"),
   client |-> Outcomes(es, "client"), hits |-> CountIf(es, LAMBDA e : e.hit),
   edges |-> Cardinality({e.edge : e \in Range(es)} \ {""})]
pointOf(es) == [o \in {"ok", "limited", "client", "upstream"} |-> Outcomes(es, o)]
finishRow(name, n, limited, failed, hits, total) ==
  [name |-> name, requests |-> n, share |-> ratio(n, total), limited |-> ratio(limited, n),
   failed |-> ratio(failed, n), hitRate |-> ratio(hits, n)]
rowsBy(es, d) ==
  {LET g == SelectSeq(es, LAMBDA e : NameOr(e[d], "(none)") = name)
   IN  finishRow(name, Len(g), Outcomes(g, "limited"), Outcomes(g, "upstream"),
                 CountIf(g, LAMBDA e : e.hit), Len(es))
   : name \in {NameOr(e[d], "(none)") : e \in Range(es)}}
Latest(es) == LET s == SortSeq(es, LAMBDA a, b : a.ts > b.ts)
              IN  SubSeq(s, 1, IF Len(s) < RecentLimit THEN Len(s) ELSE RecentLimit)
\* buildOverview
buildOverview(spec, es) ==
  LET inCur == SelectSeq(es, LAMBDA e : e.ts >= spec.start /\ e.ts < spec.end)
      cur == SelectSeq(inCur, LAMBDA e : matchesOverviewFilters(e, spec.filters))
      prev == SelectSeq(es, LAMBDA e : /\ matchesOverviewFilters(e, spec.filters)
                                       /\ e.ts >= spec.prevStart /\ e.ts < spec.start)
  IN  newOverview(statsOf(cur), statsOf(prev)) @@
      [series |-> fillSeries(spec, [t \in spec.start .. spec.end |->
                                      pointOf(SelectSeq(cur, LAMBDA e : Truncate(e.ts, spec.bucket) = t))]),
       rows |-> [d \in Dimensions |-> rowsBy(cur, d)],
       recent |-> [i \in DOMAIN Latest(cur) |-> Latest(cur)[i].ts],
       options |-> [d \in Dimensions |-> {e[d] : e \in Range(inCur)} \ {""}]]

\* The counts of the SQL queries
sqlRateLimited(es) == CountIf(es, LAMBDA e : e.code = 429)
sqlUpstreamErrAny(es) == CountIf(es, LAMBDA e : e.failed \/ e.code >= 500)
sqlUpstreamErr(es) == CountIf(es, LAMBDA e : e.code # 429 /\ (e.failed \/ e.code >= 500))
sqlClientErr(es) == CountIf(es, LAMBDA e : e.code >= 400 /\ e.code < 500 /\ e.code # 429 /\ ~e.failed)
overviewWindow(es, start, end, f) ==
  LET w == Where(es, start, end, f)
  IN  [requests |-> Len(w), limited |-> sqlRateLimited(w), upstream |-> sqlUpstreamErr(w),
       client |-> sqlClientErr(w), hits |-> CountIf(w, LAMBDA e : e.hit),
       edges |-> Cardinality({e.edge : e \in Range(w)})]
overviewSeries(es, spec) ==
  fillSeries(spec, [t \in spec.start .. spec.end |->
    LET b == SelectSeq(Where(es, spec.start, spec.end, spec.filters), LAMBDA e : Truncate(e.ts, spec.bucket) = t)
    IN  [ok |-> Len(b) - sqlRateLimited(b) - sqlUpstreamErr(b) - sqlClientErr(b), limited |-> sqlRateLimited(b),
         client |-> sqlClientErr(b), upstream |-> sqlUpstreamErr(b)]])
\* GROUP BY name ORDER BY count() DESC LIMIT: every row that ties for the last place is kept.
overviewRows(es, spec, d, total) ==
  LET w == Where(es, spec.start, spec.end, spec.filters)
      all == {LET g == SelectSeq(w, LAMBDA e : NameOr(e[d], "(none)") = name)
              IN  finishRow(name, Len(g), sqlRateLimited(g), sqlUpstreamErr(g), CountIf(g, LAMBDA e : e.hit), total)
              : name \in {NameOr(e[d], "(none)") : e \in Range(w)}}
  IN  {r \in all : Cardinality({q \in all : q.requests > r.requests}) < RowLimit}
overviewRecent(es, spec) ==
  LET s == Latest(Where(es, spec.start, spec.end, spec.filters)) IN [i \in DOMAIN s |-> s[i].ts]
\* queryWindowCountsByDimension: how many events have each name; a blank name is skipped
windowCounts(es, start, end, f, d) ==
  LET w == Where(es, start, end, f)
  IN  [n \in {e[d] : e \in Range(w)} \ {""} |-> CountIf(w, LAMBDA e : e[d] = n)]
queryOverview(spec, es) ==
  LET cur == overviewWindow(es, spec.start, spec.end, spec.filters)
  IN  newOverview(cur, overviewWindow(es, spec.prevStart, spec.start, spec.filters)) @@
      [series |-> overviewSeries(es, spec),
       rows |-> [d \in Dimensions |-> overviewRows(es, spec, d, cur.requests)],
       recent |-> overviewRecent(es, spec),
       options |-> [d \in Dimensions |-> DOMAIN windowCounts(es, spec.start, spec.end, NoFilter, d)]]
----------------------------------------------------------------------------
(* The summary over a chosen window, in SQL.                               *)

\* parseAnalyticsSummaryQuery: start and end are optional, and a default start is counted from now.
summarySpec(id, start, end, f, t) ==
  LET size == Intervals[id].size
      from == IF start = <<>> THEN Truncate(t, size) - Intervals[id].window ELSE start[1]
      to == IF end = <<>> THEN Truncate(t, size) ELSE end[1]
  IN  [valid |-> to > from, start |-> from, end |-> to, prevStart |-> from - (to - from), size |-> size, filters |-> f]

CeilOf(a, b) == (a + b - 1) \div b
BucketsWhole(first, end, size) == (end - first) \div size
Buckets(first, end, size) == CeilOf(end - first, size)
enumerateBuckets(start, end, size) ==
  LET c == Truncate(start, size)
      first == IF c < start THEN c + size ELSE c
  IN  IF end <= first THEN <<>> ELSE [i \in 1 .. Buckets(first, end, size) |-> first + (i - 1) * size]
windowAggregate(w) == [requests |-> Len(w), hits |-> CountIf(w, LAMBDA e : e.hit),
                       failed |-> CountIf(w, LAMBDA e : e.failed), limited |-> sqlRateLimited(w)]
bucketEvents(es, spec, t) ==
  SelectSeq(Where(es, spec.start, spec.end, spec.filters), LAMBDA e : Truncate(e.ts, spec.size) = t)
bucketCounts(es, spec, t, d) ==
  LET b == bucketEvents(es, spec, t)
  IN  [n \in {e[d] : e \in Range(b)} \ {""} |-> CountIf(b, LAMBDA e : e[d] = n)]

trendDelta(c, p) == IF p = 0 THEN <<0, 1>> ELSE <<c - p, p>>
lastTwoSampledBuckets(counts) ==
  LET s == SelectSeq(counts, LAMBDA n : n > 0)
  IN  IF Len(s) < 2 THEN <<>> ELSE <<s[Len(s)], s[Len(s) - 1]>>
trendDeltaWithRecentFallback(c, p, pair) ==
  IF p # 0 \/ pair = <<>> THEN trendDelta(c, p) ELSE trendDelta(pair[1], pair[2])

\* QueryContractSummary
QueryContractSummary(spec, es) ==
  LET cur == windowAggregate(Where(es, spec.start, spec.end, spec.filters))
      prev == windowAggregate(Where(es, spec.prevStart, spec.start, spec.filters))
      times == enumerateBuckets(spec.start, spec.end, spec.size)
      series == [i \in DOMAIN times |-> windowAggregate(bucketEvents(es, spec, times[i]))]
      pair == lastTwoSampledBuckets([i \in DOMAIN times |-> series[i].requests])
      now_(d) == windowCounts(es, spec.start, spec.end, spec.filters, d)
      before(d) == windowCounts(es, spec.prevStart, spec.start, spec.filters, d)
  IN  [current |-> cur, previous |-> prev,
       trend |-> trendDeltaWithRecentFallback(cur.requests, prev.requests, pair),
       names |-> [d \in Dimensions |-> [n \in DOMAIN now_(d) |->
                   [value |-> now_(d)[n],
                    trend |-> trendDelta(now_(d)[n], IF n \in DOMAIN before(d) THEN before(d)[n] ELSE 0)]]],
       times |-> times, series |-> series,
       rows |-> [i \in DOMAIN times |-> [d \in Dimensions |-> bucketCounts(es, spec, times[i], d)]]]

----------------------------------------------------------------------------
(* The store, the refresh and the handlers as steps.                       *)

NoAgg == [from |-> <<>>, of |-> [id \in DOMAIN Intervals |-> NoBuckets]]
NoPage == [step |-> "idle", then |-> <<>>, start |-> 0, end |-> 0, got |-> <<>>, cleared |-> FALSE]
QueryInit ==
  /\ kinds \in Kinds /\ log = <<>> /\ pushed = 0 /\ now = 0
  /\ refresh = [step |-> "idle", entries |-> <<>>] /\ agg = NoAgg /\ summaries = <<>>
  /\ clearing = FALSE /\ page = NoPage

\* An event's time is the edge's, so events may arrive out of order.
InsertEntries(k, t) ==
  /\ pushed < MaxEvents /\ k \in kinds /\ t \in {now, now - 2} \ {-1, -2}
  /\ log' = Append(log, At(t, k)) /\ pushed' = pushed + 1
  /\ UNCHANGED <<kinds, now, refresh, agg, summaries, clearing, page>>
Tick == now < MaxNow /\ now' = now + 1 /\ UNCHANGED <<kinds, log, pushed, refresh, agg, summaries, clearing, page>>

LastOf(s, n) == SubSeq(s, IF Len(s) > n THEN Len(s) - n + 1 ELSE 1, Len(s))
LoadRecentEntries(start, end, limit) ==
  SelectSeq(LastOf(log, limit), LAMBDA e : e.ts >= start /\ e.ts <= end)
\* reloadAggregates: the store is read; a failed read ends the refresh with the old aggregates
reloadAggregates ==
  /\ refresh.step = "idle"
  /\ refresh' = [step |-> "loaded", entries |-> LoadRecentEntries(now - History, now, LoadLimit)]
  /\ UNCHANGED <<kinds, log, pushed, now, agg, summaries, clearing, page>>
ingestEntries ==
  /\ refresh.step = "loaded"
  /\ agg' = [from |-> refresh.entries,
             of |-> [id \in DOMAIN Intervals |-> Aggregate(refresh.entries, Intervals[id].size)]]
  /\ refresh' = [step |-> "built", entries |-> <<>>]
  /\ UNCHANGED <<kinds, log, pushed, now, summaries, clearing, page>>
refreshSummaryCache ==
  /\ refresh.step = "built"
  /\ summaries' = <<[at |-> now, from |-> agg.from,
                 snaps |-> [id \in DOMAIN Intervals |-> buildSnapshot(id, agg.of[id], now)]]>>
  /\ refresh' = [step |-> "idle", entries |-> <<>>]
  /\ UNCHANGED <<kinds, log, pushed, now, agg, clearing, page>>

\* handleClear: the store first, then the caches under the lock the refresh takes only to publish
ClearStore ==
  /\ ~clearing /\ log # <<>>
  /\ log' = <<>> /\ clearing' = TRUE /\ page' = [page EXCEPT !.cleared = @ \/ page.step = "ranged"]
  /\ UNCHANGED <<kinds, pushed, now, refresh, agg, summaries>>
ClearCaches ==
  /\ clearing
  /\ clearing' = FALSE /\ summaries' = <<>> /\ agg' = NoAgg
  /\ UNCHANGED <<kinds, log, pushed, now, refresh, page>>

\* readWindow (and the store's ListEntries): LLEN, then LRANGE over positions counted from the left
ReadLength(limit, offset) ==
  LET end == Len(log) - 1 - offset
      start == end - limit + 1
  IN  /\ page.step = "idle" /\ offset < Len(log)
      /\ page' = [step |-> "ranged", then |-> log, start |-> IF start < 0 THEN 0 ELSE start, end |-> end,
                   got |-> <<>>, cleared |-> FALSE]
      /\ UNCHANGED <<kinds, log, pushed, now, refresh, agg, summaries, clearing>>
LRangeFromRight(p) == SubSeq(log, Len(log) - Len(p.then) + p.start + 1, Len(log) - Len(p.then) + p.end + 1)
LRange(p) == SubSeq(log, p.start + 1, IF p.end + 1 > Len(log) THEN Len(log) ELSE p.end + 1)
ReadRange ==
  /\ page.step = "ranged"
  /\ page' = [page EXCEPT !.step = "done", !.got = LRange(page)]
  /\ UNCHANGED <<kinds, log, pushed, now, refresh, agg, summaries, clearing>>
ReadAgain == page.step = "done" /\ page' = NoPage /\ UNCHANGED <<kinds, log, pushed, now, refresh, agg, summaries, clearing>>

QueryNext ==
  \/ \E k \in kinds, t \in {now, now - 2} : InsertEntries(k, t)
  \/ Tick \/ reloadAggregates \/ ingestEntries \/ refreshSummaryCache
  \/ ClearStore \/ ClearCaches
  \/ \E limit \in 1 .. 2, offset \in 0 .. 1 : ReadLength(limit, offset)
  \/ ReadRange \/ ReadAgain

QuerySpec == QueryInit /\ [][QueryNext]_queryVars

----------------------------------------------------------------------------
(* Properties.                                                             *)

\* Nothing is in flight.  Answers computed on request depend on the store and the clock alone, so
\* looking at them in these states is enough.
Quiet == refresh.step = "idle" /\ page.step = "idle" /\ ~clearing /\ summaries = <<>>
Sorted(a) == [a EXCEPT !.totals = SortSeq(a.totals, <)]

\* A summary served from the cache says of its window, bucket by bucket and name by name, what
\* adding up the events it was built from says (buildSnapshot over intervalAggregation, with the
\* prune of each ingest): no event of the window is lost, none counted twice.  The summary computed
\* for a filter shows of each name what grouping its events by that name does (summarizeByGroup),
\* except that the two write a blank name differently.
SnapshotAddsUp ==
  /\ Quiet => \A id \in DOMAIN Intervals, f \in Filters :
       LET end == Truncate(now, Intervals[id].size) + Intervals[id].size
           es == SelectSeq(filterEntries(log, f), LAMBDA e : e.ts >= end - Intervals[id].window /\ e.ts < end)
           snap == buildFilteredSummary(es, id, now)
       IN  /\ toSummary(snap.total).count = Len(es)
           /\ \A d \in Dimensions :
                LET by == summarizeByGroup(es, d)
                IN  \A n \in DOMAIN by \ {""} : toSummary(by[n]) = toSummary(snap.groups[d][n])
  /\ \A i \in DOMAIN summaries : \A id \in DOMAIN Intervals :
       LET c == summaries[i]
           snap == c.snaps[id]
           size == Intervals[id].size
           end == Truncate(c.at, size) + size
           shown == SelectSeq(c.from, LAMBDA e : e.ts >= end - Intervals[id].window /\ e.ts < end)
           sum(es) == Sorted(FoldLeft(add, Zero, es))
       IN  /\ Sorted(snap.total) = sum(shown)
           /\ \A j \in DOMAIN snap.series :
                snap.series[j].count = CountIf(shown, LAMBDA e : Truncate(e.ts, size) = snap.series[j].start)
           /\ Total([j \in DOMAIN snap.series |-> snap.series[j].count]) = snap.total.count
           /\ \A d \in Dimensions : \A n \in DOMAIN snap.groups[d] :
                Sorted(snap.groups[d][n]) = sum(SelectSeq(shown, LAMBDA e : NameOr(e[d], "unknown") = n))

\* The dashboard shows the same over either store: the overview aggregated in process from a
\* Redis read and the one aggregated in SQL agree on both windows, every point, row, recent
\* request and filter choice.  Two differences are known: SQL counts a blank edge name as an edge,
\* and keeps the largest rows only.  A filter selects the same events in both, but for one at its end.
StoresAgree ==
  Quiet =>
    /\ \A range \in DOMAIN Ranges, f \in Filters :
         LET spec == overviewSpec(range, f, now)
             here == buildOverview(spec, LoadRecentEntries(spec.prevStart, spec.end, LoadLimit))
             there == queryOverview(spec, log)
             Same(field) == here[field] = there[field]
             NoEdges(w) == [w EXCEPT !.edges = 0]
         IN  /\ NoEdges(here.cur) = NoEdges(there.cur) /\ NoEdges(here.prev) = NoEdges(there.prev)
             /\ (\A e \in Range(log) : e.edge # "") => Same("cur")
             /\ Same("series") /\ Same("recent") /\ Same("options")
             /\ \A d \in Dimensions :
                  /\ there.rows[d] \subseteq here.rows[d]
                  /\ Cardinality(here.rows[d]) <= RowLimit => there.rows[d] = here.rows[d]
                  /\ \A r \in here.rows[d] \ there.rows[d], s \in there.rows[d] : r.requests <= s.requests
    /\ \A f \in Filters, t \in 0 .. now :
         LET g == [f EXCEPT !.start = <<0>>, !.end = <<t>>]
         IN  SelectSeq(filterEntries(log, g), LAMBDA e : e.ts < t) = Where(log, 0, t, g)

\* The windowed summary adds up (QueryContractSummary): its series holds every event of the window
\* once, but for those before the first whole bucket of a custom start; the names of each bucket
\* and of the window account for all but blank names; the previous window is the one just before,
\* as long; and a trend is reported whenever two buckets differ and there was no traffic before.
ContractAddsUp ==
  Quiet =>
    \A id \in DOMAIN Intervals, f \in Filters, start, end \in {<<>>} \cup {<<t>> : t \in 0 .. now} :
      LET spec == summarySpec(id, start, end, f, now)
          r == QueryContractSummary(spec, log)
          w == Where(log, spec.start, spec.end, spec.filters)
          early == CountIf(w, LAMBDA e : Truncate(e.ts, spec.size) < spec.start)
          Named(es, d) == CountIf(es, LAMBDA e : e[d] # "")
          Values(g) == FoldFunctionOnSet(LAMBDA a, b : a + b, 0, g, DOMAIN g)
      IN  spec.valid =>
            /\ r.current.requests = early + Total([i \in DOMAIN r.series |-> r.series[i].requests])
            /\ start = <<>> => early = 0
            /\ \A d \in Dimensions :
                 /\ Named(w, d) = Values([n \in DOMAIN r.names[d] |-> r.names[d][n].value])
                 /\ \A i \in DOMAIN r.rows :
                      Values(r.rows[i][d]) = Named(bucketEvents(log, spec, r.times[i]), d)
            /\ r.previous.requests + r.current.requests
                 = Len(Where(log, spec.start - (spec.end - spec.start), spec.end, f))

\* A page read while events arrive is a page of the store as it was when its length was read
\* (readWindow, ListEntries: LLEN and LRANGE are two calls, and events are pushed on the right):
\* the newest page skips nothing and repeats nothing.  Only a clear in between can shorten it.
PageOfOneMoment ==
  page.step = "done" /\ ~page.cleared => page.got = SubSeq(page.then, page.start + 1, page.end + 1)
=============================================================================
