------------------------------ MODULE Metrics ------------------------------
(***************************************************************************)
(* The summaries the dashboard computes from a list of entries, newest     *)
(* first: time series, percentiles and their histogram estimate, traces,   *)
(* screens, the waterfall of a trace and its repeated queries.             *)
(* A duration of None is null; a type, family, url or trace is a number.   *)
(***************************************************************************)
EXTENDS MemoryStore

None == -1
Query == 1
Request == 2
ExceptionType == 3

Of(entries, Test(_)) == SelectSeq(entries, Test)
Sum(s, Value(_)) ==
  LET upTo[i \in 0 .. Len(s)] == IF i = 0 THEN 0 ELSE upTo[i - 1] + Value(s[i]) IN upTo[Len(s)]
Clamp(low, high, n) == Max({low, Min({high, n})})

Timed(entries) == Of(entries, LAMBDA e : e.duration # None)

\* The best n of a ranking.
Best(ranked, n) == SubSeq(ranked, 1, Min({n, Len(ranked)}))

-----------------------------------------------------------------------------
(* Time series                                                             *)

Width(start, end, count) == Max({1, Max({1, end - start}) \div count})

\* bucketTimeseries(): an entry outside the window counts in the first or last bucket.
BucketTimeseries(entries, start, end, count) ==
  LET Index(e) == Clamp(0, count - 1, (e.at - start) \div Width(start, end, count))
  IN  [i \in 0 .. count - 1 |-> Len(Of(entries, LAMBDA e : Index(e) = i))]

\* bucketTimeseriesFromCounts(): the same from the rows of countByBucket().
BucketTimeseriesFromCounts(rows, count) ==
  [i \in 0 .. count - 1 |->
     FoldSet(LAMBDA k, sum : sum + rows[k], 0,
             {k \in DOMAIN rows : Clamp(0, count - 1, k[1]) = i})]

-----------------------------------------------------------------------------
(* Latency                                                                 *)

Sorted(durations) == SortSeq(durations, LAMBDA a, b : a < b)

\* percentile() by nearest rank; q in hundredths.
Percentile(ascending, q) ==
  LET n == Len(ascending)
  IN  IF n = 0 THEN 0 ELSE ascending[Clamp(1, n, (q * n + 99) \div 100)]

LATENCY_BOUNDARIES_MS == <<1, 2, 5, 10, 25, 50, 100, 250, 500, 1000, 2500, 5000, 10000>>
\* histogramBucketIndex(): the first boundary that is not below the duration, or the last cell.
HistogramBucketIndex(duration) ==
  1 + Cardinality({i \in DOMAIN LATENCY_BOUNDARIES_MS : LATENCY_BOUNDARIES_MS[i] < duration})

\* buildHistogram(), as the cells of the durations in ascending order: the cell that holds a
\* rank is the one at its position.
BuildHistogram(durations) ==
  LET ascending == Sorted(durations)
  IN  [i \in DOMAIN ascending |-> HistogramBucketIndex(ascending[i])]

\* Mutant: the lower edge of the cell that holds the rank.
EstimateLow(cells, q) ==
  LET cell == Percentile(cells, q) IN IF cell = 1 THEN 0 ELSE LATENCY_BOUNDARIES_MS[cell - 1]

\* estimatePercentileFromHistogram(): the upper boundary of the cell that holds the rank; the
\* last cell has none and answers the last boundary.
EstimatePercentileFromHistogram(cells, q) ==
  LATENCY_BOUNDARIES_MS[Min({Percentile(cells, q), Len(LATENCY_BOUNDARIES_MS)})]

\* estimateLatencyPercentiles(): never above the longest duration.
EstimateLatency(durations, q) ==
  Min({EstimatePercentileFromHistogram(BuildHistogram(durations), q), Max(ToSet(durations))})

-----------------------------------------------------------------------------
(* Statistics of a type: summarizeStats()                                  *)

Durations(entries) == LET timed == Timed(entries) IN [i \in DOMAIN timed |-> timed[i].duration]

\* computeFamilies(): queries by family, the slowest p99 first.
ComputeFamilies(entries, top) ==
  LET Group(f) == Sorted(Durations(Of(entries, LAMBDA e : e.family = f)))
      Row(f) == [family |-> f, count |-> Len(Group(f)),
                 p50 |-> Percentile(Group(f), 50), p99 |-> Percentile(Group(f), 99)]
      Before(a, b) == \/ a.p99 > b.p99
                      \/ a.p99 = b.p99 /\ a.count > b.count
                      \/ a.p99 = b.p99 /\ a.count = b.count /\ a.family < b.family
  IN  Best(InOrder({Row(f) : f \in {e.family : e \in ToSet(entries)} \ {0}}, Before), top)

\* The outcome of a content that was left out is not known.
Outcome(e) == IF e.full THEN e.outcome ELSE "unknown"

Tally(entries, outcomes) == [o \in outcomes |-> Len(Of(entries, LAMBDA e : Outcome(e) = o))]

\* computeStatus(): what is no known class is "other".
ComputeStatus(entries) ==
  LET known == Tally(entries, {"2xx", "3xx", "4xx", "5xx"})
  IN  known @@ ("other" :> Len(entries) - FoldFunction(+, 0, known))

\* computeExceptions(): groups by family, the most frequent first, then the latest.
ComputeExceptions(entries, top) ==
  LET known == Of(entries, LAMBDA e : e.full)
      Group(f) == Of(known, LAMBDA e : e.family = f)
      Row(f) == [key |-> f, count |-> Len(Group(f)),
                 lastAt |-> Max({e.at : e \in ToSet(Group(f))})]
      Before(a, b) == \/ a.count > b.count
                      \/ a.count = b.count /\ a.lastAt > b.lastAt
                      \/ a.count = b.count /\ a.lastAt = b.lastAt /\ a.key < b.key
  IN  Best(InOrder({Row(f) : f \in {e.family : e \in ToSet(known)}}, Before), top)

-----------------------------------------------------------------------------
(* Traces and screens                                                      *)

TraceRow(entries, t) ==
  LET own == ToSet(Of(entries, LAMBDA e : e.trace = t))
      asked == {e \in own : e.type = Request /\ e.full}
  IN  [traceId |-> t, entryCount |-> Cardinality(own),
       firstAt |-> Min({e.at : e \in own}), lastAt |-> Max({e.at : e \in own}),
       total |-> FoldSet(LAMBDA e, sum : sum + e.duration, 0, {e \in own : e.duration # None}),
       root |-> {e \in asked : \A x \in asked : x.sequence <= e.sequence}]

\* summarizeTraces(): one row per trace in the order they are met, the latest first.
SummarizeTraces(entries, limit) ==
  LET met == TracesOf(entries)
      rows == StableSort([i \in DOMAIN met |-> TraceRow(entries, met[i])],
                         LAMBDA a, b : a.lastAt > b.lastAt)
  IN  SubSeq(rows, 1, Min({limit, Len(rows)}))

\* summarizeScreens(): requests by url, the most visited first.
SummarizeScreens(entries, limit) ==
  LET asked == Of(entries, LAMBDA e : e.type = Request /\ e.full)
      Visits(u) == Of(asked, LAMBDA e : e.family = u)
      Row(u) == [url |-> u, count |-> Len(Visits(u)),
                 errors |-> Len(Of(Visits(u), LAMBDA e : e.outcome \in {"4xx", "5xx"})),
                 lastAt |-> Max({e.at : e \in ToSet(Visits(u))})]
      Before(a, b) == a.count > b.count \/ (a.count = b.count /\ a.lastAt > b.lastAt)
      met == Met([i \in DOMAIN asked |-> asked[i].family])
      rows == StableSort([i \in DOMAIN met |-> Row(met[i])], Before)
  IN  SubSeq(rows, 1, Min({limit, Len(rows)}))

-----------------------------------------------------------------------------
(* Waterfall                                                               *)

Span(e) == LET d == Max({0, e.duration})
           IN  [id |-> e.sequence, start |-> e.at - d, end |-> e.at, length |-> d]

\* contains(): encloses it and is not the same interval.
Encloses(outer, inner) ==
  /\ outer.start <= inner.start /\ outer.end >= inner.end
  /\ outer.start < inner.start \/ outer.end > inner.end

\* Mutant: the order of the sweep forgets that the longer of two spans opens first.
OpensBy(a, b) == a.start < b.start \/ (a.start = b.start /\ a.id < b.id)

\* The order of the sweep: by start, the longer first, then by sequence.
OpensBefore(a, b) ==
  \/ a.start < b.start
  \/ a.start = b.start /\ a.length > b.length
  \/ a.start = b.start /\ a.length = b.length /\ a.id < b.id

\* buildWaterfall(): the sweep closes what does not contain the next span; what is left open
\* is its parent.
BuildWaterfall(entries) ==
  LET ordered == InOrder({Span(e) : e \in ToSet(entries)}, OpensBefore)
      Sweep(acc, s) ==
        LET around == {k \in DOMAIN acc.open : Encloses(acc.open[k], s)}
            open == IF around = {} THEN <<>> ELSE SubSeq(acc.open, 1, Max(around))
        IN  [open |-> Append(open, s),
             parent |-> acc.parent @@ (s :> IF open = <<>> THEN {} ELSE {Last(open)}),
             depth |-> acc.depth @@ (s :> Len(open))]
      upTo[i \in 0 .. Len(ordered)] ==
        IF i = 0 THEN [open |-> <<>>, parent |-> <<>>, depth |-> <<>>]
        ELSE Sweep(upTo[i - 1], ordered[i])
  IN  upTo[Len(ordered)]

-----------------------------------------------------------------------------
(* Repeated queries                                                        *)

Queries(entries) == Of(entries, LAMBDA e : e.type = Query /\ e.family # 0)

\* detectNPlusOne().
DetectNPlusOne(entries, threshold) ==
  LET Times(f) == Len(Of(Queries(entries), LAMBDA e : e.family = f))
      families == {e.family : e \in ToSet(Queries(entries))}
  IN  [f \in {f \in families : Times(f) >= threshold} |-> Times(f)]

\* findParent(): the last query of another family before the first of this one.
FindParent(queries, f) ==
  LET first == Min({i \in DOMAIN queries : queries[i].family = f})
      others == {i \in 1 .. first - 1 : queries[i].family # f}
  IN  IF others = {} THEN 0 ELSE queries[Max(others)].family

\* detectNPlusOnePatterns(), of the entries of a trace, oldest first.
DetectPatterns(entries, threshold) ==
  LET queries == Queries(entries)
      Group(f) == Of(queries, LAMBDA e : e.family = f)
      flagged == {f \in {e.family : e \in ToSet(queries)} : Len(Group(f)) >= threshold}
  IN  {[child |-> f, count |-> Len(Group(f)), parent |-> FindParent(queries, f),
        total |-> Sum(Timed(Group(f)), LAMBDA e : e.duration)] : f \in flagged}
-----------------------------------------------------------------------------
(* Properties                                                              *)

\* The two ways of a time series agree: bucketing a scan, and the rows the store counts,
\* for entries that are not newer than the end of the window (timeseries.ts, memory.ts).
SeriesAgree ==
  \A start \in -1 .. clock : \A count \in 1 .. 2 :
    BucketTimeseries(Since(start), start, clock, count)
      = BucketTimeseriesFromCounts(CountByBucket(start, clock, Width(start, clock, count)), count)

\* Percentiles are ordered and below the maximum, exact and estimated; an estimate is not
\* below the exact one, except beyond the last boundary of the histogram (stats.ts).
PercentilesHold ==
  LET ds == Durations(NewestFirst)
      exact == [q \in {50, 95, 99} |-> Percentile(Sorted(ds), q)]
      guess == [q \in {50, 95, 99} |-> EstimateLatency(ds, q)]
      last == LATENCY_BOUNDARIES_MS[Len(LATENCY_BOUNDARIES_MS)]
  IN  ds # <<>> =>
        /\ exact[50] <= exact[95] /\ exact[95] <= exact[99] /\ exact[99] <= Max(ToSet(ds))
        /\ guess[50] <= guess[95] /\ guess[95] <= guess[99] /\ guess[99] <= Max(ToSet(ds))
        /\ \A q \in {50, 95, 99} : exact[q] <= last => guess[q] >= exact[q]

\* In a waterfall a span has a parent exactly when an earlier one encloses it, and its parent
\* is the innermost of those, although the sweep closes spans that overlap (waterfall.ts).
WaterfallNests ==
  LET w == BuildWaterfall(NewestFirst)
      spans == DOMAIN w.parent
      Around(s) == {o \in spans : /\ o.start <= s.start /\ s.end <= o.end
                                  /\ o.end - o.start > s.end - s.start}
  IN  \A s \in spans :
        /\ w.parent[s] = {} <=> Around(s) = {}
        /\ \A p \in w.parent[s] :
             /\ p \in Around(s) /\ w.depth[s] = w.depth[p] + 1
             /\ \A o \in Around(s) : o.end - o.start >= p.end - p.start \/ ~ Encloses(p, o)

\* The two detectors of repeated queries flag the same families as often, and the parent of
\* one is the query right before its first; a screen's visits add up (n_plus_one.ts).
DetectorsAgree ==
  LET oldest == Reverse(NewestFirst)
      flat == DetectNPlusOne(oldest, 2)
      queries == Queries(oldest)
  IN  /\ {<<f, flat[f]>> : f \in DOMAIN flat}
            = {<<p.child, p.count>> : p \in DetectPatterns(oldest, 2)}
      /\ \A p \in DetectPatterns(oldest, 2) :
           p.parent # p.child /\ (p.parent = 0 <=> queries[1].family = p.child)
      /\ Sum(SummarizeScreens(oldest, MaxRecords), LAMBDA r : r.count)
            = Len(Of(oldest, LAMBDA e : e.type = Request /\ e.full))
      /\ \A limit \in 1 .. 2 : Len(CountFamilies(limit)) <= limit

\* The summaries of one list agree with each other.
SummariesAgree == SeriesAgree /\ PercentilesHold /\ WaterfallNests /\ DetectorsAgree
=============================================================================
