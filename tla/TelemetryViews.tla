--------------------------- MODULE TelemetryViews ---------------------------
(***************************************************************************)
(* What app.py derives from stored telemetry buckets: per-metric           *)
(* aggregates, retention, display downsampling, per-sensor summaries,      *)
(* totals, and the unmonitored gaps with their identifiers.                *)
(*                                                                         *)
(* A stored bucket is [start, end, count, metric]: its bounds, the number  *)
(* of samples and the aggregate of one metric, which stands for each of    *)
(* the scalars and sensors.  An average is kept as the pair sum and count, *)
(* so nothing is rounded.                                                  *)
(***************************************************************************)
EXTENDS Integers, Sequences, FiniteSets, FiniteSetsExt

CONSTANTS
    BucketSeconds,  \* TELEMETRY_BUCKET_SECONDS
    GapBuckets,     \* TELEMETRY_GAP_BUCKETS
    DaySeconds,     \* the length of a local day
    None,           \* a missing value: the null of a metric never observed
    Absent          \* the metric of a bucket whose record does not name it

ASSUME ViewConstants ==
    /\ BucketSeconds \in Nat \ {0}
    /\ GapBuckets \in Nat \ {0}
    /\ DaySeconds \in Nat \ {0}

\* TIMELINE_MIN_GAP_SECONDS, which MONITORING_DISCONTINUITY_S reuses.
MinGap == GapBuckets * BucketSeconds

-----------------------------------------------------------------------------
\* The operators named Bug... are mutants, used by no specification.

NewAgg == [count |-> 0, sum |-> 0, min |-> None, max |-> None]

\* _bucket_agg_add: a missing value contributes nothing.
Added(agg, value) ==
    IF value = None THEN agg
    ELSE [count |-> agg.count + 1,
          sum   |-> agg.sum + value,
          min   |-> IF agg.min = None \/ value < agg.min THEN value ELSE agg.min,
          max   |-> IF agg.max = None \/ value > agg.max THEN value ELSE agg.max]

\* _bucket_agg_result: None if the metric was never observed.
AggResult(agg) == IF agg.count = 0 THEN None ELSE agg

-----------------------------------------------------------------------------
\* The buckets that hold a reading of the metric.
Real(buckets) == {b \in buckets : b.metric \notin {None, Absent}}

\* Takes each bucket for one sample.
BugSummary(buckets) ==
    LET real == Real(buckets)
    IN  IF real = {} THEN None
        ELSE [count |-> Cardinality(real),
              sum   |-> MapThenSumSet(LAMBDA b : b.metric.sum, real),
              min   |-> Min({b.metric.min : b \in real}),
              max   |-> Max({b.metric.max : b \in real})]

\* The aggregate of several buckets, weighted by their counts.
Summary(buckets) ==
    LET real == Real(buckets)
    IN  IF real = {} THEN None
        ELSE [count |-> MapThenSumSet(LAMBDA b : b.metric.count, real),
              sum   |-> MapThenSumSet(LAMBDA b : b.metric.sum, real),
              min   |-> Min({b.metric.min : b \in real}),
              max   |-> Max({b.metric.max : b \in real})]

\* read_sensor_summaries over [from, to).
SensorSummary(buckets, from, to) ==
    Summary({b \in buckets : from <= b.start /\ b.start < to})

\* prune_telemetry_buckets and the DELETE of prune_telemetry_history: a bucket
\* without an end is kept.
Unexpired(buckets, retention, now) ==
    {b \in buckets : b.end = None \/ b.end >= now - retention}

\* A bucket without an end counts as one bucket long.
SpanEnd(b) == IF b.end = None THEN b.start + BucketSeconds ELSE b.end

-----------------------------------------------------------------------------
\* downsample_series: slots of a fixed length anchored at the start of the range.
Slot(b, group, from) == (b.start - from) \div (group * BucketSeconds)

SlotBuckets(buckets, group, from, slot) == {b \in buckets : Slot(b, group, from) = slot}

SlotEnd(chunk) == Max({IF b.end = None THEN b.start ELSE b.end : b \in chunk})

\* One point of the chart.  The line breaks before a point that lies too far
\* behind the point drawn before it.
Point(buckets, group, from, slot) ==
    LET chunk   == SlotBuckets(buckets, group, from, slot)
        earlier == {Slot(b, group, from) : b \in buckets} \cap (0 .. slot - 1)
        start   == Min({b.start : b \in chunk})
    IN  [start  |-> start,
         end    |-> SlotEnd(chunk),
         metric |-> Summary(chunk),
         gapBefore |->
            /\ earlier # {}
            /\ start - SlotEnd(SlotBuckets(buckets, group, from, Max(earlier))) > MinGap]

Downsampled(buckets, group, from) ==
    {Point(buckets, group, from, s) : s \in {Slot(b, group, from) : b \in buckets}}

\* Mutant, used by no specification: the line breaks at missing readings only.
BugJoined(points, p, q) ==
    /\ p.start < q.start /\ p.metric # None
    /\ \A r \in points : p.start < r.start /\ r.start <= q.start => r.metric # None

\* draw_line: are p and q on one line?  It ends at a point without a reading and before one
\* that lies behind a gap.
Joined(points, p, q) ==
    /\ p.start < q.start /\ p.metric # None
    /\ \A r \in points :
           p.start < r.start /\ r.start <= q.start => r.metric # None /\ ~r.gapBefore

\* compute_totals_summary: a cumulative counter moves from min to max within a
\* bucket; the total is unavailable if no bucket names the metric.
CounterTotal(buckets) ==
    IF \A b \in buckets : b.metric = Absent THEN None
    ELSE MapThenSumSet(LAMBDA b : b.metric.max - b.metric.min, Real(buckets))

-----------------------------------------------------------------------------
\* Sorted by start, then by end.
Precedes(b, c) == b.start < c.start \/ (b.start = c.start /\ SpanEnd(b) < SpanEnd(c))

\* The walk's cursor when it comes to b.
Cursor(buckets, b, from) ==
    Max({from} \cup {SpanEnd(c) : c \in {d \in buckets : Precedes(d, b)}})

\* _gap_spans: stretches between buckets, before the first and after the last.
GapSpans(buckets, from, to) ==
    LET inner == {[from |-> Cursor(buckets, b, from), to |-> b.start] : b \in buckets}
        last  == [from |-> Max({from} \cup {SpanEnd(b) : b \in buckets}), to |-> to]
    IN  {g \in inner \cup {last} : g.to - g.from >= MinGap}

DayStart(t) == (t \div DaySeconds) * DaySeconds

\* coverage_gap_events_for_day: the gaps of one day, each with its rank.
DayGaps(buckets, day) ==
    LET of == {b \in buckets : day <= b.start /\ b.start < day + DaySeconds}
        gaps == GapSpans(of, day, day + DaySeconds)
    IN  {[from |-> g.from, to |-> g.to, day |-> day,
          rank |-> Cardinality({h \in gaps : h.from <= g.from})] : g \in gaps}

\* timeline_gap_events: the gaps of a window, each with the identifier of the
\* gap of its first day that contains it, if there is one.
GapId(stored, gap) ==
    LET of == {g \in DayGaps(stored, DayStart(gap.from)) :
                    g.from <= gap.from /\ g.to >= gap.to}
    IN  IF of = {} THEN None ELSE (CHOOSE g \in of : TRUE).rank

TimelineGaps(stored, from, to) ==
    LET window == {b \in stored : b.start >= from}
    IN  {[from |-> g.from, to |-> g.to, id |-> GapId(stored, g)] :
            g \in GapSpans(window, from, to)}
=============================================================================
