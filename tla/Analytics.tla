----------------------------- MODULE Analytics -----------------------------
(***************************************************************************)
(* What app.py concludes from the recorded sessions, incidents and         *)
(* telemetry: baselines, anomalies, diagnostics, health scores, trends,    *)
(* recommendations, the maintenance outlook, the response to fan speed     *)
(* and the before and after of a marked change.                            *)
(*                                                                         *)
(* A session is [id, workload, from, to, cpu, gpu, network, zones,         *)
(* incidents, worst]: each block is a record of averages, None where       *)
(* missing, and zones gives the percentage of the session a component      *)
(* spent in a zone.  A bucket is [start, end, temp, hotspot, load, fan]:   *)
(* the averages of a minute, of which processor and GPU have one each.     *)
(* Times are of any unit, UnitsPerDay of it a day.                         *)
(*                                                                         *)
(* Nothing is rounded: a mean is a fraction [num, den], a variance and a   *)
(* z-score are compared by cross multiplication.                           *)
(***************************************************************************)
EXTENDS Values, Integers, FiniteSets, FiniteSetsExt, Functions

CONSTANTS
    MinSamples,       \* BASELINE_MIN_SESSIONS and TREND_MIN_SAMPLES
    Generous,         \* TREND_GENEROUS_SAMPLES
    UnitsPerDay,
    TrendSpan,        \* TREND_MONTH_LOOKBACK_DAYS, in units
    WeekSpan,         \* TREND_WOW_LOOKBACK_DAYS, in units
    HistorySpan,      \* EXPERIMENT_MAX_HISTORY_DAYS, in units
    WindowSpan,       \* EXPERIMENT_WINDOW_DAYS, in units
    MinIdle,          \* BASELINE_MIN_IDLE_BUCKETS
    MinOccurrences,   \* RECOMMENDATION_MIN_OCCURRENCES
    ManyOccurrences,  \* RECOMMENDATION_GENEROUS_OCCURRENCES
    MinPerBin,        \* FAN_RESPONSE_MIN_BUCKETS_PER_BIN
    Floors,           \* the floors of the zones a resting temperature may cross next
    EfficiencyScale   \* the resolution of degrees per watt

ASSUME AnalyticsConstants ==
    /\ {MinSamples, UnitsPerDay, TrendSpan, WeekSpan, HistorySpan, WindowSpan, MinIdle,
        MinOccurrences, ManyOccurrences, MinPerBin, EfficiencyScale} \subseteq Nat \ {0}
    /\ Generous \in Nat

\* What the analyses find; what is missing is none of it.
Statistics == [count : Nat \ {0}, sum : Int, squares : Int, established : BOOLEAN]
Fractions == [num : Int, den : Int]
Anomalies == [delta : Fractions, unusual : BOOLEAN, strong : BOOLEAN]
Directions == {"STABLE", "WORSENING", "IMPROVING"}
Confidences == {"LOW", "MEDIUM", "HIGH"}
Trends == [older : Statistics, recent : Statistics, delta : Fractions,
           direction : Directions, confidence : Confidences]
Verdicts == [trend : Trends, corroborated : BOOLEAN]

ASSUME NoneIsApart ==
    None \notin Int \cup Directions \cup Confidences \cup Statistics \cup Fractions
                 \cup Anomalies \cup Trends \cup Verdicts

-----------------------------------------------------------------------------
\* The statistics all analyses share.

Exactly(n) == [num |-> n, den |-> 1]
Less(x, y) == x.num * y.den < y.num * x.den
Difference(x, y) == [num |-> x.num * y.den - y.num * x.den, den |-> x.den * y.den]
Abs(n) == IF n < 0 THEN -n ELSE n

\* _stat_summary of the values f: what is missing does not count.
Stat(f, least) ==
    LET real == {s \in DOMAIN f : f[s] # None}
    IN  IF real = {} THEN None
        ELSE [count       |-> Cardinality(real),
              sum         |-> MapThenSumSet(LAMBDA s : f[s], real),
              squares     |-> MapThenSumSet(LAMBDA s : f[s] * f[s], real),
              established |-> Cardinality(real) >= least]

Mean(stat) == [num |-> stat.sum, den |-> stat.count]

\* count * (count - 1) times the sample variance, and whether there is one above zero.
Spread(stat) == stat.count * stat.squares - stat.sum * stat.sum
Varies(stat) == stat.count > 1 /\ Spread(stat) > 0

\* abs(z_score) >= k.
Beyond(delta, stat, k) ==
    /\ Varies(stat)
    /\ delta.num * delta.num * stat.count * (stat.count - 1)
          >= k * k * Spread(stat) * delta.den * delta.den

\* evaluate_anomaly.  A baseline without variance falls back on a least difference,
\* where the unit has one.
Judged(delta, stat, least) ==
    [delta   |-> delta,
     unusual |-> IF Varies(stat) THEN Beyond(delta, stat, 2)
                 ELSE least # None /\ Abs(delta.num) >= least * delta.den,
     strong  |-> Beyond(delta, stat, 3)]

Anomaly(value, stat, least) ==
    IF value = None \/ stat = None THEN None
    ELSE IF ~stat.established THEN None
    ELSE Judged(Difference(value, Mean(stat)), stat, least)

Unusual(anomaly) == anomaly # None /\ anomaly.unusual
UnusuallyHigh(anomaly) == Unusual(anomaly) /\ anomaly.delta.num > 0

\* _diagnostic_confidence.
DiagnosticConfidence(anomaly, corroborated) ==
    IF anomaly.strong /\ corroborated THEN "HIGH" ELSE "MEDIUM"

\* _trend_confidence.
TrendConfidence(strong, older, recent) ==
    LET thin == Min({older, recent}) < Generous
    IN  IF strong THEN (IF thin THEN "MEDIUM" ELSE "HIGH")
        ELSE (IF thin THEN "LOW" ELSE "MEDIUM")

\* compare_period_values.
Shift(baseline, later, anomaly, higherIsWorse) ==
    [older      |-> baseline,
     recent     |-> later,
     delta      |-> anomaly.delta,
     direction  |-> IF ~anomaly.unusual THEN "STABLE"
                    ELSE IF (anomaly.delta.num > 0) = higherIsWorse
                    THEN "WORSENING" ELSE "IMPROVING",
     confidence |-> TrendConfidence(anomaly.strong, baseline.count, later.count)]

Compared(baseline, later, least, higherIsWorse) ==
    IF baseline = None \/ later = None THEN None
    ELSE IF ~baseline.established \/ ~later.established THEN None
    ELSE Shift(baseline, later, Anomaly(Mean(later), baseline, least), higherIsWorse)

Trend(older, recent, least, higherIsWorse, samples) ==
    Compared(Stat(older, samples), Stat(recent, samples), least, higherIsWorse)

Downgraded(confidence) ==
    CASE confidence = "HIGH" -> "MEDIUM" [] confidence \in {"MEDIUM", "LOW"} -> "LOW"

-----------------------------------------------------------------------------
\* The analyses.

\* ANOMALY_MIN_ABS_DELTA.
LeastDegrees == 3
LeastWatts == 15
LeastMbps == 5

\* session_thermal_efficiency; a power below one watt is none.
Efficiency(temp, power) ==
    IF temp = None \/ power = None THEN None
    ELSE IF power < 1 THEN None ELSE (temp * EfficiencyScale) \div power

\* BASELINE_SESSION_METRICS, of which these stand for the rest.
Metrics == {"cpu.temp", "cpu.power", "gpu.core", "gpu.hotspot", "gpu.power", "network"}

\* Their values, and those of the two metrics made of others.
Measured(metric, s) ==
    CASE metric = "cpu.temp"    -> s.cpu.temp
      [] metric = "cpu.power"   -> s.cpu.power
      [] metric = "gpu.core"    -> s.gpu.core
      [] metric = "gpu.hotspot" -> s.gpu.hotspot
      [] metric = "gpu.power"   -> s.gpu.power
      [] metric = "network"     -> s.network
      [] metric = "delta"       -> IF s.gpu.hotspot = None \/ s.gpu.core = None THEN None
                                   ELSE s.gpu.hotspot - s.gpu.core
      [] metric = "efficiency"  -> Efficiency(s.gpu.hotspot, s.gpu.power)

\* ANOMALY_MIN_ABS_DELTA of its unit; degrees per watt have none.
Least(metric) ==
    CASE metric \in {"cpu.temp", "gpu.core", "gpu.hotspot", "delta"} -> LeastDegrees
      [] metric \in {"cpu.power", "gpu.power"} -> LeastWatts
      [] metric = "network"    -> LeastMbps
      [] metric = "efficiency" -> None

ValuesOf(metric, sessions) == [s \in sessions |-> Measured(metric, s)]

Workload(sessions, w) == {s \in sessions : s.workload = w}
Workloads(sessions) == {s.workload : s \in sessions}

\* overlapping_sessions and overlapping_incidents: who touches an end counts.
Touching(records, from, to) == {r \in records : r.from <= to /\ r.to >= from}

-----------------------------------------------------------------------------
\* Anomalies of one session against others of its workload.

AgainstOthers(s, others, metric) ==
    LET value == Measured(metric, s)
    IN  Anomaly(IF value = None THEN None ELSE Exactly(value),
                Stat(ValuesOf(metric, others), MinSamples), Least(metric))

\* evaluate_session_anomalies: the metrics that are unusual, either way.
UnusualMetrics(s, others) ==
    {m \in Metrics : Unusual(AgainstOthers(s, others, m))}

\* count_anomalous_sessions: None if there are too few to tell.
CountAnomalous(sessions) ==
    IF Cardinality(sessions) < MinSamples + 1 THEN None
    ELSE Cardinality({s \in sessions : UnusualMetrics(s, sessions \ {s}) # {}})

\* diagnose_gpu_cooling_pattern.
GpuCoolingPattern(delta, power) ==
    IF ~UnusuallyHigh(delta) THEN {}
    ELSE {[pattern    |-> "hotspot",
           confidence |-> DiagnosticConfidence(delta, power # None /\ ~power.unusual)]}

\* diagnose_temp_vs_power_pattern: hot without power that is unusual in any way.
TempVsPower(part, temp, power) ==
    IF ~UnusuallyHigh(temp) \/ power = None \/ Unusual(power) THEN {}
    ELSE {[pattern |-> part, confidence |-> DiagnosticConfidence(temp, TRUE)]}

\* run_session_diagnostics.
Diagnoses(s, others) ==
    LET Against(metric) == AgainstOthers(s, others, metric)
    IN  GpuCoolingPattern(Against("delta"), Against("gpu.power"))
          \cup TempVsPower("cpu", Against("cpu.temp"), Against("cpu.power"))
          \cup TempVsPower("gpu", Against("gpu.core"), Against("gpu.power"))

Before(s, t) == s.from < t.from \/ (s.from = t.from /\ s.id < t.id)

\* diagnose_session_trend: the later half of the values against the earlier.
SessionTrend(sessions, metric) ==
    LET valued == {s \in sessions : Measured(metric, s) # None}
        older  == {s \in valued : Cardinality({t \in valued : Before(t, s)})
                                     < Cardinality(valued) \div 2}
        recent == valued \ older
        change == IF recent = {} THEN None
                  ELSE Anomaly(Mean(Stat(ValuesOf(metric, recent), 1)),
                               Stat(ValuesOf(metric, older), MinSamples), Least(metric))
    IN  IF Cardinality(older) < MinSamples \/ ~Unusual(change) THEN None
        ELSE IF change.delta.num > 0 THEN "higher" ELSE "lower"

-----------------------------------------------------------------------------
\* Health scores, in whole points: the share of the zones is rounded down to them.

ZoneWeight(zone) == CASE zone = "YELLOW" -> 8 [] zone = "ORANGE" -> 20 [] zone = "RED" -> 35

IncidentWeight(zone) ==
    CASE zone = "YELLOW" -> 2 [] zone = "ORANGE" -> 5 [] zone = "RED" -> 10 [] OTHER -> 0

ZonePoints(s) ==
    MapThenSumSet(LAMBDA z : z.percent * ZoneWeight(z.zone), s.zones) \div 100

PointsFor(findings) ==
    4 * Cardinality(findings) + 4 * Cardinality({f \in findings : f.confidence = "HIGH"})

\* compute_session_health_score of s among its peers, s itself left out.
HealthScore(s, peers) ==
    LET lost == ZonePoints(s)
                  + IncidentWeight(s.worst) * s.incidents
                  + 3 * Cardinality(UnusualMetrics(s, peers \ {s}) \ {"network"})
                  + PointsFor(Diagnoses(s, peers \ {s}))
    IN  IF lost > 100 THEN 0 ELSE 100 - lost

\* _session_health_scores_by_id: each among the sessions of its own workload.
ScoreIn(sessions, s) == HealthScore(s, Workload(sessions, s.workload))

-----------------------------------------------------------------------------
\* Trends between two adjacent windows of the same length.

\* calendar_window_halves.
Halves(span, now) ==
    [from |-> now - span, middle |-> now - span \div 2, to |-> now]

\* compute_workload_period_trend.
Windowed(sessions, w, metric) ==
    Trend(ValuesOf(metric, Touching(sessions, w.from, w.middle)),
          ValuesOf(metric, Touching(sessions, w.middle, w.to)), Least(metric), TRUE, MinSamples)

\* compute_thermal_efficiency_period_trend.
EfficiencyTrend(own, w) == Windowed(own, w, "efficiency")

\* compute_hotspot_core_delta_period_trend.
DeltaTrend(own, w) == Windowed(own, w, "delta")

\* compute_health_score_period_trend: one score of each session, whichever side.
ScoreTrend(score, w) ==
    Trend(Restrict(score, Touching(DOMAIN score, w.from, w.middle)),
          Restrict(score, Touching(DOMAIN score, w.middle, w.to)), None, FALSE, MinSamples)

HealthScores(sessions) == [s \in sessions |-> ScoreIn(sessions, s)]

HealthTrend(sessions, w) == ScoreTrend(HealthScores(Touching(sessions, w.from, w.to)), w)

\* Mutant, used by no specification: a bucket that only begins at rest is idle.
BugIdleBuckets(buckets, sessions) ==
    {b \in buckets : \A s \in sessions : b.start >= s.to \/ b.start <= s.from}

\* filter_idle_buckets: a bucket without an end has no length.
IdleBuckets(buckets, sessions) ==
    {b \in buckets : LET end == IF b.end = None THEN b.start ELSE b.end IN
                        \A s \in sessions : b.start >= s.to \/ end <= s.from}

\* compute_idle_baseline of one metric.
IdleBaseline(buckets, sessions, metric) ==
    Stat([b \in IdleBuckets(buckets, sessions) |-> b[metric]], MinIdle)

\* diagnose_cpu_cooling_ceiling: the confidence that a processor in this zone, in a case of
\* this temperature, is badly cooled; None if it is cool or the case is warm too.
CpuCeiling(zone, case, baseline) ==
    LET system == Anomaly(IF case = None THEN None ELSE Exactly(case), baseline, LeastDegrees)
    IN  IF zone \notin {"ORANGE", "RED"} \/ UnusuallyHigh(system) THEN None
        ELSE IF zone = "RED" /\ system # None /\ ~Unusual(system) THEN "HIGH" ELSE "MEDIUM"

\* diagnose_gpu_cooling_ceiling: the same of the zone of the hotspot.
GpuCeiling(zone, case, baseline) == CpuCeiling(zone, case, baseline)

Starting(buckets, from, to) == {b \in buckets : from <= b.start /\ b.start < to}

\* compute_idle_metric_period_trend.
IdleTrend(buckets, sessions, w, metric) ==
    LET idle == IdleBuckets(buckets, Touching(sessions, w.from, w.to))
        ValuesIn(from, to) == [b \in Starting(idle, from, to) |-> b[metric]]
    IN  Trend(ValuesIn(w.from, w.middle), ValuesIn(w.middle, w.to),
              LeastDegrees, TRUE, MinIdle)

\* compute_coverage of buckets one unit long: at least TREND_MIN_COVERAGE_PCT of them.
Watched(buckets, from, to) ==
    100 * Cardinality(Starting(buckets, from, to)) >= 40 * Max({1, to - from})

\* compute_incident_frequency_trend.
IncidentTrend(incidents, buckets, w) ==
    LET older  == Cardinality(Touching(incidents, w.from, w.middle))
        recent == Cardinality(Touching(incidents, w.middle, w.to))
    IN  IF ~Watched(buckets, w.from, w.middle) \/ ~Watched(buckets, w.middle, w.to) THEN None
        ELSE IF recent = older THEN "STABLE"
        ELSE IF recent > older THEN "WORSENING" ELSE "IMPROVING"

\* compute_week_over_week_report: the trends of the n workloads with most sessions in the
\* recent half, ties in the order of their first, and of the machine.
RecentSessions(sessions, a, w) ==
    Cardinality(Touching(Workload(sessions, a), w.middle, w.to))

FirstOf(sessions, a) == Min({s.id : s \in Workload(sessions, a)})

Ahead(sessions, a, b, w) ==
    \/ RecentSessions(sessions, a, w) > RecentSessions(sessions, b, w)
    \/ /\ RecentSessions(sessions, a, w) = RecentSessions(sessions, b, w)
       /\ FirstOf(sessions, a) < FirstOf(sessions, b)

Busiest(sessions, n, w) ==
    {a \in Workloads(sessions) :
        /\ RecentSessions(sessions, a, w) > 0
        /\ Cardinality({b \in Workloads(sessions) : Ahead(sessions, b, a, w)}) < n}

WeekOverWeek(sessions, buckets, incidents, n, now) ==
    LET w == Halves(WeekSpan, now)
    IN  [workloads |-> {[workload |-> a,
                         cpu |-> Windowed(Workload(sessions, a), w, "cpu.temp"),
                         gpu |-> Windowed(Workload(sessions, a), w, "gpu.hotspot")] :
                            a \in Busiest(sessions, n, w)},
         idle     |-> IdleTrend(buckets, sessions, w, "temp"),
         critical |-> IncidentTrend({i \in incidents : i.worst = "RED"}, buckets, w),
         health   |-> HealthTrend(sessions, w)]

\* compute_workload_cooling_trend_report: power that rose too costs a tier.
CoolingOf(hotspot, power) ==
    IF hotspot = None THEN [direction |-> "STABLE", confidence |-> None]
    ELSE [direction  |-> hotspot.direction,
          confidence |-> IF hotspot.direction = "STABLE" THEN None
                         ELSE IF power # None /\ power.direction = "WORSENING"
                         THEN Downgraded(hotspot.confidence)
                         ELSE hotspot.confidence]

CoolingReport(sessions, workload, now) ==
    LET own == Workload(sessions, workload)
        w   == Halves(TrendSpan, now)
    IN  CoolingOf(Windowed(own, w, "gpu.hotspot"), Windowed(own, w, "gpu.power"))

-----------------------------------------------------------------------------
\* Recommendations and projections.

\* recommend_gpu_cooling.
RecommendsGpu(sessions, workload, now) ==
    CoolingReport(sessions, workload, now) \in
        [direction : {"WORSENING"}, confidence : {"MEDIUM", "HIGH"}]

\* sessions_at_zone_ceiling of the processor, for a tenth of the session.
AtCeiling(sessions) ==
    {s \in sessions :
        MapThenSumSet(LAMBDA z : z.percent,
            {z \in s.zones : z.component = "cpu" /\ z.zone \in {"ORANGE", "RED"}}) >= 10}

\* recommend_cpu_cooling: None, or its confidence.
RecommendsCpu(sessions, boardModerate) ==
    LET occurrences == Cardinality(AtCeiling(sessions))
    IN  IF occurrences < MinOccurrences THEN None
        ELSE IF occurrences >= ManyOccurrences \/ boardModerate THEN "MEDIUM" ELSE "LOW"

NoAction == [about |-> "nothing", confidence |-> None]

\* compute_recommendations: what its rules find, or that there is nothing to do.
Recommendations(sessions, boardModerate, now) ==
    LET gpu == {[about |-> a, confidence |-> CoolingReport(sessions, a, now).confidence] :
                    a \in {x \in Workloads(sessions) : RecommendsGpu(sessions, x, now)}}
        cpu == {[about |-> "cpu", confidence |-> c] : c \in {RecommendsCpu(sessions, boardModerate)} \ {None}}
    IN  IF gpu \cup cpu = {} THEN {NoAction} ELSE gpu \cup cpu

\* project_threshold_horizon over TrendSpan: the next floor, if the trend reaches it
\* within three times the window; the rate is the shift between the middles of two halves.
Projection(trend) ==
    LET level == Mean(trend.recent)
        above == {f \in Floors : Less(level, Exactly(f))}
        gap   == Difference(Exactly(Min(above)), level)
    IN  IF trend = None THEN None
        ELSE IF \/ trend.direction # "WORSENING" \/ trend.confidence = "LOW" \/ above = {}
                \/ 200 * UnitsPerDay * trend.delta.num < TrendSpan * trend.delta.den
        THEN None
        ELSE [zone |-> Min(above),
              projected |-> gap.num * trend.delta.den <= 6 * trend.delta.num * gap.den]

\* compute_maintenance_outlook: of each resting temperature a projection or the reason
\* why there is none.
Outlook(buckets, sessions, now) ==
    [m \in {"temp", "hotspot"} |->
        LET trend      == IdleTrend(buckets, sessions, Halves(TrendSpan, now), m)
            projection == Projection(trend)
        IN  [projection |-> projection,
             reason |-> IF trend = None THEN "insufficient_data"
                        ELSE IF projection = None THEN "no_established_worsening_trend"
                        ELSE None]]

\* compute_fan_cooling_response: of one load, the fan speeds with enough buckets on
\* two days at least.
Bin(buckets, load, fan) == {b \in buckets : b.load = load /\ b.fan = fan /\ b.temp # None}

Qualifying(buckets, load) ==
    {fan \in {b.fan : b \in buckets} \ {None} :
        LET bin == Bin(buckets, load, fan)
        IN  /\ Cardinality(bin) >= MinPerBin
            /\ Cardinality({b.start \div UnitsPerDay : b \in bin}) >= 2}

BinMean(buckets, load, fan) == Mean(Stat([b \in Bin(buckets, load, fan) |-> b.temp], 1))

\* The first load among those with most speeds, and its change from lowest to highest.
FanResponse(buckets) ==
    LET loads == {b.load : b \in buckets} \ {None}
        most  == Max({0} \cup {Cardinality(Qualifying(buckets, l)) : l \in loads})
        load  == CHOOSE l \in loads : Cardinality(Qualifying(buckets, l)) = most
        speeds == Qualifying(buckets, load)
    IN  IF most < 2 THEN None
        ELSE [load |-> load, lowest |-> Min(speeds), highest |-> Max(speeds),
              change |-> Difference(BinMean(buckets, load, Max(speeds)),
                                    BinMean(buckets, load, Min(speeds)))]

-----------------------------------------------------------------------------
\* Before and after a marked change.

\* experiment_window_bounds: two windows of one length, None where a day on either side
\* is not there.
ChangeWindow(at, now) ==
    LET elapsed == now - at
        stored  == at - (now - HistorySpan)
        length  == Min({elapsed, stored, WindowSpan})
    IN  IF elapsed < UnitsPerDay \/ stored < UnitsPerDay THEN None
        ELSE [from |-> at - length, middle |-> at, to |-> at + length]

\* overlapping_experiments.
Confounds(markers, marker, w) ==
    {m \in markers : m.id # marker.id /\ w.from <= m.at /\ m.at <= w.to}

\* The trend of one workload for the component of the marker, and of its power.
ChangeTrend(marker, own, w) ==
    Windowed(own, w, IF marker.component = "cpu" THEN "cpu.temp" ELSE "gpu.hotspot")

ChangePower(marker, own, w) ==
    Windowed(own, w, IF marker.component = "cpu" THEN "cpu.power" ELSE "gpu.power")

SessionsBeside(own, w) ==
    Cardinality(Touching(own, w.from, w.middle)) + Cardinality(Touching(own, w.middle, w.to))

\* _experiment_verdict: the workload with most sessions among those with a trend, else
\* the resting temperature of its component, corroborated by that of the other.
MostSessions(candidates, sessions, w) ==
    CHOOSE x \in candidates : \A y \in candidates :
        SessionsBeside(Workload(sessions, x), w) >= SessionsBeside(Workload(sessions, y), w)

BusyVerdict(temp, power) ==
    [trend |-> temp,
     corroborated |-> \/ power = None \/ temp.direction = "STABLE"
                      \/ power.direction # temp.direction]

IdleVerdict(cpu, gpu, own) ==
    IF own = None THEN None
    ELSE [trend |-> own,
          corroborated |-> cpu # None /\ gpu # None /\ cpu.direction = gpu.direction]

WorkloadVerdict(marker, own, w) ==
    BusyVerdict(ChangeTrend(marker, own, w), ChangePower(marker, own, w))

\* compute_experiment_idle_trend, which mirrors that of the calendar.
ChangeRest(buckets, sessions, w, metric) == IdleTrend(buckets, sessions, w, metric)

\* compute_experiment_health_trend: scored over both windows, None without any session.
ChangeHealth(sessions, w) ==
    IF Touching(sessions, w.from, w.to) = {} THEN None ELSE HealthTrend(sessions, w)

RestVerdict(marker, sessions, buckets, w) ==
    LET cpu == ChangeRest(buckets, sessions, w, "temp")
        gpu == ChangeRest(buckets, sessions, w, "hotspot")
    IN  IdleVerdict(cpu, gpu, IF marker.component = "gpu" THEN gpu ELSE cpu)

ChangeVerdict(marker, sessions, buckets, w) ==
    LET trended == {x \in Workloads(sessions) :
                        marker.component # "system"
                        /\ ChangeTrend(marker, Workload(sessions, x), w) # None}
    IN  IF trended # {}
        THEN WorkloadVerdict(marker, Workload(sessions, MostSessions(trended, sessions, w)), w)
        ELSE RestVerdict(marker, sessions, buckets, w)

NoVerdict == [direction |-> None, confidence |-> None]

\* What is corroborated keeps its confidence, and what is confounded has little.
Concluded(verdict, confounded) ==
    IF verdict = None THEN NoVerdict
    ELSE [direction  |-> verdict.trend.direction,
          confidence |-> IF confounded THEN "LOW"
                         ELSE IF verdict.corroborated THEN verdict.trend.confidence
                         ELSE Downgraded(verdict.trend.confidence)]

\* compute_experiment_report.
ChangeReport(marker, sessions, buckets, markers, now) ==
    LET w == ChangeWindow(marker.at, now)
    IN  IF w = None THEN NoVerdict
        ELSE Concluded(ChangeVerdict(marker, sessions, buckets, w),
                       Confounds(markers, marker, w) # {})
=============================================================================
