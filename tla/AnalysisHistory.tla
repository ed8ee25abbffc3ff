-------------------------- MODULE AnalysisHistory --------------------------
(***************************************************************************)
(* The history the analyses look at, as it grows: units of time at rest,   *)
(* each a telemetry bucket if it was watched, and workload sessions of one *)
(* unit, hot ones with an incident.  And what the analyses of app.py say   *)
(* of it, side by side.                                                    *)
(***************************************************************************)
EXTENDS Analytics

CONSTANTS
    Apps,       \* workloads
    Profiles,   \* what a session of each may have measured
    Courses,    \* pairs of the resting temperature of each unit, None where nothing was
                \* recorded, and the set of changes the user marks
    LastUnit,   \* bound on the time
    MaxTurns    \* bound on how often a unit differs from the one before it

\* What a session may have measured.  The scale resolves the degrees per watt of every
\* power, as the program does not round them.
IsProfile(p) ==
    /\ {p.cpu.temp, p.cpu.power, p.gpu.core, p.gpu.hotspot, p.gpu.power, p.network}
          \subseteq Int \cup {None}
    /\ p.gpu.power # None /\ p.gpu.power > 0 =>
           EfficiencyScale = p.gpu.power * (EfficiencyScale \div p.gpu.power)
    /\ IsFiniteSet(p.zones)
    /\ \A z \in p.zones : z.zone \in {"YELLOW", "ORANGE", "RED"} /\ z.percent \in 0 .. 100
    /\ p.incidents \in Nat

\* No workload has the name of another subject of a recommendation, and one session is
\* neither a baseline nor a pattern.
ASSUME HistoryConstants ==
    /\ LastUnit \in Nat /\ MaxTurns \in Nat
    /\ {"cpu", "nothing"} \cap Apps = {}
    /\ \A a \in Apps : \A p \in Profiles[a] : IsProfile(p)
    /\ \A c \in Courses : /\ c.resting \in [0 .. LastUnit - 1 -> Int \cup {None}]
                          /\ \A m \in c.changes : m.at \in Nat
    /\ MinSamples > 1 /\ MinOccurrences > 1

VARIABLES
    unit,      \* the time
    recorded,  \* the completed sessions
    resting,   \* the resting temperatures of this behaviour
    planned    \* the changes of this behaviour

historyVars == <<unit, recorded, resting, planned>>

HistoryInit ==
    /\ unit = 0
    /\ recorded = {}
    /\ \E c \in Courses : resting = c.resting /\ planned = c.changes

\* What happened in unit u.
At(u) == {[workload |-> s.workload, gpu |-> s.gpu, cpu |-> s.cpu, network |-> s.network] :
              s \in {r \in recorded : r.from = u}}

Turns == Cardinality({u \in 1 .. unit - 1 : At(u) # At(u - 1)})

Rest ==
    /\ unit < LastUnit
    /\ Turns <= MaxTurns
    /\ unit' = unit + 1
    /\ UNCHANGED <<recorded, resting, planned>>

SessionEnds(app, profile) ==
    /\ unit < LastUnit
    /\ Turns <= MaxTurns
    /\ recorded' = recorded \cup
           {[id |-> unit, workload |-> app, from |-> unit, to |-> unit + 1,
             cpu |-> profile.cpu, gpu |-> profile.gpu, network |-> profile.network,
             zones |-> profile.zones, incidents |-> profile.incidents, worst |-> profile.worst]}
    /\ unit' = unit + 1
    /\ UNCHANGED <<resting, planned>>

HistoryNext ==
    \/ Rest
    \/ \E a \in Apps : \E p \in Profiles[a] : SessionEnds(a, p)

-----------------------------------------------------------------------------
Markers == {m \in planned : m.at <= unit}

IncidentsSoFar == {s \in recorded : s.incidents > 0}

BusyAt(u) == \E s \in recorded : s.from = u

\* A busy unit is hot, and runs the fan fast.
TelemetryUpTo(busyTemp) ==
    {[start |-> u, end |-> u + 1,
      temp    |-> IF BusyAt(u) THEN busyTemp ELSE resting[u],
      hotspot |-> IF BusyAt(u) THEN busyTemp ELSE resting[u] + 10,
      load    |-> 0,
      fan     |-> IF BusyAt(u) THEN 2 ELSE 1] :
        u \in {v \in 0 .. unit - 1 : resting[v] # None}}

Window == Halves(TrendSpan, unit)

Week == Halves(WeekSpan, unit)

Digest(sessions, incidents) == WeekOverWeek(sessions, TelemetryUpTo(80), incidents, 1, unit)

-----------------------------------------------------------------------------
\* Sessions that measured the same compare by their zones and incidents alone; what
\* the network did is no part of it; and a workload whose sessions are all alike has
\* nothing unusual.
FairTo(score, offline) ==
    /\ \A s, t \in recorded :
           ( /\ s.workload = t.workload /\ s.cpu = t.cpu /\ s.gpu = t.gpu
             /\ ZonePoints(s) <= ZonePoints(t)
             /\ s.incidents * IncidentWeight(s.worst) <= t.incidents * IncidentWeight(t.worst) )
           => score[s] >= score[t]
    /\ \A s \in recorded : score[s] = offline[[s EXCEPT !.network = None]]

ScoresAreFair ==
    /\ FairTo(HealthScores(recorded),
              HealthScores({[s EXCEPT !.network = None] : s \in recorded}))
    /\ \A a \in Workloads(recorded) :
           LET own == Workload(recorded, a) IN
           (\A s, t \in own : s.cpu = t.cpu /\ s.gpu = t.gpu /\ s.network = t.network) =>
               /\ CountAnomalous(own) \in {None, 0}
               /\ SessionTrend(own, "gpu.hotspot") = None
               /\ CoolingReport(recorded, a, unit).direction = "STABLE"
               /\ \A s \in own : Diagnoses(s, own \ {s}) = {}

\* What a live reading says of the cooler rests on the idle time alone; a case no warmer
\* than it ever was at rest is no excuse for it; and without enough of that time nothing
\* is certain.  (The case reads here as the processor does.)
CeilingHolds(level) ==
    LET baseline == IdleBaseline(TelemetryUpTo(80), recorded, "temp")
        rests    == {u \in 0 .. unit - 1 : resting[u] # None /\ ~BusyAt(u)}
    IN  /\ CpuCeiling("RED", level, baseline)
              = CpuCeiling("RED", level, IdleBaseline(TelemetryUpTo(20), recorded, "temp"))
        /\ (\A u \in rests : resting[u] >= level) => GpuCeiling("ORANGE", level, baseline) # None
        /\ Cardinality(rests) < MinIdle => CpuCeiling("RED", level, baseline) = "MEDIUM"

\* A resting temperature is one at rest, whatever the sessions do to the readings; no
\* time without telemetry passes for a quiet one; and what is projected, rises.
RestIsRest ==
    LET trend == IdleTrend(TelemetryUpTo(80), recorded, Window, "temp")
        rests == {u \in Window.from .. unit - 1 : u >= 0 /\ ~BusyAt(u)}
    IN  /\ trend = IdleTrend(TelemetryUpTo(20), recorded, Window, "temp")
        /\ (\A u, v \in rests : u <= v /\ resting[u] # None /\ resting[v] # None
                => resting[u] >= resting[v]) =>
               \A m \in {"temp", "hotspot"} :
                   Outlook(TelemetryUpTo(80), recorded, unit)[m].projection = None
        /\ (\A u \in Window.middle .. unit - 1 : u < 0 \/ resting[u] = None) =>
               IncidentTrend(IncidentsSoFar, TelemetryUpTo(80), Window) = None
        /\ \A level \in {40, 45, 50} : CeilingHolds(level)
        /\ FanResponse(TelemetryUpTo(80)) # None =>
               \A fan \in {1, 2} :
                   \E b, c \in TelemetryUpTo(80) :
                       /\ b.fan = fan /\ c.fan = fan
                       /\ b.start \div UnitsPerDay # c.start \div UnitsPerDay

\* A verdict on a change rests on two windows of one length within what is stored; with
\* another change in them it is worth little; and where they are the halves of the
\* calendar trend, both say the same of a workload that got worse, and so does the
\* recommendation.
SameOfBoth(report, cooling, recommended) ==
    cooling.direction = "WORSENING" =>
        /\ report = cooling
        /\ recommended <=> report.confidence # "LOW"

\* Scores that are all alike show no trend, in the calendar's windows or around a change.
ScoresConcur(score, trend) ==
    (trend # None /\ Cardinality({score[s] : s \in DOMAIN score}) = 1)
    => trend.direction = "STABLE"

RecommendsAbout(a) == \E r \in Recommendations(recorded, FALSE, unit) : r.about = a

VerdictHolds(m, w, within, report) ==
    IF w = None THEN report = NoVerdict
    ELSE /\ w.middle - w.from = w.to - w.middle
         /\ w.to <= unit /\ w.from >= unit - HistorySpan
         /\ report = ChangeReport(m, within, TelemetryUpTo(80), Markers, unit)
         /\ ScoresConcur(HealthScores(within), ChangeHealth(recorded, w))
         /\ (report.direction # None /\ Confounds(Markers, m, w) # {})
                => report.confidence = "LOW"
         /\ \A a \in Apps :
                ( /\ m.component = "gpu" /\ w = Window /\ Confounds(Markers, m, w) = {}
                  /\ Workloads(within) = {a} )
                => SameOfBoth(report, CoolingReport(recorded, a, unit), RecommendsAbout(a))

VerdictsAgree ==
    \A m \in Markers :
        LET w == ChangeWindow(m.at, unit)
        IN  VerdictHolds(m, w, IF w = None THEN {} ELSE Touching(recorded, w.from, w.to),
                         ChangeReport(m, recorded, TelemetryUpTo(80), Markers, unit))

\* Little evidence makes no claim: a trend takes more sessions than one side needs, a
\* strong one takes many, and the processor's cooling is not blamed for one session.
ClaimsAreEarned ==
    /\ \A a \in Apps :
           LET within == Touching(Workload(recorded, a), Window.from, Window.to)
               report == CoolingReport(recorded, a, unit)
           IN  /\ report.direction # "STABLE" => Cardinality(within) > MinSamples
               /\ report.confidence = "HIGH" => Cardinality(within) > Generous
    /\ \A r \in Recommendations(recorded, TRUE, unit) :
           /\ r.about = "cpu" => Cardinality({s \in recorded : s.zones # {}}) > 1
           /\ r.about \in Apps => \E s, t \in Workload(recorded, r.about) :
                                     s.gpu.hotspot > t.gpu.hotspot /\ s.to > t.from
    /\ (\A s, t \in recorded : s.workload = t.workload => s.gpu = t.gpu /\ s.zones = {}) =>
           Recommendations(recorded, TRUE, unit) = {NoAction}

\* Where the power is the same, degrees per watt and degrees say the same, where the core
\* is, the hotspot above it and the hotspot do.
ConcurIn(own, hotspot, ratio, delta) ==
    /\ (\A s, t \in own : s.gpu.power = t.gpu.power /\ s.gpu.power # None /\ s.gpu.power > 0) =>
           IF hotspot = None THEN ratio = None
           ELSE ratio.direction = IF Varies(hotspot.older) THEN hotspot.direction ELSE "STABLE"
    /\ (\A s, t \in own : s.gpu.core = t.gpu.core /\ s.gpu.core # None) =>
           IF hotspot = None THEN delta = None ELSE delta.direction = hotspot.direction

TrendsConcur ==
    /\ \A a \in Workloads(recorded) :
           LET own == Touching(Workload(recorded, a), Window.from, Window.to)
           IN  ConcurIn(own, Windowed(own, Window, "gpu.hotspot"),
                        EfficiencyTrend(own, Window), DeltaTrend(own, Window))
    /\ ScoresConcur(HealthScores(Touching(recorded, Window.from, Window.to)),
                    HealthTrend(recorded, Window))

\* What the digest says of the last week and the one before: what is older does not
\* matter, a workload is not compared with another, the busiest has no fewer sessions than
\* any other, and an incident is no trend of critical ones unless it is.
Unnoticed(digest, s) ==
    s.to < Week.from =>
        \A e \in digest.workloads, f \in Digest(recorded \ {s}, IncidentsSoFar \ {s}).workloads :
            e.workload = f.workload => e = f

DigestIsOfTheWeek ==
    LET digest == Digest(recorded, IncidentsSoFar)
    IN  /\ \A s \in recorded : Unnoticed(digest, s)
        /\ \A e \in digest.workloads :
               /\ e \in Digest(Workload(recorded, e.workload), {}).workloads
               /\ \A a \in Workloads(recorded) :
                      RecentSessions(recorded, a, Week) <= RecentSessions(recorded, e.workload, Week)
               /\ e.gpu # None => Cardinality(Touching(Workload(recorded, e.workload), Week.from, Week.to)) > 1
        /\ (\A s \in IncidentsSoFar : s.to < Week.from) => digest.critical \in {None, "STABLE"}

AnalysesAgree ==
    /\ ScoresAreFair /\ RestIsRest /\ VerdictsAgree
    /\ ClaimsAreEarned /\ TrendsConcur /\ DigestIsOfTheWeek
=============================================================================
