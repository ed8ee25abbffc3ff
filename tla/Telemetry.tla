----------------------------- MODULE Telemetry -----------------------------
(***************************************************************************)
(* Long-term telemetry of app.py: the bucket in progress, its split at a   *)
(* monitoring gap, and the SQLite store with its one-time migration of the *)
(* JSONL history, its retention and the recovery from a damaged file.      *)
(*                                                                         *)
(* A sample is the time it was taken at; buckets carry the set of their    *)
(* samples as a history variable, which no action reads.                   *)
(***************************************************************************)
EXTENDS TelemetryViews

CONSTANTS
    Retention,  \* TELEMETRY_RETENTION_DAYS, in the unit of the clock
    FirstTime,  \* the clock when the behaviour begins
    MaxTime,    \* bound on the clock
    MaxStarts,  \* bound on the starts of the program
    MaxFaults,  \* bound on failing writes, damaged files and failing starts
    Legacy,     \* the buckets of the JSONL file
    Reading     \* the value of the metric at each time, None where missing

ASSUME TelemetryConstants ==
    /\ {Retention, FirstTime, MaxTime, MaxStarts, MaxFaults} \subseteq Nat
    /\ FirstTime <= MaxTime
    /\ None \notin Int

ASSUME ReadingConstants ==
    /\ \A t \in 0 .. MaxTime : Reading[t] \in Int \cup {None}
    /\ {None, Absent} \cap [count : Nat, sum : Int, min : Int, max : Int] = {}

\* The aggregate of the readings at some times: what summaries should agree with.
AggregateOf(times) ==
    LET seen == {t \in times : Reading[t] # None}
    IN  IF seen = {} THEN None
        ELSE [count |-> Cardinality(seen),
              sum   |-> MapThenSumSet(LAMBDA t : Reading[t], seen),
              min   |-> Min({Reading[t] : t \in seen}),
              max   |-> Max({Reading[t] : t \in seen})]

\* The JSONL history was written by the same rules: its buckets tile the time before
\* the first start, with samples of their own; one may be older than the metric.
ASSUME LegacyConstants ==
    /\ IsFiniteSet(Legacy)
    /\ \A b \in Legacy :
        /\ b.start \in Nat /\ b.end \in Nat \cup {None}
        /\ b.start < FirstTime /\ b.start <= SpanEnd(b) /\ SpanEnd(b) <= FirstTime
        /\ b.samples \subseteq b.start .. SpanEnd(b) /\ FirstTime \notin b.samples
        /\ b.count = Cardinality(b.samples)
        /\ b.metric \in {Absent, AggregateOf(b.samples)}
        /\ \A c \in Legacy \ {b} :
            /\ SpanEnd(b) <= c.start \/ SpanEnd(c) <= b.start
            /\ b.start # c.start /\ b.samples \cap c.samples = {}

VARIABLES
    now,         \* the wall clock
    starts,      \* how often the program was started
    faults,      \* how many faults there have been
    phase,       \* what the program is doing
    bucket,      \* telemetry_bucket
    lastTick,    \* _last_tick_wall_time
    store,       \* the database file: rows, marker, and whether it is damaged
    legacyFile,  \* whether the JSONL file is still there
    \* history variables
    taken,       \* every sample taken
    lost,        \* the samples a fault or retention may have taken away
    lastSeen,    \* the last moment of a stretch the program was up for
    outages      \* the intervals of at least MinGap without a tick, and what ended them

vars == <<now, starts, faults, phase, bucket, lastTick, store, legacyFile,
          taken, lost, lastSeen, outages>>

-----------------------------------------------------------------------------
\* _new_telemetry_bucket.
NewBucket(t) == [start |-> t, count |-> 0, agg |-> NewAgg, samples |-> {}]

FreshStore == [rows |-> {}, migrated |-> FALSE, damaged |-> FALSE]

\* A store one can work with: open_telemetry_db moves a damaged file aside and
\* begins a new one.
Opened == IF store.damaged THEN FreshStore ELSE store

\* The rows that go when a damaged file is moved aside.
GoneWith(s) == IF s.damaged THEN UNION {r.samples : r \in s.rows} ELSE {}

\* _persist_telemetry_bucket: one transaction, INSERT OR REPLACE by the start.
Stored(b, end) ==
    [start |-> b.start, end |-> end, count |-> b.count,
     metric |-> AggResult(b.agg), samples |-> b.samples]

Replaced(rows, row) == {r \in rows : r.start # row.start} \cup {row}

\* The bucket is written, or the write fails and it is given up.
Persist(b, end) ==
    \/ /\ store' = [Opened EXCEPT !.rows = Replaced(@, Stored(b, end))]
       /\ lost' = lost \cup GoneWith(store)
       /\ UNCHANGED faults
    \/ /\ faults < MaxFaults
       /\ faults' = faults + 1
       /\ \/ store' = store /\ lost' = lost \cup b.samples
          \/ store' = Opened /\ lost' = lost \cup b.samples \cup GoneWith(store)

Outage(to, end) ==
    IF to - lastSeen >= MinGap THEN {[from |-> lastSeen, to |-> to, end |-> end]} ELSE {}

LegacySamples == UNION {b.samples : b \in Legacy}

Init ==
    /\ now = FirstTime
    /\ starts = 0
    /\ faults = 0
    /\ phase = "off"
    /\ bucket = NewBucket(0)
    /\ lastTick = 0
    /\ store = FreshStore
    /\ legacyFile = (Legacy # {})
    /\ taken = LegacySamples
    /\ lost = {}
    /\ lastSeen = FirstTime
    /\ outages = {}

-----------------------------------------------------------------------------
\* Time passes while no callback runs.
Advance ==
    /\ phase \in {"off", "idle"}
    /\ now < MaxTime
    /\ now' = now + 1
    /\ UNCHANGED <<starts, faults, phase, bucket, lastTick, store, legacyFile,
                   taken, lost, lastSeen, outages>>

\* __init__ up to init_telemetry_store.  A start comes after the last stop.
Start ==
    /\ phase = "off"
    /\ starts < MaxStarts
    /\ starts = 0 \/ now > lastSeen
    /\ starts' = starts + 1
    /\ bucket' = NewBucket(now)
    /\ lastTick' = now
    /\ outages' = outages \cup Outage(now, "start")
    /\ lastSeen' = now
    /\ phase' = "opening"
    /\ UNCHANGED <<now, faults, store, legacyFile, taken, lost>>

\* The store cannot be opened: no telemetry history in this life, until a later
\* write succeeds in opening it.
OpenFails ==
    /\ phase = "opening"
    /\ faults < MaxFaults
    /\ faults' = faults + 1
    /\ phase' = "idle"
    /\ UNCHANGED <<now, starts, bucket, lastTick, store, legacyFile, taken, lost,
                   lastSeen, outages>>

\* migrate_telemetry_jsonl_to_sqlite: nothing if the marker is set, else INSERT OR
\* IGNORE of every bucket and the marker, in one transaction.
Migrated(s) ==
    IF s.migrated THEN s
    ELSE [s EXCEPT !.migrated = TRUE,
                   !.rows = @ \cup {b \in Legacy : legacyFile /\ \A r \in s.rows : r.start # b.start}]

Migrate ==
    /\ phase = "opening"
    /\ store' = Migrated(Opened)
    /\ lost' = lost \cup GoneWith(store)
    /\ phase' = IF store'.rows # Opened.rows THEN "renaming" ELSE "pruning"
    /\ UNCHANGED <<now, starts, faults, bucket, lastTick, legacyFile, taken,
                   lastSeen, outages>>

\* The transaction is rolled back and the error ends __init__.
MigrationRaises ==
    /\ phase = "opening"
    /\ faults < MaxFaults
    /\ faults' = faults + 1
    /\ store' = Opened
    /\ lost' = lost \cup GoneWith(store)
    /\ phase' = "off"
    /\ UNCHANGED <<now, starts, bucket, lastTick, legacyFile, taken, lastSeen, outages>>

\* The JSONL file is renamed to .jsonl.migrated; if that fails, it stays.
RenameLegacy ==
    /\ phase = "renaming"
    /\ legacyFile' \in BOOLEAN
    /\ phase' = "pruning"
    /\ UNCHANGED <<now, starts, faults, bucket, lastTick, store, taken, lost,
                   lastSeen, outages>>

\* prune_telemetry_history, which may fail to open the store.
Prune ==
    /\ phase = "pruning"
    /\ \/ /\ store' = [Opened EXCEPT !.rows = Unexpired(@, Retention, now)]
          /\ lost' = lost \cup {t \in taken : t < now - Retention} \cup GoneWith(store)
          /\ UNCHANGED faults
       \/ /\ faults < MaxFaults
          /\ faults' = faults + 1
          /\ UNCHANGED <<store, lost>>
    /\ phase' = "idle"
    /\ UNCHANGED <<now, starts, bucket, lastTick, legacyFile, taken, lastSeen, outages>>

-----------------------------------------------------------------------------
\* _detect_monitoring_discontinuity, at the top of update_data.
IsGap == now - lastTick >= MinGap

\* Sleeps through the gap in one long bucket.
BugSplitAcrossGap == UNCHANGED <<store, lost, faults, bucket>>

\* _telemetry_split_across_gap: the bucket ends where it was last observed, one
\* without samples is only begun anew.
SplitAcrossGap ==
    /\ bucket' = NewBucket(now)
    /\ IF bucket.count > 0 THEN Persist(bucket, lastTick)
       ELSE UNCHANGED <<store, lost, faults>>

TickBegins ==
    /\ phase = "idle"
    /\ now > lastTick
    /\ IF IsGap THEN SplitAcrossGap ELSE UNCHANGED <<store, lost, faults, bucket>>
    /\ outages' = outages \cup Outage(now, "tick")
    /\ lastSeen' = now
    /\ lastTick' = now
    /\ phase' = "ticking"
    /\ UNCHANGED <<now, starts, legacyFile, taken>>

\* update_data raises before it comes to the telemetry.
TickAborts ==
    /\ phase = "ticking"
    /\ phase' = "idle"
    /\ UNCHANGED <<now, starts, faults, bucket, lastTick, store, legacyFile, taken,
                   lost, lastSeen, outages>>

\* Begins the next bucket where this one should have ended.
BugNextBucket(b, t) == NewBucket(b.start + BucketSeconds)

\* The bucket that follows b, finalised at t.
NextBucket(b, t) == NewBucket(t)

Observed == [bucket EXCEPT !.count = @ + 1,
                           !.agg = Added(@, Reading[now]),
                           !.samples = @ \cup {now}]

\* _telemetry_observe_tick, which finalises the bucket when its time is up.
TickEnds ==
    /\ phase = "ticking"
    /\ taken' = taken \cup {now}
    /\ IF now - bucket.start >= BucketSeconds
       THEN /\ Persist(Observed, now)
            /\ bucket' = NextBucket(bucket, now)
       ELSE /\ bucket' = Observed
            /\ UNCHANGED <<store, lost, faults>>
    /\ phase' = "idle"
    /\ UNCHANGED <<now, starts, lastTick, legacyFile, lastSeen, outages>>

\* Leaves the last minute out.
BugFinalizeAtClose == UNCHANGED <<store, lost, faults>>

FinalizeAtClose ==
    IF bucket.count > 0 THEN Persist(bucket, now) ELSE UNCHANGED <<store, lost, faults>>

\* close() and destroy().
Close ==
    /\ phase = "idle"
    /\ FinalizeAtClose
    /\ bucket' = NewBucket(0)
    /\ lastSeen' = now
    /\ outages' = outages \cup Outage(now, "close")
    /\ phase' = "off"
    /\ UNCHANGED <<now, starts, lastTick, legacyFile, taken>>

\* The process is killed; what was not committed is gone.
Crash ==
    /\ phase # "off"
    /\ lost' = lost \cup bucket.samples
    /\ bucket' = NewBucket(0)
    /\ phase' = "off"
    /\ UNCHANGED <<now, starts, faults, lastTick, store, legacyFile, taken, lastSeen, outages>>

\* The database file is damaged.
Damage ==
    /\ ~store.damaged
    /\ faults < MaxFaults
    /\ faults' = faults + 1
    /\ store' = [store EXCEPT !.damaged = TRUE]
    /\ UNCHANGED <<now, starts, phase, bucket, lastTick, legacyFile, taken, lost,
                   lastSeen, outages>>

Next ==
    \/ Advance \/ Start \/ OpenFails \/ Migrate \/ MigrationRaises \/ RenameLegacy
    \/ Prune \/ TickBegins \/ TickAborts \/ TickEnds \/ Close \/ Crash \/ Damage

Spec == Init /\ [][Next]_vars

-----------------------------------------------------------------------------
InProgress == IF phase \in {"idle", "ticking"} /\ bucket.count > 0
              THEN {Stored(bucket, now)} ELSE {}

\* What a reader of the store and of memory can still find.
Buckets == store.rows \cup InProgress

\* The buckets cover time once: no two overlap, each holds samples of its own and
\* as many as it counts, across finalising, gaps, restarts and migration.
BucketsTile ==
    \A b \in Buckets :
        /\ \A t \in b.samples : b.start <= t /\ t <= SpanEnd(b)
        /\ b.count = Cardinality(b.samples)
        /\ \A c \in Buckets : b = c \/ SpanEnd(b) <= c.start \/ SpanEnd(c) <= b.start
        /\ \A c \in Buckets \ {b} : b.samples \cap c.samples = {}

Reported(o) == \E g \in GapSpans(Buckets, 0, now) : g.from <= o.from /\ o.to <= g.to

\* Every stretch of at least MinGap in which the program was down, suspended or
\* stalled, and that a tick or a start ended, lies within a gap of the timeline.
\* One that close() ends does not: close() finalises the bucket without a look at
\* the clock of the last tick.
OutagesAreReported == \A o \in outages : o.end \in {"tick", "start"} => Reported(o)

\* A sample leaves only by a crash, a failed write, a damaged file or retention; in
\* particular the migration loses nothing however often it is begun.
NothingIsLost ==
    LET unmigrated == IF legacyFile /\ ~store.migrated THEN LegacySamples ELSE {}
    IN  taken \subseteq
            lost \cup unmigrated \cup bucket.samples \cup UNION {b.samples : b \in Buckets}

SamplesOf(buckets) == UNION {b.samples : b \in {c \in buckets : c.metric # Absent}}

\* The total of a counter is what it moved within each bucket.
TotalsAgree ==
    LET moved(r) == AggregateOf(r.samples).max - AggregateOf(r.samples).min
    IN  Real(store.rows) # {} =>
            CounterTotal(store.rows) = MapThenSumSet(moved, Real(store.rows))

\* The summary of a window is that of its samples.
SummariesAgree ==
    \A from, to \in {0} \cup {r.start : r \in store.rows} :
        SensorSummary(store.rows, from, to) =
        AggregateOf(SamplesOf({r \in store.rows : from <= r.start /\ r.start < to}))

\* A peak survives two levels of grouping, and averages stay weighted.
PointsAgree(group) ==
    \A s \in {Slot(r, group, 0) : r \in store.rows} :
        Point(store.rows, group, 0, s).metric =
        AggregateOf(SamplesOf(SlotBuckets(store.rows, group, 0, s)))

Lengthy(g) == g.to - g.from > MinGap

\* A point begins where a gap between two buckets ends, and knows of it.
BreaksAtGaps(group) ==
    \A g \in GapSpans(store.rows, 0, now) :
        (Lengthy(g) /\ g.from > 0 /\ g.to < now) =>
        \E p \in Downsampled(store.rows, group, 0) : p.start = g.to /\ p.gapBefore

\* No line is drawn across a gap, nor through a slot where no bucket has a reading.
LinesAreWatched(group) ==
    LET points == Downsampled(store.rows, group, 0) IN
    \A p, q \in points : Joined(points, p, q) =>
        /\ \A g \in GapSpans(store.rows, 0, now) : Lengthy(g) => g.from < p.end \/ q.start < g.to
        /\ \A r \in store.rows : p.start <= r.start /\ r.start <= q.start =>
               \E b \in SlotBuckets(store.rows, group, 0, Slot(r, group, 0)) :
                   AggregateOf(SamplesOf({b})) # None

\* A gap within a day has the same identifier, of its own, in every window that begins
\* at a midnight.
GapsKeepTheirNames ==
    \A from \in {DayStart(t) : t \in 0 .. now} :
        LET gaps == {g \in TimelineGaps(store.rows, from, now) :
                        DayStart(g.from) = DayStart(g.to - 1)}
        IN  /\ \A g \in gaps : g.id # None
            /\ \A g, h \in gaps : (g.id = h.id /\ DayStart(g.from) = DayStart(h.from)) => g = h

\* Summaries of every window, the points of the chart, and the places where its
\* line breaks, say what the raw samples say, as long as a point of the chart stands for
\* no more buckets than make a gap.  (From the chart of a day on it stands for more, and
\* the line is drawn through a gap that lies within one point.)
ViewsAgree ==
    /\ TotalsAgree /\ SummariesAgree /\ GapsKeepTheirNames
    /\ \A group \in 1 .. GapBuckets :
           PointsAgree(group) /\ BreaksAtGaps(group) /\ LinesAreWatched(group)
=============================================================================
