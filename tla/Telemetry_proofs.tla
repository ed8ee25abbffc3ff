-------------------------- MODULE Telemetry_proofs --------------------------
(***************************************************************************)
(* What holds of the telemetry store for any clock, any JSONL history and  *)
(* any number of starts and faults: buckets tile time, nothing is lost but *)
(* to a fault, every outage lies within a gap of the timeline, and each    *)
(* view of the rows says what the readings in them say.                    *)
(***************************************************************************)
EXTENDS Telemetry, Extrema

Phases == {"off", "opening", "renaming", "pruning", "idle", "ticking"}

Begun == phase # "off"

\* Before the first tick of a life, nothing happens at a later time than its start.
ClockInv ==
    /\ now \in Nat /\ starts \in Nat /\ phase \in Phases
    /\ lastSeen \in FirstTime .. now
    /\ Begun => lastTick = lastSeen /\ starts # 0
    /\ phase \in {"opening", "renaming", "pruning", "ticking"} => lastTick = now

\* The bucket in progress holds samples up to the last tick, which is not among them
\* until it ends.
BucketInv ==
    /\ bucket = [start |-> bucket.start, count |-> bucket.count, agg |-> bucket.agg,
                 samples |-> bucket.samples]
    /\ bucket.samples \subseteq Nat
    /\ IsFiniteSet(bucket.samples) /\ bucket.count = Cardinality(bucket.samples)
    /\ phase \notin {"idle", "ticking"} => bucket.samples = {}
    /\ Begun => /\ bucket.start \in FirstTime .. lastTick
                /\ bucket.samples \subseteq bucket.start .. lastTick
    /\ phase = "ticking" => now \notin bucket.samples

\* A row is of its own samples, and either of the JSONL history or of this program.
Sound(r) ==
    /\ r.start \in Nat /\ SpanEnd(r) \in Nat /\ r.start <= SpanEnd(r)
    /\ r.end # None => r.end = SpanEnd(r)
    /\ r.samples \subseteq r.start .. SpanEnd(r)
    /\ r.count = Cardinality(r.samples)
    /\ r \in Legacy \/ FirstTime <= r.start

Apart(r, s) ==
    /\ SpanEnd(r) <= s.start \/ SpanEnd(s) <= r.start
    /\ r.samples \cap s.samples = {}

Tiles(rows) == \A r \in rows : Sound(r) /\ \A s \in rows : r = s \/ Apart(r, s)

\* Every row ends before the bucket in progress begins, and before the present tick.
Behind(r) ==
    /\ SpanEnd(r) <= lastSeen
    /\ Begun => r.start < bucket.start /\ SpanEnd(r) <= bucket.start
    /\ r.samples \cap bucket.samples = {}
    /\ phase = "ticking" => SpanEnd(r) < now

IsStore(s) ==
    /\ s = [rows |-> s.rows, migrated |-> s.migrated, damaged |-> s.damaged]
    /\ s.migrated \in BOOLEAN /\ s.damaged \in BOOLEAN

StoreInv ==
    /\ IsStore(store)
    /\ starts = 0 => store.rows = {}
    /\ phase \in {"renaming", "pruning"} => store.migrated
    /\ Tiles(store.rows)
    /\ \A r \in store.rows : Behind(r)

\* The samples of the history are in the JSONL file until its migration is committed.
Held(rows) == UNION {r.samples : r \in rows}

Unmigrated == IF legacyFile /\ ~store.migrated THEN LegacySamples ELSE {}

KeptInv == taken \subseteq lost \cup Unmigrated \cup bucket.samples \cup Held(store.rows)

\* No bucket reaches into an outage, neither one written nor the one in progress.
Outside(r, o) == SpanEnd(r) <= o.from \/ o.to <= r.start

OutageInv ==
    \A o \in outages : o.end \in {"tick", "start"} =>
        /\ o.from \in Nat /\ o.to \in Nat /\ FirstTime <= o.from
        /\ o.to - o.from >= MinGap /\ o.to <= lastSeen
        /\ Begun => o.to <= bucket.start
        /\ \A r \in store.rows : Outside(r, o)

TelemetryInv == ClockInv /\ BucketInv /\ StoreInv /\ KeptInv /\ OutageInv

LEMMA MinGapType == MinGap \in Nat \ {0}
BY ViewConstants DEF MinGap

LEMMA TelemetryInit == Init => TelemetryInv
<1> SUFFICES ASSUME Init PROVE TelemetryInv
  OBVIOUS
<1>1. ClockInv
  BY TelemetryConstants DEF Init, ClockInv, Phases, Begun
<1>2. BucketInv
  BY FS_EmptySet DEF Init, BucketInv, NewBucket, Begun
<1>3. StoreInv
  BY DEF Init, StoreInv, IsStore, FreshStore, Tiles
<1>4. KeptInv
  <2>1. LegacySamples # {} => Legacy # {}
    BY DEF LegacySamples
  <2>2. QED
    BY <2>1 DEF Init, KeptInv, Unmigrated, FreshStore
<1>5. OutageInv
  BY DEF Init, OutageInv
<1>6. QED
  BY <1>1, <1>2, <1>3, <1>4, <1>5 DEF TelemetryInv

-----------------------------------------------------------------------------
\* WRITING A BUCKET

LEMMA OpenedStore ==
    ASSUME IsStore(store)
    PROVE  /\ IsStore(Opened)
           /\ Opened.rows \subseteq store.rows
           /\ Opened.migrated => store.migrated
           /\ Held(store.rows) \subseteq GoneWith(store) \cup Held(Opened.rows)
<1>1. CASE store.damaged
  BY <1>1 DEF Opened, FreshStore, IsStore, GoneWith, Held
<1>2. CASE ~store.damaged
  BY <1>2 DEF Opened, IsStore
<1>3. QED
  BY <1>1, <1>2

\* The store that a row is written to.
LEMMA ReplacedStore ==
    ASSUME NEW s, IsStore(s), NEW row, \A r \in s.rows : r.start # row.start
    PROVE  LET new == [s EXCEPT !.rows = Replaced(@, row)]
           IN  IsStore(new) /\ new.rows = s.rows \cup {row} /\ new.migrated = s.migrated
<1>1. Replaced(s.rows, row) = s.rows \cup {row}
  BY DEF Replaced
<1>2. s \in [rows : {s.rows}, migrated : BOOLEAN, damaged : BOOLEAN]
  BY DEF IsStore
<1>3. QED
  BY <1>1, <1>2 DEF IsStore

\* _persist_telemetry_bucket: a bucket is in the store or among what is lost, and so
\* is everything that was in the store before.
LEMMA PersistKeeps ==
    ASSUME IsStore(store), NEW b, NEW end, Persist(b, end),
           \A r \in store.rows : r.start # b.start
    PROVE  /\ IsStore(store')
           /\ store'.rows \subseteq store.rows \cup {Stored(b, end)}
           /\ store'.migrated => store.migrated
           /\ lost \subseteq lost'
           /\ b.samples \cup Held(store.rows) \subseteq lost' \cup Held(store'.rows)
<1> DEFINE row == Stored(b, end)
<1>1. row.start = b.start /\ row.samples = b.samples
  BY DEF Stored
<1>2. CASE /\ store' = [Opened EXCEPT !.rows = Replaced(@, row)]
           /\ lost' = lost \cup GoneWith(store)
  <2>1. IsStore(store') /\ store'.rows = Opened.rows \cup {row} /\ store'.migrated = Opened.migrated
    <3>1. \A r \in Opened.rows : r.start # row.start
      BY <1>1, OpenedStore
    <3> HIDE DEF row
    <3>2. QED
      BY <1>2, <3>1, OpenedStore, ReplacedStore
  <2>2. b.samples \cup Held(Opened.rows) \subseteq Held(store'.rows)
    BY <1>1, <2>1 DEF Held
  <2>3. QED
    BY <1>2, <2>1, <2>2, OpenedStore
<1>3. CASE store' = store /\ lost' = lost \cup b.samples
  BY <1>3
<1>4. CASE store' = Opened /\ lost' = lost \cup b.samples \cup GoneWith(store)
  BY <1>4, OpenedStore
<1>5. QED
  BY <1>2, <1>3, <1>4 DEF Persist

\* The bucket in progress, written with an end between its samples and now, is a row
\* like the others.
LEMMA BucketIsRow ==
    ASSUME ClockInv, BucketInv, StoreInv, Begun, NEW b, NEW end \in Nat,
           b.start = bucket.start, b.start <= end,
           b.samples \subseteq b.start .. end, b.count = Cardinality(b.samples),
           \A r \in store.rows : r.samples \cap b.samples = {}
    PROVE  /\ \A r \in store.rows : r.start # b.start
           /\ SpanEnd(Stored(b, end)) = end
           /\ Tiles(store.rows \cup {Stored(b, end)})
<1> DEFINE row == Stored(b, end)
<1>1. row.start = b.start /\ row.end = end /\ row.samples = b.samples /\ row.count = b.count
  BY DEF Stored
<1>2. SpanEnd(row) = end
  BY <1>1, TelemetryConstants DEF SpanEnd
<1>3. b.start \in Nat /\ FirstTime <= b.start
  BY TelemetryConstants DEF ClockInv, BucketInv
<1>4. Sound(row)
  <2> HIDE DEF row
  <2>1. QED
    BY <1>1, <1>2, <1>3 DEF Sound
<1>5. ASSUME NEW r \in store.rows PROVE r.start # b.start /\ Apart(r, row) /\ Apart(row, r)
  <2>1. Behind(r) /\ Sound(r)
    BY DEF StoreInv, Tiles
  <2>2. r.start < b.start /\ SpanEnd(r) <= b.start
    BY <2>1 DEF Behind
  <2> HIDE DEF row
  <2>3. QED
    BY <1>1, <1>3, <2>1, <2>2 DEF Apart, Sound
<1>6. Tiles(store.rows \cup {row})
  <2> HIDE DEF row
  <2>1. QED
    BY <1>4, <1>5 DEF Tiles, StoreInv
<1>7. QED
  BY <1>2, <1>5, <1>6

LEMMA TilesSubset ==
    ASSUME NEW rows, NEW some \in SUBSET rows, Tiles(rows)
    PROVE  Tiles(some)
BY DEF Tiles

-----------------------------------------------------------------------------
\* THE STEPS

\* Steps that touch neither the bucket nor what is stored.
LEMMA QuietStep ==
    ASSUME TelemetryInv, Advance \/ OpenFails \/ RenameLegacy \/ TickAborts \/ Damage
    PROVE  TelemetryInv'
<1>1. /\ UNCHANGED <<bucket, taken, lost, outages, starts, lastTick, lastSeen>>
      /\ store'.rows = store.rows /\ store'.migrated = store.migrated /\ IsStore(store')
      /\ now' \in Nat /\ now <= now' /\ (now' = now \/ phase \in {"off", "idle"})
      /\ phase' \in Phases /\ (Begun' <=> Begun)
      /\ \/ phase' = phase
         \/ phase \in {"opening", "ticking"} /\ phase' = "idle"
         \/ phase = "renaming" /\ phase' = "pruning"
      /\ store.migrated \/ legacyFile' = legacyFile
  <2>1. IsStore(store) /\ ClockInv /\ (phase = "renaming" => store.migrated)
    BY DEF TelemetryInv, StoreInv
  <2>2. CASE Advance
    BY <2>1, <2>2 DEF Advance, ClockInv, Begun
  <2>3. CASE OpenFails
    BY <2>1, <2>3 DEF OpenFails, ClockInv, Begun, Phases
  <2>4. CASE RenameLegacy
    BY <2>1, <2>4 DEF RenameLegacy, ClockInv, Begun, Phases
  <2>5. CASE TickAborts
    BY <2>1, <2>5 DEF TickAborts, ClockInv, Begun, Phases
  <2>6. CASE Damage
    <3>1. store \in [rows : {store.rows}, migrated : BOOLEAN, damaged : BOOLEAN]
      BY <2>1 DEF IsStore
    <3>2. store'.rows = store.rows /\ store'.migrated = store.migrated /\ IsStore(store')
      BY <2>6, <3>1 DEF Damage, IsStore
    <3>3. QED
      BY <2>1, <2>6, <3>2 DEF Damage, ClockInv, Begun
  <2>7. QED
    BY <2>2, <2>3, <2>4, <2>5, <2>6
<1>2. ClockInv'
  BY <1>1, TelemetryConstants DEF TelemetryInv, ClockInv, Begun
<1>3. BucketInv'
  BY <1>1 DEF TelemetryInv, BucketInv, Begun
<1>4. StoreInv'
  BY <1>1 DEF TelemetryInv, StoreInv, Behind, Begun
<1>5. KeptInv'
  BY <1>1 DEF TelemetryInv, KeptInv, Unmigrated
<1>6. OutageInv'
  BY <1>1 DEF TelemetryInv, OutageInv
<1>7. QED
  BY <1>2, <1>3, <1>4, <1>5, <1>6 DEF TelemetryInv

\* __init__: the bucket of a life begins after everything that an earlier one left.
LEMMA StartStep == TelemetryInv /\ Start => TelemetryInv'
<1> SUFFICES ASSUME TelemetryInv, Start PROVE TelemetryInv'
  OBVIOUS
<1>1. /\ UNCHANGED <<now, store, legacyFile, taken, lost>>
      /\ starts' = starts + 1 /\ phase' = "opening" /\ phase = "off"
      /\ bucket' = NewBucket(now) /\ lastTick' = now /\ lastSeen' = now
      /\ outages' = outages \cup Outage(now, "start")
      /\ starts = 0 \/ now > lastSeen
  BY DEF Start
<1>2. /\ now \in Nat /\ starts \in Nat /\ lastSeen \in FirstTime .. now /\ FirstTime \in Nat
  BY TelemetryConstants DEF TelemetryInv, ClockInv
<1>3. ClockInv'
  BY <1>1, <1>2 DEF ClockInv, Phases, Begun
<1>4. bucket'.start = now /\ bucket'.samples = {} /\ bucket.samples = {}
  BY <1>1 DEF NewBucket, TelemetryInv, BucketInv
<1>5. BucketInv'
  BY <1>1, <1>2, FS_EmptySet DEF BucketInv, NewBucket, Begun
<1>6. ASSUME NEW r \in store.rows
      PROVE  SpanEnd(r) < now /\ r.start < now /\ SpanEnd(r) <= lastSeen
  <2>1. Sound(r) /\ Behind(r) /\ starts # 0
    BY <1>6 DEF TelemetryInv, StoreInv, Tiles
  <2>2. QED
    BY <1>1, <1>2, <2>1 DEF Sound, Behind
<1>7. StoreInv'
  <2>1. ASSUME NEW r \in store.rows PROVE Behind(r)'
    <3>1. SpanEnd(r) \in Nat
      BY DEF TelemetryInv, StoreInv, Tiles, Sound
    <3>2. QED
      BY <1>1, <1>2, <1>4, <1>6, <3>1 DEF Behind
  <2>2. QED
    BY <1>1, <1>2, <2>1 DEF TelemetryInv, StoreInv
<1>8. KeptInv'
  BY <1>1, <1>4 DEF TelemetryInv, KeptInv, Unmigrated
<1>9. OutageInv'
  <2>1. ASSUME NEW o \in outages', o.end \in {"tick", "start"}
        PROVE  /\ o.from \in Nat /\ o.to \in Nat /\ FirstTime <= o.from
               /\ o.to - o.from >= MinGap /\ o.to <= now
               /\ \A r \in store.rows : Outside(r, o)
    <3>1. CASE o \in outages
      <4>1. /\ o.from \in Nat /\ o.to \in Nat /\ FirstTime <= o.from
            /\ o.to - o.from >= MinGap /\ o.to <= lastSeen
            /\ \A r \in store.rows : Outside(r, o)
        BY <2>1, <3>1 DEF TelemetryInv, OutageInv
      <4>2. QED
        BY <1>2, <4>1
    <3>2. CASE o \in Outage(now, "start")
      <4>1. now - lastSeen >= MinGap /\ o.from = lastSeen /\ o.to = now
        BY <3>2 DEF Outage
      <4>2. QED
        BY <1>2, <1>6, <4>1, MinGapType DEF Outside
    <3>3. QED
      BY <1>1, <2>1, <3>1, <3>2
  <2>2. QED
    BY <1>1, <1>4, <2>1 DEF OutageInv
<1>10. QED
  BY <1>3, <1>5, <1>7, <1>8, <1>9 DEF TelemetryInv

\* Steps that shrink the store, the bucket in progress being empty.
LEMMA FewerRows ==
    ASSUME TelemetryInv, IsStore(store'), store'.rows \subseteq store.rows,
           bucket.samples = {}, UNCHANGED <<now, starts, bucket, lastTick, lastSeen, outages>>,
           phase \in {"opening", "pruning"}, phase' \in {"off", "pruning", "idle"},
           phase' = "pruning" => store'.migrated
    PROVE  ClockInv' /\ BucketInv' /\ StoreInv' /\ OutageInv'
<1>1. ClockInv'
  BY DEF TelemetryInv, ClockInv, Phases, Begun
<1>2. BucketInv'
  BY DEF TelemetryInv, BucketInv, Begun
<1>3. Tiles(store'.rows)
  BY TilesSubset DEF TelemetryInv, StoreInv
<1>4. ASSUME NEW r \in store'.rows PROVE Behind(r)'
  BY DEF TelemetryInv, StoreInv, Behind, Begun
<1>5. StoreInv'
  BY <1>3, <1>4 DEF TelemetryInv, StoreInv
<1>6. OutageInv'
  BY DEF TelemetryInv, OutageInv, Begun
<1>7. QED
  BY <1>1, <1>2, <1>5, <1>6

LEMMA MigrationRaisesStep == TelemetryInv /\ MigrationRaises => TelemetryInv'
<1> SUFFICES ASSUME TelemetryInv, MigrationRaises PROVE TelemetryInv'
  OBVIOUS
<1>1. IsStore(store) /\ bucket.samples = {}
  BY DEF TelemetryInv, StoreInv, BucketInv, MigrationRaises
<1>2. ClockInv' /\ BucketInv' /\ StoreInv' /\ OutageInv'
  BY <1>1, OpenedStore, FewerRows DEF MigrationRaises
<1>3. KeptInv'
  BY <1>1, OpenedStore DEF TelemetryInv, KeptInv, Unmigrated, MigrationRaises
<1>4. QED
  BY <1>2, <1>3 DEF TelemetryInv

LEMMA PruneStep == TelemetryInv /\ Prune => TelemetryInv'
<1> SUFFICES ASSUME TelemetryInv, Prune PROVE TelemetryInv'
  OBVIOUS
<1>1. IsStore(store) /\ bucket.samples = {}
  BY DEF TelemetryInv, StoreInv, BucketInv, Prune
<1>2. CASE UNCHANGED <<store, lost>>
  <2>1. ClockInv' /\ BucketInv' /\ StoreInv' /\ OutageInv'
    BY <1>1, <1>2, FewerRows DEF Prune
  <2>2. KeptInv'
    BY <1>1, <1>2 DEF TelemetryInv, KeptInv, Unmigrated, Prune
  <2>3. QED
    BY <2>1, <2>2 DEF TelemetryInv
<1>3. CASE /\ store' = [Opened EXCEPT !.rows = Unexpired(@, Retention, now)]
           /\ lost' = lost \cup {t \in taken : t < now - Retention} \cup GoneWith(store)
  <2> DEFINE left == Unexpired(Opened.rows, Retention, now)
  <2>1. Opened \in [rows : {Opened.rows}, migrated : BOOLEAN, damaged : BOOLEAN]
    BY <1>1, OpenedStore DEF IsStore
  <2>2. IsStore(store') /\ store'.rows = left /\ store'.migrated = Opened.migrated
    BY <1>3, <2>1 DEF IsStore
  <2>3. left \subseteq Opened.rows
    BY DEF Unexpired
  <2>4. ClockInv' /\ BucketInv' /\ StoreInv' /\ OutageInv'
    BY <1>1, <2>2, <2>3, OpenedStore, FewerRows DEF Prune
  <2>5. ASSUME NEW r \in Opened.rows, r \notin left, NEW t \in r.samples, t \in taken
        PROVE  t \in lost'
    <3>1. r.end # None /\ ~(r.end >= now - Retention) /\ Sound(r)
      BY <1>1, <2>5, OpenedStore DEF Unexpired, TelemetryInv, StoreInv, Tiles
    <3>2. t < now - Retention
      BY <3>1, TelemetryConstants DEF Sound, TelemetryInv, ClockInv
    <3>3. QED
      BY <1>3, <2>5, <3>2
  <2>6. KeptInv'
    <3>1. taken \cap Held(Opened.rows) \subseteq lost' \cup Held(left)
      BY <2>5 DEF Held
    <3>2. Unmigrated \subseteq Unmigrated'
      BY <1>1, <2>2, OpenedStore DEF Unmigrated, Prune
    <3>3. UNCHANGED <<taken, bucket>>
      BY DEF Prune
    <3>4. QED
      BY <1>1, <1>3, <2>2, <3>1, <3>2, <3>3, OpenedStore DEF TelemetryInv, KeptInv
  <2>7. QED
    BY <2>4, <2>6 DEF TelemetryInv
<1>4. QED
  BY <1>2, <1>3 DEF Prune

\* migrate_telemetry_jsonl_to_sqlite: a bucket of the history that is left out is
\* there already.
LEMMA MigrateStep == TelemetryInv /\ Migrate => TelemetryInv'
<1> SUFFICES ASSUME TelemetryInv, Migrate PROVE TelemetryInv'
  OBVIOUS
<1> DEFINE added == {b \in Legacy : legacyFile /\ \A r \in Opened.rows : r.start # b.start}
<1>1. /\ UNCHANGED <<now, starts, bucket, lastTick, lastSeen, outages, taken, legacyFile>>
      /\ store' = Migrated(Opened) /\ lost' = lost \cup GoneWith(store)
      /\ phase = "opening" /\ phase' \in {"renaming", "pruning"}
  BY DEF Migrate
<1>2. /\ IsStore(store) /\ IsStore(Opened) /\ Opened.rows \subseteq store.rows
      /\ bucket.samples = {} /\ Tiles(store.rows)
  BY <1>1, OpenedStore DEF TelemetryInv, StoreInv, BucketInv
<1>3. /\ IsStore(store') /\ store'.migrated
      /\ store'.rows = IF Opened.migrated THEN Opened.rows ELSE Opened.rows \cup added
  <2>1. Opened \in [rows : {Opened.rows}, migrated : BOOLEAN, damaged : BOOLEAN]
    BY <1>2 DEF IsStore
  <2>2. CASE Opened.migrated
    BY <1>1, <1>2, <2>2 DEF Migrated
  <2>3. CASE ~Opened.migrated
    <3>1. store' = [Opened EXCEPT !.migrated = TRUE, !.rows = Opened.rows \cup added]
      BY <1>1, <2>3 DEF Migrated
    <3> HIDE DEF added
    <3>2. store' = [rows |-> Opened.rows \cup added, migrated |-> TRUE, damaged |-> Opened.damaged]
      BY <2>1, <3>1
    <3>3. QED
      BY <1>2, <2>3, <3>2 DEF IsStore
  <2>4. QED
    BY <2>2, <2>3
<1>4. /\ now \in Nat /\ FirstTime \in Nat /\ lastSeen = now /\ lastTick = now /\ starts # 0
      /\ bucket.start \in FirstTime .. now
  BY <1>1, TelemetryConstants DEF TelemetryInv, ClockInv, BucketInv, Begun
<1>5. ASSUME NEW b \in Legacy
      PROVE  Sound(b) /\ b.start < FirstTime /\ SpanEnd(b) <= FirstTime /\ FirstTime \notin b.samples
  BY LegacyConstants, ViewConstants, TelemetryConstants DEF Sound, SpanEnd
<1>6. ASSUME NEW b \in Legacy, NEW r \in store.rows, r # b, r.start # b.start
      PROVE  Apart(b, r) /\ Apart(r, b)
  <2>1. Sound(r)
    BY <1>2 DEF Tiles
  <2>2. CASE r \in Legacy
    BY <1>6, <2>2, LegacyConstants DEF Apart
  <2>3. CASE FirstTime <= r.start
    BY <1>4, <1>5, <2>1, <2>3 DEF Apart, Sound
  <2>4. QED
    BY <2>1, <2>2, <2>3 DEF Sound
<1>7. Tiles(store'.rows)
  <2>1. ASSUME NEW b \in added, NEW r \in Opened.rows PROVE Apart(b, r) /\ Apart(r, b)
    BY <1>2, <1>6, <2>1
  <2>2. ASSUME NEW b \in Legacy, NEW c \in Legacy PROVE b = c \/ Apart(b, c)
    BY LegacyConstants DEF Apart
  <2>3. Tiles(Opened.rows)
    BY <1>2, TilesSubset
  <2>4. Tiles(Opened.rows \cup added)
    <3>1. added \subseteq Legacy
      OBVIOUS
    <3> HIDE DEF added
    <3>2. QED
      BY <1>5, <2>1, <2>2, <2>3, <3>1 DEF Tiles
  <2>5. QED
    BY <1>3, <2>3, <2>4
<1>8. ClockInv'
  BY <1>1, <1>4 DEF TelemetryInv, ClockInv, Phases, Begun
<1>9. BucketInv'
  BY <1>1 DEF TelemetryInv, BucketInv, Begun
<1>10. ASSUME NEW r \in store'.rows PROVE r \in store.rows \/ r \in Legacy
  BY <1>2, <1>3
<1>11. StoreInv'
  <2>1. ASSUME NEW r \in store'.rows PROVE Behind(r)'
    <3>1. CASE r \in store.rows
      BY <1>1, <3>1 DEF TelemetryInv, StoreInv, Behind, Begun
    <3>2. CASE r \in Legacy
      BY <1>1, <1>2, <1>4, <1>5, <3>2 DEF Behind, Sound
    <3>3. QED
      BY <1>10, <3>1, <3>2
  <2>2. QED
    BY <1>1, <1>3, <1>4, <1>7, <2>1 DEF StoreInv
<1>12. KeptInv'
  <2>1. ASSUME legacyFile, ~Opened.migrated PROVE LegacySamples \subseteq Held(store'.rows)
    <3>1. ASSUME NEW b \in Legacy PROVE b \in store'.rows
      <4>1. CASE b \in added
        BY <1>3, <2>1, <4>1
      <4>2. CASE b \notin added
        <5>1. PICK r \in Opened.rows : r.start = b.start
          BY <2>1, <4>2
        <5>2. Sound(r) /\ b.start < FirstTime
          BY <1>2, <1>5, <5>1 DEF Tiles
        <5>3. r \in Legacy
          BY <1>4, <5>1, <5>2 DEF Sound
        <5>4. r = b
          BY <5>1, <5>3, LegacyConstants
        <5>5. QED
          BY <1>3, <2>1, <5>1, <5>4
      <4>3. QED
        BY <4>1, <4>2
    <3>2. QED
      BY <3>1 DEF LegacySamples, Held
  <2>2. Held(store.rows) \subseteq lost' \cup Held(store'.rows)
    <3>1. Held(Opened.rows) \subseteq Held(store'.rows)
      BY <1>3 DEF Held
    <3>2. QED
      BY <1>1, <1>2, <3>1, OpenedStore
  <2>3. Unmigrated \subseteq Held(store'.rows)
    BY <1>2, <2>1, OpenedStore DEF Unmigrated
  <2>4. QED
    BY <1>1, <2>2, <2>3 DEF TelemetryInv, KeptInv
<1>13. OutageInv'
  <2>1. ASSUME NEW o \in outages, o.end \in {"tick", "start"}, NEW r \in store'.rows
        PROVE  Outside(r, o)
    <3>1. /\ o.from \in Nat /\ FirstTime <= o.from
          /\ \A x \in store.rows : Outside(x, o)
      BY <2>1 DEF TelemetryInv, OutageInv
    <3>2. CASE r \in Legacy
      BY <1>4, <1>5, <3>1, <3>2 DEF Outside, Sound
    <3>3. QED
      BY <1>10, <3>1, <3>2
  <2>2. QED
    BY <1>1, <2>1 DEF TelemetryInv, OutageInv, Begun
<1>14. QED
  BY <1>8, <1>9, <1>11, <1>12, <1>13 DEF TelemetryInv

\* What writing the bucket in progress leaves, for whatever happens to the bucket next.
LEMMA PersistStep ==
    ASSUME TelemetryInv, phase \in {"idle", "ticking"}, NEW b, NEW end \in Nat, Persist(b, end),
           b.start = bucket.start, b.start <= end,
           b.samples \subseteq b.start .. end, b.count = Cardinality(b.samples),
           \A r \in store.rows : r.samples \cap b.samples = {}
    PROVE  /\ IsStore(store') /\ Tiles(store'.rows)
           /\ \A r \in store'.rows :
                \/ r \in store.rows
                \/ r.start = bucket.start /\ SpanEnd(r) = end /\ r.samples = b.samples
           /\ store'.migrated => store.migrated
           /\ lost \subseteq lost'
           /\ b.samples \cup Held(store.rows) \subseteq lost' \cup Held(store'.rows)
<1>1. ClockInv /\ BucketInv /\ StoreInv /\ Begun
  BY DEF TelemetryInv, Begun
<1>2. /\ \A r \in store.rows : r.start # b.start
      /\ SpanEnd(Stored(b, end)) = end
      /\ Tiles(store.rows \cup {Stored(b, end)})
  BY <1>1, BucketIsRow
<1>3. IsStore(store)
  BY DEF TelemetryInv, StoreInv
<1>4. /\ IsStore(store')
      /\ store'.rows \subseteq store.rows \cup {Stored(b, end)}
      /\ store'.migrated => store.migrated
      /\ lost \subseteq lost'
      /\ b.samples \cup Held(store.rows) \subseteq lost' \cup Held(store'.rows)
  BY <1>2, <1>3, PersistKeeps
<1>5. Tiles(store'.rows)
  BY <1>2, <1>4, TilesSubset
<1>6. Stored(b, end).start = bucket.start /\ Stored(b, end).samples = b.samples
  BY DEF Stored
<1>7. QED
  BY <1>2, <1>4, <1>5, <1>6

\* A bucket that counts no sample holds none.
LEMMA NoCount == BucketInv /\ ~(bucket.count > 0) => bucket.samples = {}
<1>1. ASSUME BucketInv PROVE bucket.count \in Nat /\ (bucket.count = 0 => bucket.samples = {})
  BY <1>1, FS_CardinalityType, FS_EmptySet DEF BucketInv
<1>2. QED
  BY <1>1

\* _telemetry_split_across_gap leaves no bucket that reaches over the gap.
LEMMA TickBeginsStep == TelemetryInv /\ TickBegins => TelemetryInv'
<1> SUFFICES ASSUME TelemetryInv, TickBegins PROVE TelemetryInv'
  OBVIOUS
<1>1. /\ UNCHANGED <<now, starts, legacyFile, taken>>
      /\ phase = "idle" /\ phase' = "ticking" /\ now > lastTick
      /\ lastTick' = now /\ lastSeen' = now
      /\ outages' = outages \cup Outage(now, "tick")
  BY DEF TickBegins
<1>2. /\ now \in Nat /\ starts \in Nat \ {0} /\ lastTick \in Nat /\ lastSeen = lastTick
      /\ FirstTime \in Nat /\ bucket.start \in FirstTime .. lastTick
      /\ bucket.samples \subseteq bucket.start .. lastTick
      /\ bucket.count = Cardinality(bucket.samples) /\ FirstTime <= lastTick
  BY <1>1, TelemetryConstants DEF TelemetryInv, ClockInv, BucketInv, Begun
<1>3. ASSUME NEW r \in store.rows
      PROVE  /\ SpanEnd(r) \in Nat /\ r.start \in Nat /\ r.start < bucket.start
             /\ SpanEnd(r) <= bucket.start /\ r.samples \cap bucket.samples = {}
             /\ r.samples \subseteq r.start .. SpanEnd(r)
  BY <1>1 DEF TelemetryInv, StoreInv, Tiles, Sound, Behind, Begun
<1>4. IsStore(store) /\ Tiles(store.rows)
  BY DEF TelemetryInv, StoreInv
<1>5. /\ IsStore(store') /\ Tiles(store'.rows)
      /\ \A r \in store'.rows :
            \/ r \in store.rows
            \/ IsGap /\ r.start = bucket.start /\ SpanEnd(r) = lastTick /\ r.samples = bucket.samples
      /\ store'.migrated => store.migrated
      /\ lost \subseteq lost'
      /\ bucket.samples \cup Held(store.rows) \subseteq lost' \cup Held(store'.rows) \cup bucket'.samples
      /\ IF IsGap THEN bucket' = NewBucket(now) ELSE bucket' = bucket
  <2>1. CASE IsGap /\ bucket.count > 0
    <3>1. Persist(bucket, lastTick) /\ bucket' = NewBucket(now)
      BY <2>1 DEF TickBegins, SplitAcrossGap
    <3>2. QED
      BY <1>1, <1>2, <1>3, <2>1, <3>1, PersistStep
  <2>2. CASE IsGap /\ ~(bucket.count > 0)
    <3>1. UNCHANGED <<store, lost>> /\ bucket' = NewBucket(now)
      BY <2>2 DEF TickBegins, SplitAcrossGap
    <3>2. bucket.samples = {}
      BY <2>2, NoCount DEF TelemetryInv
    <3>3. QED
      BY <1>4, <2>2, <3>1, <3>2
  <2>3. CASE ~IsGap
    <3>1. UNCHANGED <<store, lost, bucket>>
      BY <2>3 DEF TickBegins
    <3>2. QED
      BY <1>4, <2>3, <3>1
  <2>4. QED
    BY <2>1, <2>2, <2>3
<1>6. /\ bucket'.start \in FirstTime .. now
      /\ bucket'.samples \subseteq bucket'.start .. lastTick
      /\ bucket.start <= bucket'.start
      /\ IsGap => bucket'.start = now /\ bucket'.samples = {}
      /\ ~IsGap => bucket' = bucket
  BY <1>1, <1>2, <1>5 DEF NewBucket
<1>7. ClockInv'
  BY <1>1, <1>2 DEF ClockInv, Phases, Begun
<1>8. BucketInv'
  <2>1. CASE IsGap
    <3>1. /\ bucket' = [start |-> now, count |-> 0, agg |-> NewAgg, samples |-> {}]
          /\ Cardinality({}) = 0 /\ IsFiniteSet({})
      BY <1>5, <2>1, FS_EmptySet DEF NewBucket
    <3>2. QED
      BY <1>1, <1>2, <3>1 DEF BucketInv
  <2>2. CASE ~IsGap
    BY <1>1, <1>2, <1>5, <2>2 DEF TelemetryInv, BucketInv, Begun
  <2>3. QED
    BY <2>1, <2>2
<1>9. StoreInv'
  <2>1. ASSUME NEW r \in store'.rows PROVE Behind(r)'
    <3>1. SpanEnd(r) \in Nat /\ r.start \in Nat
      BY <1>5 DEF Tiles, Sound
    <3>2. CASE r \in store.rows
      <4>1. r.samples \cap bucket'.samples = {}
        BY <1>3, <1>6, <3>2
      <4>2. QED
        BY <1>1, <1>2, <1>3, <1>6, <3>2, <4>1 DEF Behind
    <3>3. CASE IsGap /\ r.start = bucket.start /\ SpanEnd(r) = lastTick
      BY <1>1, <1>2, <1>6, <3>3 DEF Behind
    <3>4. QED
      BY <1>5, <3>2, <3>3
  <2>2. QED
    BY <1>1, <1>2, <1>5, <2>1 DEF StoreInv
<1>10. KeptInv'
  <2>1. Unmigrated \subseteq Unmigrated'
    BY <1>1, <1>4, <1>5 DEF Unmigrated
  <2>2. QED
    BY <1>1, <1>5, <2>1 DEF TelemetryInv, KeptInv
<1>11. OutageInv'
  <2>1. ASSUME NEW o \in outages', o.end \in {"tick", "start"}
        PROVE  /\ o.from \in Nat /\ o.to \in Nat /\ FirstTime <= o.from
               /\ o.to - o.from >= MinGap /\ o.to <= now /\ o.to <= bucket'.start
               /\ \A r \in store'.rows : Outside(r, o)
    <3>1. CASE o \in outages
      <4>1. /\ o.from \in Nat /\ o.to \in Nat /\ FirstTime <= o.from
            /\ o.to - o.from >= MinGap /\ o.to <= lastSeen /\ o.to <= bucket.start
            /\ \A r \in store.rows : Outside(r, o)
        BY <1>1, <2>1, <3>1 DEF TelemetryInv, OutageInv, Begun
      <4>2. \A r \in store'.rows : Outside(r, o)
        BY <1>5, <4>1 DEF Outside
      <4>3. QED
        BY <1>1, <1>2, <1>6, <4>1, <4>2
    <3>2. CASE o \in Outage(now, "tick")
      <4>1. now - lastSeen >= MinGap /\ o.from = lastSeen /\ o.to = now
        BY <3>2 DEF Outage
      <4>2. IsGap
        BY <1>2, <4>1 DEF IsGap
      <4>3. \A r \in store'.rows : SpanEnd(r) <= lastTick
        BY <1>2, <1>3, <1>5
      <4>4. QED
        BY <1>2, <1>6, <4>1, <4>2, <4>3 DEF Outside
    <3>3. QED
      BY <1>1, <2>1, <3>1, <3>2
  <2>2. QED
    BY <1>1, <2>1 DEF OutageInv
<1>12. QED
  BY <1>7, <1>8, <1>9, <1>10, <1>11 DEF TelemetryInv

\* A bucket with other values in three of its fields.
Edited(b, n, agg, times) == [b EXCEPT !.count = n, !.agg = agg, !.samples = times]

LEMMA EditBucket ==
    ASSUME NEW b, NEW n, NEW agg, NEW times,
           b = [start |-> b.start, count |-> b.count, agg |-> b.agg, samples |-> b.samples]
    PROVE  Edited(b, n, agg, times) =
           [start |-> b.start, count |-> n, agg |-> agg, samples |-> times]
<1> DEFINE one == [b EXCEPT !.count = n]
           two == [one EXCEPT !.agg = agg]
           three == [two EXCEPT !.samples = times]
<1>1. one = [start |-> b.start, count |-> n, agg |-> b.agg, samples |-> b.samples]
  <2>1. b \in [start : {b.start}, count : {b.count}, agg : {b.agg}, samples : {b.samples}]
    OBVIOUS
  <2>2. QED
    BY <2>1
<1>2. two = [start |-> b.start, count |-> n, agg |-> agg, samples |-> b.samples]
  <2> HIDE DEF one
  <2>1. one \in [start : {b.start}, count : {n}, agg : {b.agg}, samples : {b.samples}]
    BY <1>1
  <2>2. QED
    BY <1>1, <2>1
<1>3. three = [start |-> b.start, count |-> n, agg |-> agg, samples |-> times]
  <2> HIDE DEF two
  <2>1. two \in [start : {b.start}, count : {n}, agg : {agg}, samples : {b.samples}]
    BY <1>2
  <2>2. QED
    BY <1>2, <2>1
<1>4. QED
  BY <1>3 DEF Edited

\* _telemetry_observe_tick: a bucket that is finalised ends where the next begins.
LEMMA TickEndsStep == TelemetryInv /\ TickEnds => TelemetryInv'
<1> SUFFICES ASSUME TelemetryInv, TickEnds PROVE TelemetryInv'
  OBVIOUS
<1>1. /\ UNCHANGED <<now, starts, lastTick, legacyFile, lastSeen, outages>>
      /\ phase = "ticking" /\ phase' = "idle" /\ taken' = taken \cup {now}
  BY DEF TickEnds
<1>2. /\ now \in Nat /\ starts # 0 /\ lastTick = now /\ lastSeen = now
      /\ FirstTime \in Nat /\ bucket.start \in FirstTime .. now
      /\ bucket.samples \subseteq bucket.start .. now /\ now \notin bucket.samples
      /\ bucket.count = Cardinality(bucket.samples) /\ IsFiniteSet(bucket.samples)
  BY <1>1, TelemetryConstants DEF TelemetryInv, ClockInv, BucketInv, Begun
<1>3. /\ Observed.start = bucket.start /\ Observed.samples = bucket.samples \cup {now}
      /\ Observed.count = Cardinality(Observed.samples) /\ IsFiniteSet(Observed.samples)
      /\ Observed = [start |-> Observed.start, count |-> Observed.count, agg |-> Observed.agg,
                     samples |-> Observed.samples]
  <2>1. bucket = [start |-> bucket.start, count |-> bucket.count, agg |-> bucket.agg,
                  samples |-> bucket.samples]
    BY DEF TelemetryInv, BucketInv
  <2>2. Observed = [start |-> bucket.start, count |-> bucket.count + 1,
                    agg |-> Added(bucket.agg, Reading[now]), samples |-> bucket.samples \cup {now}]
    <3>1. Observed = Edited(bucket, bucket.count + 1, Added(bucket.agg, Reading[now]),
                            bucket.samples \cup {now})
      BY Zenon DEF Observed, Edited
    <3>2. QED
      BY <2>1, <3>1, EditBucket
  <2>3. /\ Cardinality(bucket.samples \cup {now}) = bucket.count + 1
        /\ IsFiniteSet(bucket.samples \cup {now})
    BY <1>2, FS_AddElement
  <2>4. QED
    BY <2>2, <2>3
<1>4. ASSUME NEW r \in store.rows
      PROVE  /\ SpanEnd(r) \in Nat /\ r.start \in Nat /\ r.start < bucket.start
             /\ SpanEnd(r) <= bucket.start /\ r.samples \cap Observed.samples = {}
             /\ SpanEnd(r) < now
  BY <1>1, <1>2, <1>3 DEF TelemetryInv, StoreInv, Tiles, Sound, Behind, Begun
<1>5. IsStore(store) /\ Tiles(store.rows)
  BY DEF TelemetryInv, StoreInv
<1>6. CASE now - bucket.start >= BucketSeconds
  <2>1. Persist(Observed, now) /\ bucket' = NewBucket(now)
    BY <1>6 DEF TickEnds, NextBucket
  <2>2. bucket.start < now
    BY <1>2, <1>6, ViewConstants
  <2>3. /\ IsStore(store') /\ Tiles(store'.rows)
        /\ \A r \in store'.rows :
              \/ r \in store.rows
              \/ r.start = bucket.start /\ SpanEnd(r) = now /\ r.samples = Observed.samples
        /\ store'.migrated => store.migrated
        /\ lost \subseteq lost'
        /\ Observed.samples \cup Held(store.rows) \subseteq lost' \cup Held(store'.rows)
    <3>1. Observed.samples \subseteq Observed.start .. now
      BY <1>2, <1>3
    <3>2. QED
      BY <1>1, <1>2, <1>3, <1>4, <2>1, <3>1, PersistStep
  <2>4. bucket'.start = now /\ bucket'.samples = {} /\ BucketInv'
    BY <1>1, <1>2, <2>1, FS_EmptySet DEF BucketInv, NewBucket
  <2>5. ClockInv'
    BY <1>1, <1>2 DEF TelemetryInv, ClockInv, Phases, Begun
  <2>6. StoreInv'
    <3>1. ASSUME NEW r \in store'.rows PROVE Behind(r)'
      BY <1>1, <1>2, <1>4, <2>2, <2>3, <2>4 DEF Behind
    <3>2. QED
      BY <1>1, <1>2, <2>3, <3>1 DEF StoreInv
  <2>7. KeptInv'
    <3>1. Unmigrated \subseteq Unmigrated'
      BY <1>1, <1>5, <2>3 DEF Unmigrated
    <3>2. QED
      BY <1>1, <1>3, <2>3, <3>1 DEF TelemetryInv, KeptInv
  <2>8. OutageInv'
    <3>1. ASSUME NEW o \in outages, o.end \in {"tick", "start"}
          PROVE  o.to <= now /\ \A r \in store'.rows : Outside(r, o)
      <4>1. /\ o.to \in Nat /\ o.to <= lastSeen /\ o.to <= bucket.start
            /\ \A r \in store.rows : Outside(r, o)
        BY <1>1, <3>1 DEF TelemetryInv, OutageInv, Begun
      <4>2. QED
        BY <1>2, <2>3, <4>1 DEF Outside
    <3>2. QED
      BY <1>1, <2>4, <3>1 DEF TelemetryInv, OutageInv
  <2>9. QED
    BY <2>4, <2>5, <2>6, <2>7, <2>8 DEF TelemetryInv
<1>7. CASE ~(now - bucket.start >= BucketSeconds)
  <2>1. bucket' = Observed /\ UNCHANGED <<store, lost>>
    BY <1>7 DEF TickEnds
  <2>2. ClockInv'
    BY <1>1, <1>2 DEF TelemetryInv, ClockInv, Phases, Begun
  <2>3. BucketInv'
    <3>1. Observed.samples \subseteq Nat /\ Observed.samples \subseteq Observed.start .. now
      BY <1>2, <1>3
    <3> HIDE DEF Observed
    <3>2. QED
      BY <1>1, <1>2, <1>3, <2>1, <3>1 DEF BucketInv
  <2>4. StoreInv'
    <3>1. ASSUME NEW r \in store.rows PROVE Behind(r)'
      BY <1>1, <1>2, <1>3, <1>4, <2>1 DEF Behind
    <3>2. QED
      BY <1>1, <1>2, <1>5, <2>1, <3>1 DEF StoreInv
  <2>5. KeptInv'
    BY <1>1, <1>3, <2>1 DEF TelemetryInv, KeptInv, Unmigrated
  <2>6. OutageInv'
    BY <1>1, <1>3, <2>1 DEF TelemetryInv, OutageInv, Begun
  <2>7. QED
    BY <2>2, <2>3, <2>4, <2>5, <2>6 DEF TelemetryInv
<1>8. QED
  BY <1>6, <1>7

\* close() and destroy(): the bucket in progress is finalised.
LEMMA CloseStep == TelemetryInv /\ Close => TelemetryInv'
<1> SUFFICES ASSUME TelemetryInv, Close PROVE TelemetryInv'
  OBVIOUS
<1>1. /\ UNCHANGED <<now, starts, lastTick, legacyFile, taken>>
      /\ phase = "idle" /\ phase' = "off" /\ bucket' = NewBucket(0) /\ lastSeen' = now
      /\ outages' = outages \cup Outage(now, "close")
  BY DEF Close
<1>2. /\ now \in Nat /\ starts \in Nat \ {0} /\ lastTick \in Nat /\ lastSeen = lastTick
      /\ FirstTime \in Nat /\ bucket.start \in FirstTime .. lastTick /\ lastTick <= now
      /\ bucket.samples \subseteq bucket.start .. lastTick
      /\ bucket.count = Cardinality(bucket.samples)
  BY <1>1, TelemetryConstants DEF TelemetryInv, ClockInv, BucketInv, Begun
<1>3. ASSUME NEW r \in store.rows
      PROVE  SpanEnd(r) \in Nat /\ SpanEnd(r) <= bucket.start /\ r.samples \cap bucket.samples = {}
  BY <1>1 DEF TelemetryInv, StoreInv, Tiles, Sound, Behind, Begun
<1>4. /\ IsStore(store') /\ Tiles(store'.rows)
      /\ \A r \in store'.rows : r \in store.rows \/ (r.start = bucket.start /\ SpanEnd(r) = now)
      /\ store'.migrated => store.migrated
      /\ lost \subseteq lost'
      /\ bucket.samples \cup Held(store.rows) \subseteq lost' \cup Held(store'.rows)
  <2>1. CASE bucket.count > 0
    <3>1. Persist(bucket, now) /\ bucket.samples \subseteq bucket.start .. now
      BY <1>2, <2>1 DEF Close, FinalizeAtClose
    <3>2. QED
      BY <1>1, <1>2, <1>3, <3>1, PersistStep
  <2>2. CASE ~(bucket.count > 0)
    <3>1. UNCHANGED <<store, lost>> /\ bucket.samples = {}
      BY <2>2, NoCount DEF Close, FinalizeAtClose, TelemetryInv
    <3>2. QED
      BY <3>1 DEF TelemetryInv, StoreInv
  <2>3. QED
    BY <2>1, <2>2
<1>5. bucket'.samples = {} /\ BucketInv'
  BY <1>1, FS_EmptySet DEF BucketInv, NewBucket, Begun
<1>6. ClockInv'
  BY <1>1, <1>2 DEF ClockInv, Phases, Begun
<1>7. StoreInv'
  <2>1. ASSUME NEW r \in store'.rows PROVE Behind(r)'
    BY <1>1, <1>2, <1>3, <1>4, <1>5 DEF Behind, Begun
  <2>2. QED
    BY <1>1, <1>2, <1>4, <2>1 DEF StoreInv
<1>8. KeptInv'
  <2>1. Unmigrated \subseteq Unmigrated'
    BY <1>1, <1>4 DEF Unmigrated, TelemetryInv, StoreInv, IsStore
  <2>2. QED
    BY <1>1, <1>4, <2>1 DEF TelemetryInv, KeptInv
<1>9. OutageInv'
  <2>1. ASSUME NEW o \in outages', o.end \in {"tick", "start"}
        PROVE  /\ o.from \in Nat /\ o.to \in Nat /\ FirstTime <= o.from
               /\ o.to - o.from >= MinGap /\ o.to <= now
               /\ \A r \in store'.rows : Outside(r, o)
    <3>1. o \in outages
      BY <1>1, <2>1 DEF Outage
    <3>2. /\ o.from \in Nat /\ o.to \in Nat /\ FirstTime <= o.from
          /\ o.to - o.from >= MinGap /\ o.to <= lastSeen /\ o.to <= bucket.start
          /\ \A r \in store.rows : Outside(r, o)
      BY <1>1, <2>1, <3>1 DEF TelemetryInv, OutageInv, Begun
    <3>3. QED
      BY <1>2, <1>4, <3>2 DEF Outside
  <2>2. QED
    BY <1>1, <2>1 DEF OutageInv, Begun
<1>10. QED
  BY <1>5, <1>6, <1>7, <1>8, <1>9 DEF TelemetryInv

LEMMA CrashStep == TelemetryInv /\ Crash => TelemetryInv'
<1> SUFFICES ASSUME TelemetryInv, Crash PROVE TelemetryInv'
  OBVIOUS
<1>1. /\ UNCHANGED <<now, starts, lastTick, store, legacyFile, taken, lastSeen, outages>>
      /\ phase # "off" /\ phase' = "off" /\ bucket' = NewBucket(0)
      /\ lost' = lost \cup bucket.samples
  BY DEF Crash
<1>2. bucket'.samples = {} /\ BucketInv'
  BY <1>1, FS_EmptySet DEF BucketInv, NewBucket, Begun
<1>3. ClockInv'
  BY <1>1 DEF TelemetryInv, ClockInv, Phases, Begun
<1>4. StoreInv'
  BY <1>1, <1>2 DEF TelemetryInv, StoreInv, Behind, Begun
<1>5. KeptInv'
  BY <1>1 DEF TelemetryInv, KeptInv, Unmigrated
<1>6. OutageInv'
  BY <1>1 DEF TelemetryInv, OutageInv, Begun
<1>7. QED
  BY <1>2, <1>3, <1>4, <1>5, <1>6 DEF TelemetryInv

LEMMA TelemetryNext == TelemetryInv /\ [Next]_vars => TelemetryInv'
<1> SUFFICES ASSUME TelemetryInv, [Next]_vars PROVE TelemetryInv'
  OBVIOUS
<1>1. CASE Next
  BY <1>1, QuietStep, StartStep, MigrateStep, MigrationRaisesStep, PruneStep, TickBeginsStep,
     TickEndsStep, CloseStep, CrashStep DEF Next
<1>2. CASE UNCHANGED vars
  <2>1. ClockInv' /\ BucketInv'
    BY <1>2 DEF vars, TelemetryInv, ClockInv, BucketInv, Begun
  <2>2. StoreInv'
    BY <1>2 DEF vars, TelemetryInv, StoreInv, Behind, Begun
  <2>3. KeptInv' /\ OutageInv'
    BY <1>2 DEF vars, TelemetryInv, KeptInv, Unmigrated, OutageInv, Begun
  <2>4. QED
    BY <2>1, <2>2, <2>3 DEF TelemetryInv
<1>3. QED
  BY <1>1, <1>2

\* The inductive invariant of the telemetry store.
THEOREM TelemetryIsSound == Spec => []TelemetryInv
<1>1. QED
  BY TelemetryInit, TelemetryNext, PTL DEF Spec

-----------------------------------------------------------------------------
\* WHAT A READER CAN FIND

\* The bucket in progress, as a reader of memory sees it, tiles with the rows.
LEMMA BucketsTileNow ==
    ASSUME TelemetryInv
    PROVE  /\ Tiles(Buckets)
           /\ \A b \in Buckets : SpanEnd(b) <= now
<1>1. ASSUME NEW r \in store.rows PROVE SpanEnd(r) <= now
  BY TelemetryConstants DEF TelemetryInv, StoreInv, Behind, ClockInv, Tiles, Sound
<1>2. CASE phase \in {"idle", "ticking"} /\ bucket.count > 0
  <2>1. ClockInv /\ BucketInv /\ StoreInv /\ Begun
    BY <1>2 DEF TelemetryInv, Begun
  <2>2. /\ now \in Nat /\ bucket.start <= now
        /\ bucket.samples \subseteq bucket.start .. now
    BY <2>1, TelemetryConstants DEF ClockInv, BucketInv
  <2>3. \A r \in store.rows : r.samples \cap bucket.samples = {}
    BY <2>1 DEF StoreInv, Behind
  <2>4. /\ Tiles(store.rows \cup {Stored(bucket, now)})
        /\ SpanEnd(Stored(bucket, now)) = now
    <3>1. bucket.count = Cardinality(bucket.samples)
      BY <2>1 DEF BucketInv
    <3>2. QED
      BY <2>1, <2>2, <2>3, <3>1, BucketIsRow
  <2>5. Buckets = store.rows \cup {Stored(bucket, now)}
    BY <1>2 DEF Buckets, InProgress
  <2>6. QED
    BY <1>1, <2>2, <2>4, <2>5
<1>3. CASE ~(phase \in {"idle", "ticking"} /\ bucket.count > 0)
  <2>1. Buckets = store.rows
    BY <1>3 DEF Buckets, InProgress
  <2>2. QED
    BY <1>1, <2>1 DEF TelemetryInv, StoreInv
<1>4. QED
  BY <1>2, <1>3

\* The buckets cover time once, for every clock, history and sequence of faults.
THEOREM BucketsAlwaysTile == Spec => []BucketsTile
<1>1. TelemetryInv => BucketsTile
  <2> SUFFICES ASSUME TelemetryInv PROVE BucketsTile
    OBVIOUS
  <2>1. Tiles(Buckets)
    BY BucketsTileNow
  <2>2. ASSUME NEW b \in Buckets
        PROVE  /\ \A t \in b.samples : b.start <= t /\ t <= SpanEnd(b)
               /\ b.count = Cardinality(b.samples)
    BY <2>1 DEF Tiles, Sound
  <2>3. ASSUME NEW b \in Buckets, NEW c \in Buckets
        PROVE  /\ b = c \/ SpanEnd(b) <= c.start \/ SpanEnd(c) <= b.start
               /\ b # c => b.samples \cap c.samples = {}
    BY <2>1 DEF Tiles, Apart
  <2>4. QED
    BY <2>2, <2>3 DEF BucketsTile
<1>2. QED
  BY <1>1, TelemetryIsSound, PTL

\* A sample leaves only by a crash, a failed write, a damaged file or retention.
THEOREM NothingIsEverLost == Spec => []NothingIsLost
<1>1. TelemetryInv => NothingIsLost
  <2> SUFFICES ASSUME TelemetryInv PROVE NothingIsLost
    OBVIOUS
  <2>1. Held(store.rows) \subseteq UNION {b.samples : b \in Buckets}
    BY DEF Held, Buckets
  <2>2. QED
    BY <2>1 DEF TelemetryInv, KeptInv, Unmigrated, NothingIsLost
<1>2. QED
  BY <1>1, TelemetryIsSound, PTL

-----------------------------------------------------------------------------
\* OUTAGES

\* Some of the buckets are followed by all the others, in the order of _gap_spans.
LEMMA FirstBucket ==
    ASSUME NEW S, S # {}, \A b \in S : b.start \in Nat /\ SpanEnd(b) \in Nat
    PROVE  \E b \in S : \A c \in S : ~Precedes(c, b)
<1> DEFINE Starts == {b.start : b \in S}
<1>1. PICK m \in Starts : \A k \in Starts : m <= k
  <2>1. Starts \in SUBSET Nat /\ Starts # {}
    OBVIOUS
  <2> HIDE DEF Starts
  <2>2. QED
    BY <2>1, LeastNatural
<1> DEFINE T == {b \in S : b.start = m}
           Ends == {SpanEnd(b) : b \in T}
<1>2. PICK e \in Ends : \A k \in Ends : e <= k
  <2>1. Ends \in SUBSET Nat /\ Ends # {}
    OBVIOUS
  <2> HIDE DEF Ends
  <2>2. QED
    BY <2>1, LeastNatural
<1>3. PICK b \in T : SpanEnd(b) = e
  BY <1>2
<1>4. ASSUME NEW c \in S, Precedes(c, b) PROVE FALSE
  <2>1. m <= c.start /\ b.start = m /\ m \in Nat /\ c.start \in Nat
    BY <1>1
  <2>2. c.start = m /\ SpanEnd(c) < SpanEnd(b)
    BY <1>4, <2>1 DEF Precedes
  <2>3. e <= SpanEnd(c)
    BY <1>2, <2>2
  <2>4. e \in Nat /\ SpanEnd(c) \in Nat
    BY <1>2
  <2>5. QED
    BY <1>3, <2>2, <2>3, <2>4
<1>5. QED
  BY <1>3, <1>4

\* The cursor that has passed only buckets that end by some time is not past it.
LEMMA CursorIsBehind ==
    ASSUME NEW S, NEW bound \in Nat, NEW base \in 0 .. bound,
           \A b \in S : SpanEnd(b) \in 0 .. bound
    PROVE  Max({base} \cup {SpanEnd(b) : b \in S}) \in 0 .. bound
<1> DEFINE T == {base} \cup {SpanEnd(b) : b \in S}
<1>1. T \subseteq 0 .. bound /\ T # {}
  OBVIOUS
<1> HIDE DEF T
<1>2. Max(T) \in T
  BY <1>1, MaxIsIn
<1>3. QED
  BY <1>1, <1>2 DEF T

\* A stretch that no bucket reaches into lies within a gap: the one before the first
\* of the buckets that follow it, or the last one.
LEMMA StretchIsReported ==
    ASSUME NEW S, NEW from \in Nat, NEW to \in Nat, NEW end \in Nat,
           NEW base \in 0 .. from, to <= end, to - from >= MinGap,
           \A b \in S : b.start \in Nat /\ SpanEnd(b) \in Nat,
           \A b \in S : SpanEnd(b) <= from \/ to <= b.start
    PROVE  \E g \in GapSpans(S, base, end) : g.from <= from /\ to <= g.to
<1> DEFINE later == {b \in S : to <= b.start}
           inner == {[from |-> Cursor(S, b, base), to |-> b.start] : b \in S}
           last == [from |-> Max({base} \cup {SpanEnd(b) : b \in S}), to |-> end]
<1>1. GapSpans(S, base, end) = {g \in inner \cup {last} : g.to - g.from >= MinGap}
  BY DEF GapSpans
<1>2. CASE later = {}
  <2>1. Max({base} \cup {SpanEnd(b) : b \in S}) \in 0 .. from
    BY <1>2, CursorIsBehind
  <2>2. last.from \in 0 .. from /\ last.to = end
    BY <2>1
  <2>3. last.to - last.from >= MinGap
    BY <2>2, MinGapType
  <2>4. last \in GapSpans(S, base, end)
    BY <1>1, <2>3
  <2> HIDE DEF last
  <2>5. QED
    BY <2>2, <2>4
<1>3. CASE later # {}
  <2>1. PICK b \in later : \A c \in later : ~Precedes(c, b)
    BY <1>3, FirstBucket
  <2> DEFINE before == {d \in S : Precedes(d, b)}
             gap == [from |-> Cursor(S, b, base), to |-> b.start]
  <2>2. Max({base} \cup {SpanEnd(c) : c \in before}) \in 0 .. from
    <3>1. ASSUME NEW c \in before PROVE SpanEnd(c) \in 0 .. from
      BY <2>1
    <3> HIDE DEF before
    <3>2. QED
      BY <3>1, CursorIsBehind
  <2>3. gap.from \in 0 .. from /\ gap.to = b.start
    BY <2>2 DEF Cursor
  <2>4. b \in S /\ to <= b.start /\ b.start \in Nat
    BY <2>1
  <2>5. gap.to - gap.from >= MinGap
    BY <2>3, <2>4, MinGapType
  <2>6. gap \in GapSpans(S, base, end)
    BY <1>1, <2>4, <2>5
  <2> HIDE DEF gap
  <2>7. QED
    BY <2>3, <2>4, <2>6
<1>4. QED
  BY <1>2, <1>3

\* Every stretch without monitoring that a tick or a start ended lies within a gap of
\* the timeline.
THEOREM OutagesAreAlwaysReported == Spec => []OutagesAreReported
<1>1. TelemetryInv => OutagesAreReported
  <2> SUFFICES ASSUME TelemetryInv, NEW o \in outages, o.end \in {"tick", "start"}
               PROVE  Reported(o)
    BY DEF OutagesAreReported
  <2>1. /\ o.from \in Nat /\ o.to \in Nat /\ o.to - o.from >= MinGap /\ o.to <= lastSeen
        /\ Begun => o.to <= bucket.start
        /\ \A r \in store.rows : Outside(r, o)
    BY DEF TelemetryInv, OutageInv
  <2>2. now \in Nat /\ o.to <= now
    BY <2>1, TelemetryConstants DEF TelemetryInv, ClockInv
  <2>3. \A b \in Buckets : b.start \in Nat /\ SpanEnd(b) \in Nat
    BY BucketsTileNow DEF Tiles, Sound
  <2>4. ASSUME NEW b \in InProgress PROVE o.to <= b.start
    BY <2>1 DEF InProgress, Stored, Begun
  <2>5. \A b \in Buckets : SpanEnd(b) <= o.from \/ o.to <= b.start
    BY <2>1, <2>4 DEF Buckets, Outside
  <2>6. 0 \in 0 .. o.from
    BY <2>1
  <2>7. QED
    BY <2>1, <2>2, <2>3, <2>5, <2>6, StretchIsReported DEF Reported
<1>2. QED
  BY <1>1, TelemetryIsSound, PTL

-----------------------------------------------------------------------------
\* THE READINGS IN A ROW

Seen(times) == {t \in times : Reading[t] # None}

Aggregates == [count : Nat, sum : Int, min : Int, max : Int]

\* The aggregate of a bucket in progress is that of its samples.
HoldsReadings(agg, times) ==
    IF Seen(times) = {} THEN agg = NewAgg ELSE agg = AggregateOf(times)

\* The store has finitely many rows, and each names the aggregate of its samples or is
\* older than the metric; no sample is later than the readings go.
RowsInv ==
    /\ now <= MaxTime
    /\ IsFiniteSet(store.rows)
    /\ \A r \in store.rows : r.metric \in {Absent, AggregateOf(r.samples)}
    /\ HoldsReadings(bucket.agg, bucket.samples)

LEMMA SumOfReadings ==
    ASSUME NEW S PROVE MapThenSumSet(LAMBDA t : Reading[t], S) = SumOver(Reading, S)
<1> DEFINE f == [t \in S |-> Reading[t]]
           Full(g) == g = [s \in SUBSET S |-> IF s = {} THEN 0 ELSE f[Pick(s)] + g[s \ {Pick(s)}]]
           Plain(g) == g = [s \in SUBSET S |-> IF s = {} THEN 0 ELSE Reading[Pick(s)] + g[s \ {Pick(s)}]]
<1>1. ASSUME NEW g PROVE Full(g) <=> Plain(g)
  <2>1. \A s \in SUBSET S : s # {} => f[Pick(s)] = Reading[Pick(s)]
    BY PickIsIn
  <2> HIDE DEF f
  <2> QED
    BY <2>1
<1>2. (CHOOSE g : Full(g)) = (CHOOSE g : Plain(g))
  <2> HIDE DEF f
  <2> QED
    BY <1>1
<1>3. SumOf(f) = (CHOOSE g : Full(g))[S]
  <2>1. DOMAIN f = S
    OBVIOUS
  <2> HIDE DEF f
  <2> QED
    BY <2>1 DEF SumOf, MapThenSumSet, MapThenFoldSet, Pick
<1>4. MapThenSumSet(LAMBDA t : Reading[t], S) = (CHOOSE g : Plain(g))[S]
  BY DEF MapThenSumSet, MapThenFoldSet, Pick
<1> QED
  BY <1>2, <1>3, <1>4 DEF SumOver

LEMMA SeenIsFinite ==
    ASSUME NEW times, IsFiniteSet(times), times \subseteq 0 .. MaxTime
    PROVE  /\ IsFiniteSet(Seen(times)) /\ Cardinality(Seen(times)) \in Nat
           /\ Seen(times) # {} => Cardinality(Seen(times)) # 0
           /\ \A t \in Seen(times) : Reading[t] \in Int
           /\ {Reading[t] : t \in Seen(times)} \in SUBSET Int
           /\ IsFiniteSet({Reading[t] : t \in Seen(times)})
<1> DEFINE S == Seen(times)
           T == {Reading[t] : t \in S}
           f == [t \in S |-> Reading[t]]
<1>1. IsFiniteSet(S)
  BY FS_Subset DEF Seen
<1>2. \A t \in S : Reading[t] \in Int
  BY ReadingConstants DEF Seen
<1>3. IsFiniteSet(T)
  <2>1. f \in Surjection(S, T)
    BY DEF Surjection
  <2> HIDE DEF f, S, T
  <2> QED
    BY <1>1, <2>1, FS_Surjection
<1>4. Cardinality(S) \in Nat /\ (S # {} => Cardinality(S) # 0)
  BY <1>1, FS_CardinalityType, FS_EmptySet
<1> QED
  BY <1>1, <1>2, <1>3, <1>4

\* The parts of an aggregate of readings.
LEMMA AggregateParts ==
    ASSUME NEW times, IsFiniteSet(times), times \subseteq 0 .. MaxTime
    PROVE  /\ Seen(times) = {} => AggregateOf(times) = None
           /\ Seen(times) # {} =>
                /\ AggregateOf(times) \in Aggregates
                /\ AggregateOf(times) =
                     [count |-> Cardinality(Seen(times)), sum |-> SumOver(Reading, Seen(times)),
                      min |-> Min({Reading[t] : t \in Seen(times)}),
                      max |-> Max({Reading[t] : t \in Seen(times)})]
                /\ AggregateOf(times) # None /\ AggregateOf(times) # Absent
<1> DEFINE S == Seen(times)
           T == {Reading[t] : t \in S}
           a == [count |-> Cardinality(S), sum |-> SumOver(Reading, S), min |-> Min(T), max |-> Max(T)]
<1>1. AggregateOf(times) = IF S = {} THEN None ELSE a
  BY SumOfReadings DEF AggregateOf, Seen
<1>2. ASSUME S # {} PROVE a \in Aggregates
  <2>1. Cardinality(S) \in Nat /\ SumOver(Reading, S) \in Int
    BY SeenIsFinite, SumIsInteger
  <2>2. T \in SUBSET Int /\ IsFiniteSet(T) /\ T # {}
    BY <1>2, SeenIsFinite
  <2> HIDE DEF T
  <2>3. Min(T) \in Int /\ Max(T) \in Int
    BY <2>2, MinOfIntegers, MaxOfIntegers
  <2> QED
    BY <2>1, <2>3 DEF Aggregates
<1>3. None \notin Aggregates /\ Absent \notin Aggregates
  BY ReadingConstants DEF Aggregates
<1> QED
  BY <1>1, <1>2, <1>3

\* _bucket_agg_result: None where nothing was observed.
LEMMA ResultOfReadings ==
    ASSUME NEW agg, NEW times, IsFiniteSet(times), times \subseteq 0 .. MaxTime,
           HoldsReadings(agg, times)
    PROVE  AggResult(agg) = AggregateOf(times)
<1>1. CASE Seen(times) = {}
  <2>1. AggregateOf(times) = None
    BY <1>1, AggregateParts
  <2>2. agg = NewAgg
    BY <1>1 DEF HoldsReadings
  <2> QED
    BY <2>1, <2>2 DEF AggResult, NewAgg
<1>2. CASE Seen(times) # {}
  <2>1. agg = AggregateOf(times)
    BY <1>2 DEF HoldsReadings
  <2>2. AggregateOf(times).count = Cardinality(Seen(times))
    <3>1. AggregateOf(times) =
            [count |-> Cardinality(Seen(times)), sum |-> SumOver(Reading, Seen(times)),
             min |-> Min({Reading[t] : t \in Seen(times)}),
             max |-> Max({Reading[t] : t \in Seen(times)})]
      BY <1>2, AggregateParts
    <3> QED
      BY <3>1
  <2>3. Cardinality(Seen(times)) # 0
    BY <1>2, SeenIsFinite
  <2> QED
    BY <2>1, <2>2, <2>3 DEF AggResult
<1> QED
  BY <1>1, <1>2

\* _bucket_agg_add: one more reading.
LEMMA OneMoreReading ==
    ASSUME NEW agg, NEW times, NEW t \in 0 .. MaxTime, t \notin times,
           IsFiniteSet(times), times \subseteq 0 .. MaxTime, HoldsReadings(agg, times)
    PROVE  HoldsReadings(Added(agg, Reading[t]), times \cup {t})
<1> DEFINE all == times \cup {t}
           v == Reading[t]
           S == Seen(times)
           T == {Reading[u] : u \in S}
           T1 == {Reading[u] : u \in Seen(all)}
<1>1. IsFiniteSet(all) /\ all \subseteq 0 .. MaxTime
  BY FS_AddElement
<1>2. CASE v = None
  <2>1. Seen(all) = S
    BY <1>2 DEF Seen
  <2>2. AggregateOf(all) = AggregateOf(times)
    BY <2>1, <1>1, AggregateParts
  <2> QED
    BY <1>2, <2>1, <2>2 DEF HoldsReadings, Added
<1>3. CASE v # None
  <2>1. Seen(all) = S \cup {t} /\ t \notin S /\ v \in Int
    BY <1>3, ReadingConstants DEF Seen
  <2>2. T1 = T \cup {v}
    BY <2>1
  <2>3. /\ IsFiniteSet(S) /\ Cardinality(S) \in Nat /\ \A u \in S : Reading[u] \in Int
        /\ T \in SUBSET Int /\ IsFiniteSet(T)
    BY SeenIsFinite
  <2>4. Cardinality(Seen(all)) = Cardinality(S) + 1 /\ IsFiniteSet(Seen(all))
    <3> HIDE DEF all, S
    <3>1. IsFiniteSet(S \cup {t}) /\ Cardinality(S \cup {t}) = Cardinality(S) + 1
      BY <2>1, <2>3, FS_AddElement
    <3> QED
      BY <2>1, <3>1
  <2>5. SumOver(Reading, Seen(all)) = v + SumOver(Reading, S) /\ SumOver(Reading, S) \in Int
    <3>1. Seen(all) \ {t} = S /\ t \in Seen(all) /\ \A u \in Seen(all) : Reading[u] \in Int
      BY <2>1, <2>3
    <3>2. SumOver(Reading, S) \in Int
      BY <2>3, SumIsInteger
    <3> DEFINE B == Seen(all)
    <3>3. IsFiniteSet(B) /\ t \in B /\ \A u \in B : Reading[u] \in Int
      BY <2>4, <3>1
    <3> HIDE DEF B
    <3>4. SumOver(Reading, B) = Reading[t] + SumOver(Reading, B \ {t})
      BY <3>3, SumTakesAny
    <3> QED
      BY <3>1, <3>2, <3>4 DEF B
  <2>6. AggregateOf(all) = [count |-> Cardinality(S) + 1, sum |-> SumOver(Reading, S) + v,
                            min |-> Min(T \cup {v}), max |-> Max(T \cup {v})]
    <3>1. Seen(all) # {}
      BY <2>1
    <3>2. AggregateOf(all) = [count |-> Cardinality(Seen(all)), sum |-> SumOver(Reading, Seen(all)),
                              min |-> Min(T1), max |-> Max(T1)]
      BY <1>1, <3>1, AggregateParts
    <3>3. SumOver(Reading, Seen(all)) = SumOver(Reading, S) + v
      BY <2>1, <2>5
    <3> HIDE DEF all, T, T1, S, v
    <3> QED
      BY <2>2, <2>4, <3>2, <3>3
  <2>7. CASE S = {}
    <3>1. agg = NewAgg /\ T = {} /\ Cardinality(S) = 0 /\ SumOver(Reading, S) = 0
      BY <2>7, SumOfNothing, FS_EmptySet DEF HoldsReadings
    <3>2. T \cup {v} = {v} /\ Min({v}) = v /\ Max({v}) = v
      <4>1. v \in {v} /\ {v} \in SUBSET Int /\ \A k \in {v} : v <= k /\ k <= v
        BY <2>1
      <4> QED
        BY <3>1, <4>1, MinIsLeast, MaxIsGreatest
    <3>3. Added(agg, v) = [count |-> 1, sum |-> v, min |-> v, max |-> v]
      BY <1>3, <2>1, <3>1 DEF Added, NewAgg
    <3>4. Added(agg, v) = AggregateOf(all) /\ Seen(all) # {}
      <4> HIDE DEF all, T, S, v
      <4> QED
        BY <2>1, <2>6, <3>1, <3>2, <3>3
    <3> QED
      BY <3>4 DEF HoldsReadings
  <2>8. CASE S # {}
    <3>1. agg = [count |-> Cardinality(S), sum |-> SumOver(Reading, S),
                 min |-> Min(T), max |-> Max(T)]
      BY <2>8, AggregateParts DEF HoldsReadings
    <3>2. /\ Min(T) \in T /\ Max(T) \in T /\ Min(T) \in Int /\ Max(T) \in Int
          /\ \A k \in T : Min(T) <= k /\ k <= Max(T)
      <4>1. T # {}
        BY <2>8
      <4> HIDE DEF T
      <4> QED
        BY <2>3, <4>1, MinOfIntegers, MaxOfIntegers
    <3> DEFINE least == IF v < Min(T) THEN v ELSE Min(T)
               most == IF v > Max(T) THEN v ELSE Max(T)
    <3>3. Min(T \cup {v}) = least
      <4>1. least \in T \cup {v} /\ T \cup {v} \in SUBSET Int
        BY <2>1, <2>3, <3>2
      <4>2. ASSUME NEW k \in T \cup {v} PROVE least <= k
        <5>1. k \in Int /\ v \in Int /\ (k = v \/ (Min(T) <= k /\ k <= Max(T)))
          BY <2>1, <2>3, <3>2
        <5> HIDE DEF T, v
        <5> QED
          BY <3>2, <5>1
      <4> HIDE DEF T, v, least
      <4> QED
        BY <4>1, <4>2, MinIsLeast
    <3>4. Max(T \cup {v}) = most
      <4>1. most \in T \cup {v} /\ T \cup {v} \in SUBSET Int
        BY <2>1, <2>3, <3>2
      <4>2. ASSUME NEW k \in T \cup {v} PROVE k <= most
        <5>1. k \in Int /\ v \in Int /\ (k = v \/ (Min(T) <= k /\ k <= Max(T)))
          BY <2>1, <2>3, <3>2
        <5> HIDE DEF T, v
        <5> QED
          BY <3>2, <5>1
      <4> HIDE DEF T, v, most
      <4> QED
        BY <4>1, <4>2, MaxIsGreatest
    <3>5. Added(agg, v) = [count |-> Cardinality(S) + 1, sum |-> SumOver(Reading, S) + v,
                           min |-> least, max |-> most]
      <4>1. Min(T) # None /\ Max(T) # None
        BY <3>2, TelemetryConstants
      <4> HIDE DEF T, S, v
      <4> QED
        BY <1>3, <3>1, <4>1 DEF Added
    <3>6. Seen(all) # {}
      BY <2>1
    <3>7. Added(agg, v) = AggregateOf(all)
      <4> HIDE DEF T, S, v, least, most, all
      <4> QED
        BY <2>6, <3>3, <3>4, <3>5
    <3> QED
      BY <3>6, <3>7 DEF HoldsReadings
  <2> QED
    BY <2>7, <2>8
<1> QED
  BY <1>2, <1>3

LEMMA RowsInit == Init => RowsInv
<1> SUFFICES ASSUME Init PROVE RowsInv
  OBVIOUS
<1>1. store.rows = {} /\ bucket.agg = NewAgg /\ bucket.samples = {}
  BY DEF Init, FreshStore, NewBucket
<1>2. Seen(bucket.samples) = {}
  BY <1>1 DEF Seen
<1> QED
  BY <1>1, <1>2, FS_EmptySet, TelemetryConstants DEF Init, RowsInv, HoldsReadings

LEMMA FewRows ==
    ASSUME RowsInv, NEW more, IsFiniteSet(more),
           \A r \in more : r.metric \in {Absent, AggregateOf(r.samples)},
           store'.rows \subseteq store.rows \cup more
    PROVE  /\ IsFiniteSet(store'.rows)
           /\ \A r \in store'.rows : r.metric \in {Absent, AggregateOf(r.samples)}
<1>1. IsFiniteSet(store.rows \cup more)
  BY FS_Union DEF RowsInv
<1>2. IsFiniteSet(store'.rows)
  BY <1>1, FS_Subset
<1> QED
  BY <1>2 DEF RowsInv

\* What is persisted is the aggregate of the bucket.
LEMMA PersistedRows ==
    ASSUME RowsInv, NEW b, NEW end, IsStore(store), Persist(b, end),
           IsFiniteSet(b.samples), b.samples \subseteq 0 .. MaxTime,
           HoldsReadings(b.agg, b.samples), \A r \in store.rows : r.start # b.start
    PROVE  /\ IsFiniteSet(store'.rows)
           /\ \A r \in store'.rows : r.metric \in {Absent, AggregateOf(r.samples)}
<1> DEFINE row == Stored(b, end)
<1>1. row.metric = AggregateOf(row.samples)
  <2>1. row.metric = AggResult(b.agg) /\ row.samples = b.samples
    BY DEF Stored
  <2>2. AggResult(b.agg) = AggregateOf(b.samples)
    BY ResultOfReadings
  <2> HIDE DEF row
  <2> QED
    BY <2>1, <2>2
<1>2. store'.rows \subseteq store.rows \cup {row}
  BY PersistKeeps
<1>3. IsFiniteSet({row})
  BY FS_Singleton
<1> HIDE DEF row
<1>4. \A r \in {row} : r.metric \in {Absent, AggregateOf(r.samples)}
  BY <1>1
<1> QED
  BY <1>2, <1>3, <1>4, FewRows

\* The bucket in progress, and what an observation makes of it.
LEMMA BucketHolds ==
    ASSUME TelemetryInv, RowsInv, Begun
    PROVE  /\ IsFiniteSet(bucket.samples) /\ bucket.samples \subseteq 0 .. MaxTime
           /\ IsStore(store) /\ \A r \in store.rows : r.start # bucket.start
           /\ HoldsReadings(bucket.agg, bucket.samples)
<1>1. /\ bucket.start \in FirstTime .. lastTick /\ bucket.samples \subseteq bucket.start .. lastTick
      /\ lastTick = lastSeen /\ lastSeen \in FirstTime .. now /\ now \in Nat /\ now <= MaxTime
      /\ FirstTime \in Nat /\ MaxTime \in Nat /\ IsFiniteSet(bucket.samples) /\ IsStore(store)
  BY TelemetryConstants DEF TelemetryInv, ClockInv, BucketInv, StoreInv, RowsInv
<1>2. bucket.samples \subseteq 0 .. MaxTime
  BY <1>1
<1>3. ASSUME NEW r \in store.rows PROVE r.start # bucket.start
  <2>1. r.start < bucket.start /\ r.start \in Nat
    BY DEF TelemetryInv, StoreInv, Behind, Tiles, Sound
  <2> QED
    BY <1>1, <2>1
<1> QED
  BY <1>1, <1>2, <1>3 DEF RowsInv

LEMMA ObservedHolds ==
    ASSUME TelemetryInv, RowsInv, phase = "ticking"
    PROVE  /\ Observed.start = bucket.start /\ IsFiniteSet(Observed.samples)
           /\ Observed.samples \subseteq 0 .. MaxTime
           /\ HoldsReadings(Observed.agg, Observed.samples)
<1>1. /\ IsFiniteSet(bucket.samples) /\ bucket.samples \subseteq 0 .. MaxTime
      /\ HoldsReadings(bucket.agg, bucket.samples)
  BY BucketHolds DEF Begun
<1>2. now \in 0 .. MaxTime /\ now \notin bucket.samples
  BY TelemetryConstants DEF TelemetryInv, ClockInv, BucketInv, RowsInv
<1>3. Observed = [start |-> bucket.start, count |-> bucket.count + 1,
                  agg |-> Added(bucket.agg, Reading[now]), samples |-> bucket.samples \cup {now}]
  <2>1. bucket = [start |-> bucket.start, count |-> bucket.count, agg |-> bucket.agg,
                  samples |-> bucket.samples]
    BY DEF TelemetryInv, BucketInv
  <2>2. Observed = Edited(bucket, bucket.count + 1, Added(bucket.agg, Reading[now]),
                          bucket.samples \cup {now})
    BY Zenon DEF Observed, Edited
  <2> QED
    BY <2>1, <2>2, EditBucket
<1>4. HoldsReadings(Added(bucket.agg, Reading[now]), bucket.samples \cup {now})
  BY <1>1, <1>2, OneMoreReading
<1>5. IsFiniteSet(bucket.samples \cup {now})
  BY <1>1, FS_AddElement
<1> QED
  BY <1>1, <1>2, <1>3, <1>4, <1>5

\* Every step keeps the rows and the bucket in progress what the readings make of them.
LEMMA RowsNext == TelemetryInv /\ RowsInv /\ [Next]_vars => RowsInv'
<1> SUFFICES ASSUME TelemetryInv, RowsInv, [Next]_vars PROVE RowsInv'
  OBVIOUS
<1> DEFINE Rows(s) == /\ IsFiniteSet(s.rows)
                      /\ \A r \in s.rows : r.metric \in {Absent, AggregateOf(r.samples)}
           Held1 == HoldsReadings(bucket.agg, bucket.samples)
<1>1. Rows(store) /\ Held1 /\ now <= MaxTime /\ IsStore(store)
  BY DEF RowsInv, TelemetryInv, StoreInv
<1>2. ASSUME NEW s, IsStore(s), s.rows \subseteq store.rows PROVE Rows(s)
  BY <1>1, <1>2, FS_Subset
<1>3. IsStore(Opened) /\ Opened.rows \subseteq store.rows
  BY <1>1, OpenedStore
<1>4. \A t : HoldsReadings(NewBucket(t).agg, NewBucket(t).samples)
  BY DEF HoldsReadings, NewBucket, Seen
<1>5. SUFFICES now' <= MaxTime /\ Rows(store') /\ Held1'
  BY DEF RowsInv
<1>6. CASE Advance
  <2>1. now' = now + 1 /\ now < MaxTime /\ UNCHANGED <<store, bucket>>
    BY <1>6 DEF Advance
  <2>2. now \in Nat /\ MaxTime \in Nat
    BY TelemetryConstants DEF TelemetryInv, ClockInv
  <2> QED
    BY <1>1, <2>1, <2>2
<1>7. CASE Start
  <2>1. now' = now /\ store' = store /\ bucket' = NewBucket(now)
    BY <1>7 DEF Start
  <2> QED
    BY <1>1, <1>4, <2>1
<1>8. CASE OpenFails \/ RenameLegacy \/ TickAborts \/ UNCHANGED vars
  <2>1. UNCHANGED <<now, store, bucket>>
    BY <1>8 DEF OpenFails, RenameLegacy, TickAborts, vars
  <2> QED
    BY <1>1, <2>1
<1>9. CASE Migrate
  <2> DEFINE added == {b \in Legacy : legacyFile /\ \A r \in Opened.rows : r.start # b.start}
  <2>1. now' = now /\ bucket' = bucket /\ store' = Migrated(Opened)
    BY <1>9 DEF Migrate
  <2>2. store'.rows \subseteq store.rows \cup added
    <3>1. Opened \in [rows : {Opened.rows}, migrated : BOOLEAN, damaged : BOOLEAN]
      BY <1>3 DEF IsStore
    <3>2. CASE Opened.migrated
      BY <1>3, <2>1, <3>2 DEF Migrated
    <3>3. CASE ~Opened.migrated
      <4>1. store' = [Opened EXCEPT !.migrated = TRUE, !.rows = Opened.rows \cup added]
        BY <2>1, <3>3 DEF Migrated
      <4> HIDE DEF added
      <4>2. store'.rows = Opened.rows \cup added
        BY <3>1, <4>1
      <4> QED
        BY <1>3, <4>2
    <3> QED
      BY <3>2, <3>3
  <2>3. IsFiniteSet(added) /\ \A r \in added : r.metric \in {Absent, AggregateOf(r.samples)}
    BY LegacyConstants, FS_Subset
  <2> HIDE DEF added
  <2>4. Rows(store')
    BY <2>2, <2>3, FewRows
  <2> QED
    BY <1>1, <2>1, <2>4
<1>10. CASE MigrationRaises
  <2>1. now' = now /\ bucket' = bucket /\ store' = Opened
    BY <1>10 DEF MigrationRaises
  <2> QED
    BY <1>1, <1>2, <1>3, <2>1
<1>11. CASE Prune
  <2>1. UNCHANGED <<now, bucket>>
    BY <1>11 DEF Prune
  <2>2. CASE store' = store
    BY <1>1, <2>1, <2>2
  <2>3. CASE store' = [Opened EXCEPT !.rows = Unexpired(@, Retention, now)]
    <3> DEFINE left == Unexpired(Opened.rows, Retention, now)
    <3>1. left \subseteq Opened.rows
      BY DEF Unexpired
    <3> HIDE DEF left
    <3>2. store' = [Opened EXCEPT !.rows = left]
      BY <2>3 DEF left
    <3>3. Opened \in [rows : {Opened.rows}, migrated : BOOLEAN, damaged : BOOLEAN]
      BY <1>3 DEF IsStore
    <3>4. store'.rows = left /\ IsStore(store')
      BY <3>2, <3>3 DEF IsStore
    <3> QED
      BY <1>1, <1>2, <1>3, <2>1, <3>1, <3>4
  <2> QED
    BY <1>11, <2>2, <2>3 DEF Prune
<1>12. CASE TickBegins
  <2>1. now' = now /\ Begun
    BY <1>12 DEF TickBegins, Begun
  <2>2. CASE IsGap /\ bucket.count > 0
    <3>1. Persist(bucket, lastTick) /\ bucket' = NewBucket(now)
      BY <1>12, <2>2 DEF TickBegins, SplitAcrossGap
    <3>2. Rows(store')
      BY <2>1, <3>1, BucketHolds, PersistedRows
    <3> QED
      BY <1>1, <1>4, <2>1, <3>1, <3>2
  <2>3. CASE ~(IsGap /\ bucket.count > 0)
    <3>1. store' = store /\ (bucket' = NewBucket(now) \/ bucket' = bucket)
      BY <1>12, <2>3 DEF TickBegins, SplitAcrossGap
    <3> QED
      BY <1>1, <1>4, <2>1, <3>1
  <2> QED
    BY <2>2, <2>3
<1>13. CASE TickEnds
  <2>1. now' = now /\ phase = "ticking" /\ Begun
    BY <1>13 DEF TickEnds, Begun
  <2>2. CASE now - bucket.start >= BucketSeconds
    <3>1. Persist(Observed, now) /\ bucket' = NewBucket(now)
      BY <1>13, <2>2 DEF TickEnds, NextBucket
    <3>2. \A r \in store.rows : r.start # Observed.start
      BY <2>1, BucketHolds, ObservedHolds
    <3>3. Rows(store')
      BY <1>1, <2>1, <3>1, <3>2, ObservedHolds, PersistedRows
    <3> QED
      BY <1>1, <1>4, <2>1, <3>1, <3>3
  <2>3. CASE ~(now - bucket.start >= BucketSeconds)
    <3>1. bucket' = Observed /\ store' = store
      BY <1>13, <2>3 DEF TickEnds
    <3> QED
      BY <1>1, <2>1, <3>1, ObservedHolds
  <2> QED
    BY <2>2, <2>3
<1>14. CASE Close
  <2>1. now' = now /\ bucket' = NewBucket(0) /\ Begun
    BY <1>14 DEF Close, Begun
  <2>2. CASE bucket.count > 0
    <3>1. Persist(bucket, now)
      BY <1>14, <2>2 DEF Close, FinalizeAtClose
    <3>2. Rows(store')
      BY <2>1, <3>1, BucketHolds, PersistedRows
    <3> QED
      BY <1>1, <1>4, <2>1, <3>2
  <2>3. CASE ~(bucket.count > 0)
    <3>1. store' = store
      BY <1>14, <2>3 DEF Close, FinalizeAtClose
    <3> QED
      BY <1>1, <1>4, <2>1, <3>1
  <2> QED
    BY <2>2, <2>3
<1>15. CASE Crash
  <2>1. UNCHANGED <<now, store>> /\ bucket' = NewBucket(0)
    BY <1>15 DEF Crash
  <2> QED
    BY <1>1, <1>4, <2>1
<1>16. CASE Damage
  <2>1. UNCHANGED <<now, bucket>> /\ store' = [store EXCEPT !.damaged = TRUE]
    BY <1>16 DEF Damage
  <2>2. store \in [rows : {store.rows}, migrated : BOOLEAN, damaged : BOOLEAN]
    BY <1>1 DEF IsStore
  <2>3. store'.rows = store.rows
    BY <2>1, <2>2
  <2> QED
    BY <1>1, <2>1, <2>3
<1> QED
  BY <1>6, <1>7, <1>8, <1>9, <1>10, <1>11, <1>12, <1>13, <1>14, <1>15, <1>16 DEF Next
-----------------------------------------------------------------------------
\* SUMMARIES OF ROWS

\* The sums of app.py's comprehensions, as sums over functions.
LEMMA SumOfCounts ==
    ASSUME NEW S
    PROVE  MapThenSumSet(LAMBDA b : b.metric.count, S) = SumOver([b \in S |-> b.metric.count], S)
<1> DEFINE f == [b \in S |-> b.metric.count]
           h == [x \in S |-> f[x]]
           Full(g) == g = [s \in SUBSET S |-> IF s = {} THEN 0 ELSE h[Pick(s)] + g[s \ {Pick(s)}]]
           Plain(g) == g = [s \in SUBSET S |-> IF s = {} THEN 0
                                              ELSE (Pick(s).metric.count) + g[s \ {Pick(s)}]]
<1>1. ASSUME NEW g PROVE Full(g) <=> Plain(g)
  <2>1. \A s \in SUBSET S : s # {} => h[Pick(s)] = Pick(s).metric.count
    BY PickIsIn
  <2> HIDE DEF f, h
  <2> QED
    BY <2>1
<1>2. (CHOOSE g : Full(g)) = (CHOOSE g : Plain(g))
  <2> HIDE DEF f, h
  <2> QED
    BY <1>1
<1>3. SumOf(h) = (CHOOSE g : Full(g))[S]
  <2>1. DOMAIN h = S
    OBVIOUS
  <2> HIDE DEF f, h
  <2> QED
    BY <2>1 DEF SumOf, MapThenSumSet, MapThenFoldSet, Pick
<1>4. MapThenSumSet(LAMBDA b : b.metric.count, S) = (CHOOSE g : Plain(g))[S]
  BY DEF MapThenSumSet, MapThenFoldSet, Pick
<1> QED
  BY <1>2, <1>3, <1>4 DEF SumOver

LEMMA SumOfSums ==
    ASSUME NEW S
    PROVE  MapThenSumSet(LAMBDA b : b.metric.sum, S) = SumOver([b \in S |-> b.metric.sum], S)
<1> DEFINE f == [b \in S |-> b.metric.sum]
           h == [x \in S |-> f[x]]
           Full(g) == g = [s \in SUBSET S |-> IF s = {} THEN 0 ELSE h[Pick(s)] + g[s \ {Pick(s)}]]
           Plain(g) == g = [s \in SUBSET S |-> IF s = {} THEN 0
                                              ELSE (Pick(s).metric.sum) + g[s \ {Pick(s)}]]
<1>1. ASSUME NEW g PROVE Full(g) <=> Plain(g)
  <2>1. \A s \in SUBSET S : s # {} => h[Pick(s)] = Pick(s).metric.sum
    BY PickIsIn
  <2> HIDE DEF f, h
  <2> QED
    BY <2>1
<1>2. (CHOOSE g : Full(g)) = (CHOOSE g : Plain(g))
  <2> HIDE DEF f, h
  <2> QED
    BY <1>1
<1>3. SumOf(h) = (CHOOSE g : Full(g))[S]
  <2>1. DOMAIN h = S
    OBVIOUS
  <2> HIDE DEF f, h
  <2> QED
    BY <2>1 DEF SumOf, MapThenSumSet, MapThenFoldSet, Pick
<1>4. MapThenSumSet(LAMBDA b : b.metric.sum, S) = (CHOOSE g : Plain(g))[S]
  BY DEF MapThenSumSet, MapThenFoldSet, Pick
<1> QED
  BY <1>2, <1>3, <1>4 DEF SumOver

LEMMA SumOfMoves ==
    ASSUME NEW S
    PROVE  MapThenSumSet(LAMBDA b : b.metric.max - b.metric.min, S) = SumOver([b \in S |-> b.metric.max - b.metric.min], S)
<1> DEFINE f == [b \in S |-> b.metric.max - b.metric.min]
           h == [x \in S |-> f[x]]
           Full(g) == g = [s \in SUBSET S |-> IF s = {} THEN 0 ELSE h[Pick(s)] + g[s \ {Pick(s)}]]
           Plain(g) == g = [s \in SUBSET S |-> IF s = {} THEN 0
                                              ELSE (Pick(s).metric.max - Pick(s).metric.min) + g[s \ {Pick(s)}]]
<1>1. ASSUME NEW g PROVE Full(g) <=> Plain(g)
  <2>1. \A s \in SUBSET S : s # {} => h[Pick(s)] = Pick(s).metric.max - Pick(s).metric.min
    BY PickIsIn
  <2> HIDE DEF f, h
  <2> QED
    BY <2>1
<1>2. (CHOOSE g : Full(g)) = (CHOOSE g : Plain(g))
  <2> HIDE DEF f, h
  <2> QED
    BY <1>1
<1>3. SumOf(h) = (CHOOSE g : Full(g))[S]
  <2>1. DOMAIN h = S
    OBVIOUS
  <2> HIDE DEF f, h
  <2> QED
    BY <2>1 DEF SumOf, MapThenSumSet, MapThenFoldSet, Pick
<1>4. MapThenSumSet(LAMBDA b : b.metric.max - b.metric.min, S) = (CHOOSE g : Plain(g))[S]
  BY DEF MapThenSumSet, MapThenFoldSet, Pick
<1> QED
  BY <1>2, <1>3, <1>4 DEF SumOver

\* Rows that name the aggregates of samples of their own.
Reads(X) ==
    /\ IsFiniteSet(X)
    /\ \A r \in X : /\ IsFiniteSet(r.samples) /\ r.samples \subseteq 0 .. MaxTime
                    /\ r.metric \in {Absent, AggregateOf(r.samples)}
    /\ \A r, s \in X : r # s => r.samples \cap s.samples = {}

LEMMA RealRows ==
    ASSUME NEW X, Reads(X), NEW b \in Real(X)
    PROVE  /\ Seen(b.samples) # {} /\ b.metric = AggregateOf(b.samples)
           /\ b.metric.count = Cardinality(Seen(b.samples))
           /\ b.metric.sum = SumOver(Reading, Seen(b.samples))
           /\ b.metric.min = Min({Reading[t] : t \in Seen(b.samples)})
           /\ b.metric.max = Max({Reading[t] : t \in Seen(b.samples)})
           /\ b.metric \in Aggregates
<1>1. b \in X /\ b.metric = AggregateOf(b.samples) /\ b.metric # None
  BY DEF Real, Reads
<1>2. IsFiniteSet(b.samples) /\ b.samples \subseteq 0 .. MaxTime
  BY <1>1 DEF Reads
<1>3. Seen(b.samples) # {}
  BY <1>1, <1>2, AggregateParts
<1>4. /\ b.metric = [count |-> Cardinality(Seen(b.samples)), sum |-> SumOver(Reading, Seen(b.samples)),
                     min |-> Min({Reading[t] : t \in Seen(b.samples)}),
                     max |-> Max({Reading[t] : t \in Seen(b.samples)})]
      /\ b.metric \in Aggregates
  BY <1>1, <1>2, <1>3, AggregateParts
<1> QED
  BY <1>1, <1>3, <1>4

\* What is seen in all rows is what is seen in those with a reading.
LEMMA SeenInRows ==
    ASSUME NEW X, Reads(X)
    PROVE  /\ Seen(SamplesOf(X)) = UNION {Seen(b.samples) : b \in Real(X)}
           /\ IsFiniteSet(SamplesOf(X)) /\ SamplesOf(X) \subseteq 0 .. MaxTime
<1>1. SamplesOf(X) \subseteq 0 .. MaxTime
  BY DEF SamplesOf, Reads
<1>2. IsFiniteSet(SamplesOf(X))
  <2>1. IsFiniteSet(0 .. MaxTime)
    BY TelemetryConstants, FS_Interval
  <2> QED
    BY <1>1, <2>1, FS_Subset
<1>3. ASSUME NEW b \in X, b \notin Real(X), b.metric # Absent PROVE Seen(b.samples) = {}
  <2>1. b.metric = None /\ b.metric = AggregateOf(b.samples)
    BY <1>3 DEF Real, Reads
  <2>2. IsFiniteSet(b.samples) /\ b.samples \subseteq 0 .. MaxTime
    BY DEF Reads
  <2> QED
    BY <2>1, <2>2, AggregateParts
<1>4. Seen(SamplesOf(X)) = UNION {Seen(b.samples) : b \in {c \in X : c.metric # Absent}}
  BY DEF Seen, SamplesOf
<1>5. \A b \in Real(X) : b \in X /\ b.metric # Absent
  BY DEF Real
<1>6. Seen(SamplesOf(X)) = UNION {Seen(b.samples) : b \in Real(X)}
  BY <1>3, <1>4, <1>5
<1> QED
  BY <1>1, <1>2, <1>6

\* The counts and sums of rows add up to those of their samples.
LEMMA RowSums ==
    ASSUME NEW X, Reads(X)
    PROVE  /\ MapThenSumSet(LAMBDA b : b.metric.count, Real(X)) = Cardinality(Seen(SamplesOf(X)))
           /\ MapThenSumSet(LAMBDA b : b.metric.sum, Real(X)) = SumOver(Reading, Seen(SamplesOf(X)))
<1> DEFINE R == Real(X)
           All == Seen(SamplesOf(X))
           fam == [b \in R |-> Seen(b.samples)]
           ones == [t \in All |-> 1]
           counts == [b \in R |-> b.metric.count]
           sums == [b \in R |-> b.metric.sum]
<1>1. IsFiniteSet(R) /\ R \subseteq X
  BY FS_Subset DEF Real, Reads
<1>2. All = UNION {fam[b] : b \in R}
  BY SeenInRows
<1>3. ASSUME NEW b \in R
      PROVE  /\ IsFiniteSet(fam[b]) /\ \A t \in fam[b] : Reading[t] \in Int /\ ones[t] = 1
             /\ counts[b] = SumOver(ones, fam[b]) /\ sums[b] = SumOver(Reading, fam[b])
  <2>1. IsFiniteSet(b.samples) /\ b.samples \subseteq 0 .. MaxTime
    BY <1>1 DEF Reads
  <2>2. IsFiniteSet(fam[b]) /\ \A t \in fam[b] : Reading[t] \in Int
    BY <2>1, SeenIsFinite
  <2>3. \A t \in fam[b] : t \in All
    BY <1>2
  <2>4. \A t \in fam[b] : ones[t] = 1
    BY <2>3
  <2>5. counts[b] = Cardinality(fam[b]) /\ sums[b] = SumOver(Reading, fam[b])
    BY RealRows
  <2>6. SumOver(ones, fam[b]) = Cardinality(fam[b])
    <3> HIDE DEF fam, ones, All
    <3> QED
      BY <2>2, <2>4, SumOfOnes
  <2> QED
    BY <2>2, <2>4, <2>5, <2>6
<1>4. \A b, c \in R : b # c => fam[b] \cap fam[c] = {}
  <2>1. ASSUME NEW b \in R, NEW c \in R, b # c PROVE fam[b] \cap fam[c] = {}
    <3>1. b.samples \cap c.samples = {}
      BY <1>1, <2>1 DEF Reads
    <3> QED
      BY <3>1 DEF Seen
  <2> QED
    BY <2>1
<1>5. MapThenSumSet(LAMBDA b : b.metric.count, R) = SumOver(counts, R)
  BY SumOfCounts
<1>6. MapThenSumSet(LAMBDA b : b.metric.sum, R) = SumOver(sums, R)
  BY SumOfSums
<1>7. \A t \in All : ones[t] = 1
  OBVIOUS
<1>8. /\ IsFiniteSet(All) /\ SumOver(counts, R) = SumOver(ones, All)
      /\ SumOver(sums, R) = SumOver(Reading, All)
  <2> DEFINE Parts == UNION {fam[b] : b \in R}
  <2> HIDE DEF R, fam, ones, counts, sums, All
  <2>3. IsFiniteSet(R) /\ \A i, j \in R : i # j => fam[i] \cap fam[j] = {}
    BY <1>1, <1>4
  <2>1. AddsUp(counts, ones, R, fam)
    BY <1>3, <2>3 DEF AddsUp
  <2>2. AddsUp(sums, Reading, R, fam)
    BY <1>3, <2>3 DEF AddsUp
  <2>4. IsFiniteSet(Parts) /\ SumOver(counts, R) = SumOver(ones, Parts)
    BY <2>1, SumOfFamily
  <2>5. SumOver(sums, R) = SumOver(Reading, Parts)
    BY <2>2, SumOfFamily
  <2> QED
    BY <1>2, <2>4, <2>5
<1>9. SumOver(ones, All) = Cardinality(All)
  <2> HIDE DEF ones, All
  <2> QED
    BY <1>7, <1>8, SumOfOnes
<1> QED
  BY <1>5, <1>6, <1>8, <1>9

\* Their peaks are those of their samples.
LEMMA RowPeaks ==
    ASSUME NEW X, Reads(X), Real(X) # {}
    PROVE  /\ Seen(SamplesOf(X)) # {}
           /\ Min({b.metric.min : b \in Real(X)}) = Min({Reading[t] : t \in Seen(SamplesOf(X))})
           /\ Max({b.metric.max : b \in Real(X)}) = Max({Reading[t] : t \in Seen(SamplesOf(X))})
<1> DEFINE Values(b) == {Reading[t] : t \in Seen(b.samples)}
           All == {Reading[t] : t \in Seen(SamplesOf(X))}
           Lows == {b.metric.min : b \in Real(X)}
           Highs == {b.metric.max : b \in Real(X)}
<1>1. ASSUME NEW b \in Real(X)
      PROVE  /\ Values(b) \in SUBSET Int /\ IsFiniteSet(Values(b)) /\ Values(b) # {}
             /\ Values(b) \subseteq All
             /\ b.metric.min = Min(Values(b)) /\ b.metric.max = Max(Values(b))
  <2>1. IsFiniteSet(b.samples) /\ b.samples \subseteq 0 .. MaxTime
    BY DEF Real, Reads
  <2>2. Values(b) \in SUBSET Int /\ IsFiniteSet(Values(b))
    BY <2>1, SeenIsFinite
  <2>3. Seen(b.samples) # {} /\ b.metric.min = Min(Values(b)) /\ b.metric.max = Max(Values(b))
    BY RealRows
  <2>4. Seen(b.samples) \subseteq Seen(SamplesOf(X))
    BY SeenInRows
  <2> QED
    BY <2>2, <2>3, <2>4
<1>2. /\ Seen(SamplesOf(X)) # {} /\ All # {} /\ All \in SUBSET Int /\ IsFiniteSet(All)
      /\ \A v \in All : \E b \in Real(X) : v \in Values(b)
  <2>1. All # {} /\ Seen(SamplesOf(X)) # {}
    BY <1>1
  <2>2. All \in SUBSET Int /\ IsFiniteSet(All)
    BY SeenInRows, SeenIsFinite
  <2>3. \A v \in All : \E b \in Real(X) : v \in Values(b)
    BY SeenInRows
  <2> QED
    BY <2>1, <2>2, <2>3
<1> HIDE DEF Values, All
<1>3. \A b \in Real(X) : /\ Min(Values(b)) \in Values(b) /\ \A v \in Values(b) : Min(Values(b)) <= v
                        /\ Max(Values(b)) \in Values(b) /\ \A v \in Values(b) : v <= Max(Values(b))
  BY <1>1, MinOfIntegers, MaxOfIntegers
<1>4. /\ Min(All) \in All /\ \A v \in All : Min(All) <= v
      /\ Max(All) \in All /\ \A v \in All : v <= Max(All)
  BY <1>2, MinOfIntegers, MaxOfIntegers
<1>5. Lows \subseteq All /\ Highs \subseteq All
  BY <1>1, <1>3
<1>6. Min(Lows) = Min(All)
  <2>1. PICK b \in Real(X) : Min(All) \in Values(b)
    BY <1>2, <1>4
  <2>2. Min(Values(b)) <= Min(All) /\ Min(All) <= Min(Values(b))
    BY <1>1, <1>3, <1>4, <2>1
  <2>3. Min(All) \in Int /\ Min(Values(b)) \in Int
    BY <1>1, <1>2, <1>3, <1>4
  <2>4. Min(All) = Min(Values(b))
    BY <2>2, <2>3
  <2>5. Min(All) \in Lows
    BY <1>1, <2>4
  <2>6. Lows \in SUBSET Int /\ \A v \in Lows : Min(All) <= v
    BY <1>2, <1>4, <1>5
  <2> HIDE DEF Lows
  <2> QED
    BY <2>5, <2>6, MinIsLeast
<1>7. Max(Highs) = Max(All)
  <2>1. PICK b \in Real(X) : Max(All) \in Values(b)
    BY <1>2, <1>4
  <2>2. Max(Values(b)) <= Max(All) /\ Max(All) <= Max(Values(b))
    BY <1>1, <1>3, <1>4, <2>1
  <2>3. Max(All) \in Int /\ Max(Values(b)) \in Int
    BY <1>1, <1>2, <1>3, <1>4
  <2>4. Max(All) = Max(Values(b))
    BY <2>2, <2>3
  <2>5. Max(All) \in Highs
    BY <1>1, <2>4
  <2>6. Highs \in SUBSET Int /\ \A v \in Highs : v <= Max(All)
    BY <1>2, <1>4, <1>5
  <2> HIDE DEF Highs
  <2> QED
    BY <2>5, <2>6, MaxIsGreatest
<1> QED
  BY <1>2, <1>6, <1>7 DEF All

\* A summary of rows is the aggregate of their samples.
LEMMA SummaryOfRows ==
    ASSUME NEW X, Reads(X) PROVE Summary(X) = AggregateOf(SamplesOf(X))
<1>1. IsFiniteSet(SamplesOf(X)) /\ SamplesOf(X) \subseteq 0 .. MaxTime
  BY SeenInRows
<1>2. CASE Real(X) = {}
  <2>1. Seen(SamplesOf(X)) = {}
    BY <1>2, SeenInRows
  <2>2. AggregateOf(SamplesOf(X)) = None
    BY <1>1, <2>1, AggregateParts
  <2> QED
    BY <1>2, <2>2 DEF Summary
<1>3. CASE Real(X) # {}
  <2> DEFINE All == Seen(SamplesOf(X))
  <2>1. AggregateOf(SamplesOf(X)) =
          [count |-> Cardinality(All), sum |-> SumOver(Reading, All),
           min |-> Min({Reading[t] : t \in All}), max |-> Max({Reading[t] : t \in All})]
    BY <1>1, <1>3, RowPeaks, AggregateParts
  <2>2. Summary(X) =
          [count |-> MapThenSumSet(LAMBDA b : b.metric.count, Real(X)),
           sum   |-> MapThenSumSet(LAMBDA b : b.metric.sum, Real(X)),
           min   |-> Min({b.metric.min : b \in Real(X)}),
           max   |-> Max({b.metric.max : b \in Real(X)})]
    BY <1>3 DEF Summary
  <2> QED
    BY <1>3, <2>1, <2>2, RowSums, RowPeaks
<1> QED
  BY <1>2, <1>3
-----------------------------------------------------------------------------
\* GAPS BETWEEN BUCKETS

\* The inductive invariants hold together.
THEOREM RowsAreSound == Spec => [](TelemetryInv /\ RowsInv)
<1>1. Init => TelemetryInv /\ RowsInv
  BY TelemetryInit, RowsInit
<1>2. TelemetryInv /\ RowsInv /\ [Next]_vars => (TelemetryInv /\ RowsInv)'
  BY TelemetryNext, RowsNext
<1> QED
  BY <1>1, <1>2, PTL DEF Spec

\* Finitely many buckets, each with its ends in order.
Laid(X) ==
    /\ IsFiniteSet(X)
    /\ \A r \in X : /\ r.start \in Nat /\ SpanEnd(r) \in Nat /\ r.start <= SpanEnd(r)
                    /\ r.end # None => r.end = SpanEnd(r)

\* The rows of the store are such buckets, and their samples can be added up.
LEMMA RowsAreLaid ==
    ASSUME TelemetryInv, RowsInv
    PROVE  /\ Laid(store.rows) /\ Reads(store.rows)
           /\ now \in Nat /\ \A r \in store.rows : SpanEnd(r) <= now
<1>1. Tiles(store.rows) /\ now \in Nat /\ now <= MaxTime /\ IsFiniteSet(store.rows)
  BY DEF TelemetryInv, StoreInv, ClockInv, RowsInv
<1>2. ASSUME NEW r \in store.rows PROVE SpanEnd(r) <= now
  BY TelemetryConstants DEF TelemetryInv, StoreInv, Behind, ClockInv, Tiles, Sound
<1>3. Laid(store.rows)
  BY <1>1 DEF Laid, Tiles, Sound
<1>4. ASSUME NEW r \in store.rows PROVE IsFiniteSet(r.samples) /\ r.samples \subseteq 0 .. MaxTime
  <2>1. r.samples \subseteq 0 .. MaxTime
    BY <1>1, <1>2, TelemetryConstants DEF Tiles, Sound
  <2>2. IsFiniteSet(0 .. MaxTime)
    BY TelemetryConstants, FS_Interval
  <2> QED
    BY <2>1, <2>2, FS_Subset
<1>5. \A r, s \in store.rows : r # s => r.samples \cap s.samples = {}
  BY <1>1 DEF Tiles, Apart
<1>6. Reads(store.rows)
  BY <1>1, <1>4, <1>5 DEF Reads, RowsInv
<1> QED
  BY <1>1, <1>2, <1>3, <1>6

\* The walk's cursor is the latest end of what it passed.
Latest(X, base) == Max({base} \cup {SpanEnd(b) : b \in X})

LEMMA LatestEnd ==
    ASSUME NEW X, Laid(X), NEW base \in Nat
    PROVE  /\ Latest(X, base) \in Nat /\ base <= Latest(X, base)
           /\ \A c \in X : SpanEnd(c) <= Latest(X, base)
           /\ Latest(X, base) = base \/ \E c \in X : Latest(X, base) = SpanEnd(c)
<1> DEFINE Ends == {SpanEnd(b) : b \in X}
           T == {base} \cup Ends
           f == [b \in X |-> SpanEnd(b)]
<1>1. IsFiniteSet(Ends)
  <2>1. f \in Surjection(X, Ends)
    BY DEF Surjection
  <2> HIDE DEF f, Ends
  <2> QED
    BY <2>1, FS_Surjection DEF Laid
<1>2. IsFiniteSet(T) /\ T \in SUBSET Nat /\ T # {}
  <2>1. IsFiniteSet({base})
    BY FS_Singleton
  <2> QED
    BY <1>1, <2>1, FS_Union DEF Laid
<1>3. Max(T) \in T /\ \A k \in T : k <= Max(T)
  <2>1. T \in SUBSET Int
    BY <1>2
  <2> HIDE DEF T
  <2> QED
    BY <1>2, <2>1, MaxOfIntegers
<1>4. Latest(X, base) = Max(T)
  BY DEF Latest
<1> QED
  BY <1>2, <1>3, <1>4

\* No bucket reaches into a gap, which begins at the beginning or where a bucket ends, and
\* ends at the end or where a bucket begins.
LEMMA GapIsClear ==
    ASSUME NEW X, Laid(X), NEW base \in Nat, NEW end, NEW g \in GapSpans(X, base, end)
    PROVE  /\ g = [from |-> g.from, to |-> g.to] /\ g.to - g.from >= MinGap
           /\ g.from \in Nat /\ base <= g.from
           /\ \A c \in X : SpanEnd(c) <= g.from \/ g.to <= c.start
           /\ g.from = base \/ \E c \in X : g.from = SpanEnd(c)
           /\ g.to = end \/ \E c \in X : g.to = c.start
<1> DEFINE inner == {[from |-> Cursor(X, b, base), to |-> b.start] : b \in X}
           last == [from |-> Max({base} \cup {SpanEnd(b) : b \in X}), to |-> end]
<1>1. g \in inner \cup {last} /\ g.to - g.from >= MinGap
  BY DEF GapSpans
<1>2. CASE g = last
  <2>1. g = [from |-> g.from, to |-> g.to] /\ g.to = end
    BY <1>2
  <2>2. g.from = Latest(X, base)
    BY <1>2 DEF Latest
  <2> QED
    BY <1>1, <2>1, <2>2, LatestEnd
<1>3. CASE g \in inner
  <2>1. PICK b \in X : g = [from |-> Cursor(X, b, base), to |-> b.start]
    BY <1>3
  <2>2. g = [from |-> g.from, to |-> g.to] /\ g.to = b.start /\ g.from = Cursor(X, b, base)
    BY <2>1
  <2> DEFINE before == {d \in X : Precedes(d, b)}
  <2>3. Laid(before)
    BY FS_Subset DEF Laid
  <2>4. g.from = Latest(before, base)
    BY <2>2 DEF Cursor, Latest
  <2>5. /\ g.from \in Nat /\ base <= g.from /\ \A c \in before : SpanEnd(c) <= g.from
        /\ g.from = base \/ \E c \in before : g.from = SpanEnd(c)
    <3> HIDE DEF before
    <3> QED
      BY <2>3, <2>4, LatestEnd
  <2>6. ASSUME NEW c \in X PROVE SpanEnd(c) <= g.from \/ g.to <= c.start
    <3>1. CASE Precedes(c, b)
      BY <2>5, <3>1
    <3>2. CASE ~Precedes(c, b)
      <4>1. b.start <= c.start
        BY <3>2 DEF Precedes, Laid
      <4> QED
        BY <2>2, <4>1
    <3> QED
      BY <3>1, <3>2
  <2> QED
    BY <1>1, <2>2, <2>5, <2>6
<1> QED
  BY <1>1, <1>2, <1>3

-----------------------------------------------------------------------------
\* SLOTS AND DAYS

LEMMA Quotient ==
    ASSUME NEW a \in Int, NEW n \in Nat \ {0}
    PROVE  /\ a \div n \in Int /\ n * (a \div n) <= a /\ a < n * (a \div n) + n
           /\ a \in Nat => a \div n \in Nat
OBVIOUS

LEMMA QuotientsAreOrdered ==
    ASSUME NEW a \in Int, NEW b \in Int, NEW n \in Nat \ {0}
    PROVE  /\ a <= b => a \div n <= b \div n
           /\ a \div n = b \div n => b - a < n
<1> DEFINE q == a \div n
           r == b \div n
<1>1. q \in Int /\ r \in Int /\ n * q <= a /\ a < n * q + n /\ n * r <= b /\ b < n * r + n
  BY Quotient
<1> HIDE DEF q, r
<1>2. q = r => b - a < n
  BY <1>1
<1>3. ASSUME a <= b, r < q PROVE FALSE
  <2>1. q - r - 1 \in Nat
    BY <1>1, <1>3
  <2>2. PICK k \in Nat : k = q - r - 1
    BY <2>1
  <2>3. q = r + 1 + k
    BY <1>1, <2>2
  <2>4. n * k \in Nat
    OBVIOUS
  <2>5. n * q = n * r + n + n * k
    BY <1>1, <2>3
  <2> QED
    BY <1>1, <1>3, <2>4, <2>5
<1> QED
  BY <1>1, <1>2, <1>3 DEF q, r

\* A slot is no longer than a gap.
LEMMA SlotLength ==
    ASSUME NEW group \in 1 .. GapBuckets
    PROVE  group * BucketSeconds \in Nat \ {0} /\ group * BucketSeconds <= MinGap
<1>1. PICK k \in Nat : GapBuckets = group + k
  <2>1. GapBuckets - group \in Nat /\ GapBuckets = group + (GapBuckets - group)
    BY ViewConstants
  <2> QED
    BY <2>1
<1>2. k * BucketSeconds \in Nat /\ group * BucketSeconds \in Nat
  BY ViewConstants
<1>3. GapBuckets * BucketSeconds = group * BucketSeconds + k * BucketSeconds
  BY <1>1, ViewConstants
<1>4. group * BucketSeconds # 0
  BY ViewConstants
<1> QED
  BY <1>2, <1>3, <1>4 DEF MinGap

\* Slots come in the order of the buckets in them, which lie less than a slot apart.
LEMMA SlotsAreOrdered ==
    ASSUME NEW group \in 1 .. GapBuckets, NEW b, NEW c, b.start \in Nat, c.start \in Nat
    PROVE  /\ Slot(b, group, 0) \in Nat
           /\ b.start <= c.start => Slot(b, group, 0) <= Slot(c, group, 0)
           /\ Slot(b, group, 0) < Slot(c, group, 0) => b.start < c.start
           /\ Slot(b, group, 0) = Slot(c, group, 0) => c.start - b.start < MinGap
<1> DEFINE n == group * BucketSeconds
<1>1. n \in Nat \ {0} /\ n <= MinGap /\ MinGap \in Nat
  BY SlotLength, MinGapType
<1>2. Slot(b, group, 0) = b.start \div n /\ Slot(c, group, 0) = c.start \div n
  BY DEF Slot
<1> HIDE DEF n
<1>3. b.start \div n \in Nat /\ c.start \div n \in Nat
  BY <1>1, Quotient
<1>4. /\ b.start <= c.start => b.start \div n <= c.start \div n
      /\ c.start <= b.start => c.start \div n <= b.start \div n
      /\ b.start \div n = c.start \div n => c.start - b.start < n
  <2>1. b.start \in Int /\ c.start \in Int
    OBVIOUS
  <2>2. b.start <= c.start => b.start \div n <= c.start \div n
    BY <1>1, <2>1, QuotientsAreOrdered
  <2>3. c.start <= b.start => c.start \div n <= b.start \div n
    BY <1>1, <2>1, QuotientsAreOrdered
  <2>4. b.start \div n = c.start \div n => c.start - b.start < n
    BY <1>1, <2>1, QuotientsAreOrdered
  <2> QED
    BY <2>2, <2>3, <2>4
<1> QED
  BY <1>1, <1>2, <1>3, <1>4

\* Where the buckets of a slot begin and end.
LEMMA SlotBounds ==
    ASSUME NEW Y, Laid(Y), Y # {}
    PROVE  LET first == Min({b.start : b \in Y})
           IN  /\ first \in Nat /\ \A b \in Y : first <= b.start
               /\ \E b \in Y : first = b.start
               /\ SlotEnd(Y) \in Nat /\ first <= SlotEnd(Y)
               /\ \E b \in Y : SlotEnd(Y) <= SpanEnd(b)
<1> DEFINE Starts == {b.start : b \in Y}
           shown == [b \in Y |-> IF b.end = None THEN b.start ELSE b.end]
           Ends == {IF b.end = None THEN b.start ELSE b.end : b \in Y}
<1>1. \A b \in Y : shown[b] \in Nat /\ b.start <= shown[b] /\ shown[b] <= SpanEnd(b)
  BY DEF Laid
<1>2. Starts \in SUBSET Nat /\ Starts # {} /\ IsFiniteSet(Starts)
  <2> DEFINE begin == [b \in Y |-> b.start]
  <2>1. begin \in Surjection(Y, Starts)
    BY DEF Surjection
  <2>2. IsFiniteSet(Starts)
    <3> HIDE DEF begin, Starts
    <3> QED
      BY <2>1, FS_Surjection DEF Laid
  <2> QED
    BY <2>2 DEF Laid
<1>3. Min(Starts) \in Starts /\ \A k \in Starts : Min(Starts) <= k
  <2>1. Starts \in SUBSET Int
    BY <1>2
  <2> HIDE DEF Starts
  <2> QED
    BY <1>2, <2>1, MinOfIntegers
<1>4. Ends = {shown[b] : b \in Y}
  OBVIOUS
<1>5. IsFiniteSet(Ends)
  <2>1. shown \in Surjection(Y, Ends)
    BY <1>4 DEF Surjection
  <2> HIDE DEF shown, Ends
  <2> QED
    BY <2>1, FS_Surjection DEF Laid
<1>6. Max(Ends) \in Ends /\ \A k \in Ends : k <= Max(Ends)
  <2>1. Ends \in SUBSET Int /\ Ends # {}
    BY <1>1, <1>4
  <2> HIDE DEF Ends
  <2> QED
    BY <1>5, <2>1, MaxOfIntegers
<1>7. SlotEnd(Y) = Max(Ends)
  BY DEF SlotEnd
<1> HIDE DEF shown, Ends
<1>8. PICK b \in Y : SlotEnd(Y) = shown[b]
  BY <1>4, <1>6, <1>7
<1>9. /\ Min(Starts) \in Nat /\ \A c \in Y : Min(Starts) <= c.start
      /\ \E c \in Y : Min(Starts) = c.start
  BY <1>2, <1>3
<1>10. SlotEnd(Y) \in Nat /\ SlotEnd(Y) <= SpanEnd(b) /\ Min(Starts) <= SlotEnd(Y)
  <2>1. shown[b] \in Nat /\ b.start <= shown[b] /\ shown[b] <= SpanEnd(b)
    BY <1>1
  <2>2. b.start \in Nat /\ Min(Starts) <= b.start /\ Min(Starts) \in Nat
    BY <1>9 DEF Laid
  <2> HIDE DEF Starts
  <2> QED
    BY <1>8, <2>1, <2>2
<1> QED
  BY <1>9, <1>10

-----------------------------------------------------------------------------
\* THE CHART

\* Some of the rows are such rows too.
LEMMA FewerReads ==
    ASSUME NEW X, Reads(X), NEW Y \in SUBSET X PROVE Reads(Y)
BY FS_Subset DEF Reads

LEMMA FewerLaid ==
    ASSUME NEW X, Laid(X), NEW Y \in SUBSET X PROVE Laid(Y)
BY FS_Subset DEF Laid

\* The first bucket after a gap that comes after some bucket is the first of its slot, and
\* its point knows of the gap.
LEMMA BreakAfterGap ==
    ASSUME NEW X, Laid(X), NEW group \in 1 .. GapBuckets, NEW b \in X, NEW from \in Nat,
           b.start - from > MinGap,
           \A c \in X : SpanEnd(c) <= from \/ b.start <= c.start,
           \E c \in X : SpanEnd(c) <= from
    PROVE  \E p \in Downsampled(X, group, 0) : p.start = b.start /\ p.gapBefore
<1> DEFINE s == Slot(b, group, 0)
           chunk == SlotBuckets(X, group, 0, s)
           earlier == {Slot(c, group, 0) : c \in X} \cap (0 .. s - 1)
           before == SlotBuckets(X, group, 0, Max(earlier))
           p == Point(X, group, 0, s)
<1>1. \A c \in X : c.start \in Nat /\ SpanEnd(c) \in Nat /\ c.start <= SpanEnd(c)
  BY DEF Laid
<1>2. MinGap \in Nat /\ s \in Nat
  BY <1>1, MinGapType, SlotsAreOrdered
<1>3. b \in chunk /\ chunk \in SUBSET X
  BY DEF SlotBuckets
<1>4. ASSUME NEW c \in chunk PROVE b.start <= c.start
  <2>1. b.start - c.start < MinGap
    BY <1>1, <1>3, SlotsAreOrdered DEF SlotBuckets
  <2> QED
    BY <1>1, <1>2, <1>3, <2>1
<1>5. Min({c.start : c \in chunk}) = b.start
  <2> DEFINE Starts == {c.start : c \in chunk}
  <2>1. Starts \in SUBSET Int /\ b.start \in Starts /\ \A k \in Starts : b.start <= k
    BY <1>1, <1>3, <1>4
  <2>2. Min(Starts) = b.start
    <3> HIDE DEF Starts
    <3> QED
      BY <2>1, MinIsLeast
  <2> QED
    BY <2>2
<1>6. Max(earlier) \in earlier
  <2>1. PICK c \in X : SpanEnd(c) <= from
    OBVIOUS
  <2>2. c.start < b.start /\ b.start - c.start > MinGap
    BY <1>1, <1>2, <2>1
  <2>3. Slot(c, group, 0) \in Nat /\ Slot(c, group, 0) <= s
    BY <1>1, <2>2, SlotsAreOrdered
  <2>4. Slot(c, group, 0) # s
    <3>1. Slot(c, group, 0) = s => b.start - c.start < MinGap
      BY <1>1, SlotsAreOrdered
    <3> QED
      BY <1>1, <1>2, <2>2, <3>1
  <2>5. Slot(c, group, 0) \in 0 .. s - 1
    BY <1>2, <2>3, <2>4
  <2>6. earlier # {} /\ earlier \subseteq 0 .. s - 1 /\ s - 1 \in Nat
    BY <1>2, <2>3, <2>5
  <2> HIDE DEF earlier, s
  <2> QED
    BY <2>6, MaxIsIn
<1>7. before # {} /\ before \in SUBSET X /\ \A c \in before : Slot(c, group, 0) < s
  <2>1. Max(earlier) \in 0 .. s - 1 /\ \E c \in X : Slot(c, group, 0) = Max(earlier)
    BY <1>6
  <2> HIDE DEF earlier, s
  <2> QED
    BY <1>2, <2>1 DEF SlotBuckets
<1>8. \A c \in before : SpanEnd(c) <= from
  <2>1. ASSUME NEW c \in before PROVE SpanEnd(c) <= from
    <3>1. c \in X /\ c.start < b.start
      BY <1>1, <1>7, SlotsAreOrdered
    <3> QED
      BY <1>1, <3>1
  <2> QED
    BY <2>1
<1>9. SlotEnd(before) \in Nat /\ SlotEnd(before) <= from
  <2>1. Laid(before)
    BY <1>7, FewerLaid
  <2> HIDE DEF before
  <2>2. SlotEnd(before) \in Nat /\ \E c \in before : SlotEnd(before) <= SpanEnd(c)
    BY <1>7, <2>1, SlotBounds
  <2> QED
    BY <1>1, <1>7, <1>8, <2>2
<1>10. p = [start |-> Min({c.start : c \in chunk}), end |-> SlotEnd(chunk), metric |-> Summary(chunk),
            gapBefore |-> /\ earlier # {}
                          /\ Min({c.start : c \in chunk}) - SlotEnd(before) > MinGap]
  BY DEF Point
<1>11. p.start = b.start
  <2>1. p.start = Min({c.start : c \in chunk})
    BY <1>10
  <2> QED
    BY <1>5, <2>1
<1>12. p.gapBefore
  <2>1. p.gapBefore = (earlier # {} /\ Min({c.start : c \in chunk}) - SlotEnd(before) > MinGap)
    <3> HIDE DEF p, earlier, before, chunk
    <3> QED
      BY <1>10, Zenon
  <2>2. b.start - SlotEnd(before) > MinGap
    BY <1>1, <1>2, <1>9
  <2>3. earlier # {}
    BY <1>6
  <2> QED
    BY <1>5, <2>1, <2>2, <2>3
<1> QED
  BY <1>11, <1>12 DEF Downsampled

\* The parts of a point.
LEMMA PointParts ==
    ASSUME NEW X, Laid(X), NEW group \in 1 .. GapBuckets,
           NEW s \in {Slot(r, group, 0) : r \in X}
    PROVE  LET chunk == SlotBuckets(X, group, 0, s)
               p == Point(X, group, 0, s)
           IN  /\ p \in Downsampled(X, group, 0) /\ p.metric = Summary(chunk)
               /\ p.start \in Nat /\ p.end \in Nat /\ p.start <= p.end
               /\ \A b \in chunk : p.start <= b.start
               /\ \E b \in chunk : p.start = b.start
               /\ \E b \in chunk : p.end <= SpanEnd(b)
<1> DEFINE chunk == SlotBuckets(X, group, 0, s)
           p == Point(X, group, 0, s)
<1>1. chunk \in SUBSET X /\ chunk # {}
  BY DEF SlotBuckets
<1>2. Laid(chunk)
  BY <1>1, FewerLaid
<1>3. /\ p.start = Min({b.start : b \in chunk}) /\ p.end = SlotEnd(chunk)
      /\ p.metric = Summary(chunk)
  BY DEF Point
<1>4. p \in Downsampled(X, group, 0)
  BY DEF Downsampled
<1>5. LET first == Min({b.start : b \in chunk})
      IN  /\ first \in Nat /\ \A b \in chunk : first <= b.start
          /\ \E b \in chunk : first = b.start
          /\ SlotEnd(chunk) \in Nat /\ first <= SlotEnd(chunk)
          /\ \E b \in chunk : SlotEnd(chunk) <= SpanEnd(b)
  <2> HIDE DEF chunk
  <2> QED
    BY <1>1, <1>2, SlotBounds
<1>6. /\ p.start \in Nat /\ p.end \in Nat /\ p.start <= p.end
      /\ \A b \in chunk : p.start <= b.start
      /\ \E b \in chunk : p.start = b.start
      /\ \E b \in chunk : p.end <= SpanEnd(b)
  <2> HIDE DEF chunk, p
  <2> QED
    BY <1>3, <1>5
<1> QED
  BY <1>3, <1>4, <1>6

\* Points, and summaries of a window, are of the samples.
LEMMA SummariesAgreeNow ==
    ASSUME Reads(store.rows) PROVE SummariesAgree /\ \A group \in 1 .. GapBuckets : PointsAgree(group)
<1>1. ASSUME NEW from, NEW to
      PROVE  SensorSummary(store.rows, from, to) =
             AggregateOf(SamplesOf({r \in store.rows : from <= r.start /\ r.start < to}))
  <2> DEFINE X == {r \in store.rows : from <= r.start /\ r.start < to}
  <2>1. Reads(X)
    BY FewerReads
  <2>2. SensorSummary(store.rows, from, to) = Summary(X)
    BY DEF SensorSummary
  <2> HIDE DEF X
  <2>3. SensorSummary(store.rows, from, to) = AggregateOf(SamplesOf(X))
    BY <2>1, <2>2, SummaryOfRows
  <2> QED
    BY <2>3 DEF X
<1>2. ASSUME NEW group, NEW s
      PROVE  Point(store.rows, group, 0, s).metric =
             AggregateOf(SamplesOf(SlotBuckets(store.rows, group, 0, s)))
  <2> DEFINE X == SlotBuckets(store.rows, group, 0, s)
  <2>1. Reads(X)
    BY FewerReads DEF SlotBuckets
  <2>2. Point(store.rows, group, 0, s).metric = Summary(X)
    BY DEF Point
  <2> HIDE DEF X
  <2>3. Point(store.rows, group, 0, s).metric = AggregateOf(SamplesOf(X))
    BY <2>1, <2>2, SummaryOfRows
  <2> QED
    BY <2>3 DEF X
<1> QED
  BY <1>1, <1>2 DEF SummariesAgree, PointsAgree

\* What a counter moved, as a sum over a function.
LEMMA SumOfSpans ==
    ASSUME NEW S
    PROVE  MapThenSumSet(LAMBDA r : AggregateOf(r.samples).max - AggregateOf(r.samples).min, S) =
           SumOver([r \in S |-> AggregateOf(r.samples).max - AggregateOf(r.samples).min], S)
<1> DEFINE span(r) == AggregateOf(r.samples).max - AggregateOf(r.samples).min
           f == [r \in S |-> span(r)]
           h == [x \in S |-> f[x]]
           Full(g) == g = [s \in SUBSET S |-> IF s = {} THEN 0 ELSE h[Pick(s)] + g[s \ {Pick(s)}]]
           Plain(g) == g = [s \in SUBSET S |-> IF s = {} THEN 0 ELSE span(Pick(s)) + g[s \ {Pick(s)}]]
<1>1. ASSUME NEW g PROVE Full(g) <=> Plain(g)
  <2>1. \A s \in SUBSET S : s # {} => h[Pick(s)] = span(Pick(s))
    BY PickIsIn
  <2> HIDE DEF f, h, span
  <2> QED
    BY <2>1
<1>2. (CHOOSE g : Full(g)) = (CHOOSE g : Plain(g))
  <2> HIDE DEF f, h, span
  <2> QED
    BY <1>1
<1>3. SumOf(h) = (CHOOSE g : Full(g))[S]
  <2>1. DOMAIN h = S
    OBVIOUS
  <2> HIDE DEF f, h
  <2> QED
    BY <2>1 DEF SumOf, MapThenSumSet, MapThenFoldSet, Pick
<1>4. MapThenSumSet(LAMBDA r : AggregateOf(r.samples).max - AggregateOf(r.samples).min, S) =
        (CHOOSE g : Plain(g))[S]
  BY DEF MapThenSumSet, MapThenFoldSet, Pick
<1> QED
  BY <1>2, <1>3, <1>4 DEF SumOver

LEMMA TotalsAgreeNow ==
    ASSUME Reads(store.rows) PROVE TotalsAgree
<1> DEFINE R == Real(store.rows)
           moved(r) == AggregateOf(r.samples).max - AggregateOf(r.samples).min
           f == [b \in R |-> b.metric.max - b.metric.min]
           h == [r \in R |-> AggregateOf(r.samples).max - AggregateOf(r.samples).min]
<1> SUFFICES ASSUME R # {} PROVE CounterTotal(store.rows) = MapThenSumSet(moved, R)
  BY DEF TotalsAgree
<1>1. CounterTotal(store.rows) = MapThenSumSet(LAMBDA b : b.metric.max - b.metric.min, R)
  BY DEF CounterTotal, Real
<1>2. CounterTotal(store.rows) = SumOver(f, R)
  BY <1>1, SumOfMoves
<1>3. MapThenSumSet(moved, R) = SumOver(h, R)
  BY SumOfSpans
<1>4. \A b \in R : f[b] = h[b]
  <2>1. ASSUME NEW b \in R PROVE b.metric = AggregateOf(b.samples)
    BY RealRows
  <2> QED
    BY <2>1
<1>5. SumOver(f, R) = SumOver(h, R)
  <2> HIDE DEF f, h, R
  <2> QED
    BY <1>4, SumsAreSame
<1> QED
  BY <1>2, <1>3, <1>5

LEMMA BreaksNow ==
    ASSUME Laid(store.rows), now \in Nat, NEW group \in 1 .. GapBuckets
    PROVE  BreaksAtGaps(group)
<1> SUFFICES ASSUME NEW g \in GapSpans(store.rows, 0, now), Lengthy(g), g.from > 0, g.to < now
             PROVE  \E p \in Downsampled(store.rows, group, 0) : p.start = g.to /\ p.gapBefore
  BY DEF BreaksAtGaps
<1>1. /\ g.from \in Nat
      /\ \A c \in store.rows : SpanEnd(c) <= g.from \/ g.to <= c.start
      /\ g.from = 0 \/ \E c \in store.rows : g.from = SpanEnd(c)
      /\ g.to = now \/ \E c \in store.rows : g.to = c.start
  <2>1. 0 \in Nat
    OBVIOUS
  <2> QED
    BY <2>1, GapIsClear
<1>2. PICK c \in store.rows : g.from = SpanEnd(c)
  BY <1>1
<1>3. PICK b \in store.rows : g.to = b.start
  BY <1>1
<1>4. SpanEnd(c) <= g.from
  BY <1>1, <1>2 DEF Laid
<1> QED
  BY <1>1, <1>3, <1>4, BreakAfterGap DEF Lengthy

\* No line of the chart passes over a gap, or through a slot without a reading.
LEMMA LinesNow ==
    ASSUME Laid(store.rows), Reads(store.rows), now \in Nat, NEW group \in 1 .. GapBuckets
    PROVE  LinesAreWatched(group)
<1> DEFINE X == store.rows
           points == Downsampled(X, group, 0)
           In(s) == SlotBuckets(X, group, 0, s)
<1> SUFFICES ASSUME NEW p \in points, NEW q \in points, Joined(points, p, q)
             PROVE  /\ \A g \in GapSpans(X, 0, now) :
                           Lengthy(g) => g.from < p.end \/ q.start < g.to
                    /\ \A r \in X : p.start <= r.start /\ r.start <= q.start =>
                           \E b \in In(Slot(r, group, 0)) : AggregateOf(SamplesOf({b})) # None
  BY DEF LinesAreWatched
<1>1. PICK u \in {Slot(r, group, 0) : r \in X} : p = Point(X, group, 0, u)
  BY DEF Downsampled
<1>2. PICK v \in {Slot(r, group, 0) : r \in X} : q = Point(X, group, 0, v)
  BY DEF Downsampled
<1>3. /\ p.metric = Summary(In(u)) /\ p.start \in Nat /\ p.end \in Nat /\ p.start <= p.end
      /\ \E b \in In(u) : p.start = b.start
  BY <1>1, PointParts
<1>4. q.start \in Nat /\ \E b \in In(v) : q.start = b.start
  BY <1>2, PointParts
<1>5. /\ p.start < q.start /\ p.metric # None
      /\ \A r \in points :
             p.start < r.start /\ r.start <= q.start => r.metric # None /\ ~r.gapBefore
  BY DEF Joined
<1>6. \A r \in X : r.start \in Nat /\ SpanEnd(r) \in Nat /\ r.start <= SpanEnd(r)
  BY DEF Laid
<1>7. ASSUME NEW g \in GapSpans(X, 0, now), Lengthy(g), p.end <= g.from, g.to <= q.start
      PROVE  FALSE
  <2>1. /\ g.from \in Nat
        /\ \A c \in X : SpanEnd(c) <= g.from \/ g.to <= c.start
        /\ g.from = 0 \/ \E c \in X : g.from = SpanEnd(c)
        /\ g.to = now \/ \E c \in X : g.to = c.start
    <3>1. 0 \in Nat
      OBVIOUS
    <3> QED
      BY <3>1, GapIsClear
  <2>2. g.to - g.from > MinGap /\ MinGap \in Nat /\ g.to \in Nat
    BY <1>6, <1>7, <2>1, MinGapType DEF Lengthy
  <2>3. PICK c \in X : c.start = p.start
    BY <1>3 DEF SlotBuckets
  <2>4. PICK d \in X : d.start = q.start
    BY <1>4 DEF SlotBuckets
  <2>5. SpanEnd(c) <= g.from
    BY <1>3, <1>6, <1>7, <2>1, <2>2, <2>3
  <2>6. PICK b \in X : b.start >= g.to /\ \A e \in X : e.start >= g.to => e.start >= b.start
    <3> DEFINE Later == {e \in X : e.start >= g.to}
               Starts == {e.start : e \in Later}
    <3>1. Starts \in SUBSET Nat /\ Starts # {}
      BY <1>6, <1>7, <2>4
    <3>2. PICK m \in Starts : \A k \in Starts : m <= k
      <4> HIDE DEF Starts
      <4> QED
        BY <3>1, LeastNatural
    <3> QED
      BY <3>2
  <2>7. b.start - g.from > MinGap
    BY <1>6, <2>1, <2>2, <2>6
  <2>8. \A e \in X : SpanEnd(e) <= g.from \/ b.start <= e.start
    BY <1>6, <2>1, <2>2, <2>6
  <2>9. PICK r \in points : r.start = b.start /\ r.gapBefore
    BY <2>1, <2>5, <2>7, <2>8, BreakAfterGap
  <2>10. p.start < r.start /\ r.start <= q.start
    BY <1>3, <1>4, <1>6, <1>7, <2>1, <2>2, <2>4, <2>6, <2>9
  <2> QED
    BY <1>5, <2>9, <2>10
<1>8. ASSUME NEW r \in X, p.start <= r.start, r.start <= q.start
      PROVE  \E b \in In(Slot(r, group, 0)) : AggregateOf(SamplesOf({b})) # None
  <2> DEFINE s == Slot(r, group, 0)
             t == Point(X, group, 0, s)
  <2>1. /\ t \in points /\ t.metric = Summary(In(s)) /\ t.start \in Nat
        /\ \A b \in In(s) : t.start <= b.start
        /\ \E b \in In(s) : t.start = b.start
    BY PointParts
  <2>2. r \in In(s) /\ t.start <= r.start
    BY <2>1 DEF SlotBuckets
  <2>3. t.metric # None
    <3>1. CASE p.start < t.start
      BY <1>4, <1>5, <1>6, <1>8, <2>1, <2>2, <3>1
    <3>2. CASE t.start <= p.start
      <4>1. PICK b \in In(s) : t.start = b.start
        BY <2>1
      <4>2. PICK c \in In(u) : p.start = c.start
        BY <1>3
      <4>3. b \in X /\ c \in X /\ Slot(b, group, 0) = s /\ Slot(c, group, 0) = u
        BY <4>1, <4>2 DEF SlotBuckets
      <4>4. Slot(b, group, 0) <= Slot(c, group, 0) /\ Slot(c, group, 0) <= Slot(r, group, 0)
        BY <1>6, <1>8, <3>2, <4>1, <4>2, <4>3, SlotsAreOrdered
      <4>5. s = u
        <5>1. Slot(b, group, 0) \in Nat /\ Slot(c, group, 0) \in Nat
          BY <1>6, <4>3, SlotsAreOrdered
        <5> QED
          BY <4>3, <4>4, <5>1
      <4> QED
        BY <1>3, <1>5, <2>1, <4>5
    <3> QED
      BY <1>3, <2>1, <3>1, <3>2
  <2>4. PICK b \in Real(In(s)) : TRUE
    BY <2>1, <2>3 DEF Summary
  <2>5. b \in In(s) /\ b \in X /\ b.metric # None /\ b.metric # Absent
    BY <2>4 DEF Real, SlotBuckets
  <2>6. b.metric = AggregateOf(b.samples)
    BY <2>5 DEF Reads
  <2>7. SamplesOf({b}) = b.samples
    BY <2>5 DEF SamplesOf
  <2> QED
    BY <2>5, <2>6, <2>7
<1>9. ASSUME NEW g \in GapSpans(X, 0, now), Lengthy(g) PROVE g.from < p.end \/ q.start < g.to
  <2>1. g.from \in Nat /\ (g.to = now \/ \E c \in X : g.to = c.start)
    <3>1. 0 \in Nat
      OBVIOUS
    <3> QED
      BY <3>1, GapIsClear
  <2>2. g.to \in Nat
    BY <1>6, <2>1
  <2> QED
    BY <1>3, <1>4, <1>7, <1>9, <2>1, <2>2
<1> QED
  BY <1>8, <1>9

-----------------------------------------------------------------------------
\* GAPS AND THEIR NAMES

\* A midnight is not after the midnight before any later moment.
LEMMA Midnights ==
    ASSUME NEW t \in Nat
    PROVE  /\ DayStart(t) \in Nat /\ DayStart(t) <= t /\ t < DayStart(t) + DaySeconds
           /\ \A u \in Nat : DayStart(t) <= u => DayStart(t) <= DayStart(u)
<1> DEFINE q == t \div DaySeconds
<1>1. q \in Nat /\ DaySeconds * q <= t /\ t < DaySeconds * q + DaySeconds
  BY Quotient, ViewConstants
<1>2. DayStart(t) = DaySeconds * q
  BY <1>1, ViewConstants DEF DayStart
<1>3. ASSUME NEW u \in Nat, DayStart(t) <= u PROVE DayStart(t) <= DayStart(u)
  <2> DEFINE r == u \div DaySeconds
  <2>1. r \in Nat /\ u < DaySeconds * r + DaySeconds /\ DayStart(u) = DaySeconds * r
    BY Quotient, ViewConstants DEF DayStart
  <2> HIDE DEF q, r
  <2>2. CASE q <= r
    <3>1. PICK k \in Nat : r = q + k
      <4>1. r - q \in Nat /\ r = q + (r - q)
        BY <1>1, <2>1, <2>2
      <4> QED
        BY <4>1
    <3>2. DaySeconds * r = DaySeconds * q + DaySeconds * k /\ DaySeconds * k \in Nat
      BY <1>1, <3>1, ViewConstants
    <3>3. DaySeconds * q \in Nat
      BY <1>1, ViewConstants
    <3> QED
      BY <1>2, <2>1, <3>2, <3>3
  <2>3. CASE r < q
    <3>1. PICK k \in Nat : q = r + 1 + k
      <4>1. q - r - 1 \in Nat /\ q = r + 1 + (q - r - 1)
        BY <1>1, <2>1, <2>3
      <4> QED
        BY <4>1
    <3>2. DaySeconds * q = DaySeconds * r + DaySeconds + DaySeconds * k /\ DaySeconds * k \in Nat
      BY <2>1, <3>1, ViewConstants
    <3>3. DaySeconds * r \in Nat
      BY <2>1, ViewConstants
    <3> QED
      BY <1>2, <1>3, <2>1, <3>2, <3>3, ViewConstants
  <2> QED
    BY <1>1, <2>1, <2>2, <2>3
<1> QED
  BY <1>1, <1>2, <1>3, ViewConstants

LEMMA GapsAreFinite ==
    ASSUME NEW X, Laid(X), NEW base, NEW end PROVE IsFiniteSet(GapSpans(X, base, end))
<1> DEFINE f == [b \in X |-> [from |-> Cursor(X, b, base), to |-> b.start]]
           inner == {[from |-> Cursor(X, b, base), to |-> b.start] : b \in X}
           last == [from |-> Max({base} \cup {SpanEnd(b) : b \in X}), to |-> end]
<1>1. IsFiniteSet(inner)
  <2>1. f \in Surjection(X, inner)
    BY DEF Surjection
  <2> HIDE DEF f, inner
  <2> QED
    BY <2>1, FS_Surjection DEF Laid
<1>2. IsFiniteSet(inner \cup {last})
  <2> HIDE DEF inner, last
  <2>1. IsFiniteSet({last})
    BY FS_Singleton
  <2> QED
    BY <1>1, <2>1, FS_Union
<1>3. GapSpans(X, base, end) \subseteq inner \cup {last}
  BY DEF GapSpans
<1> QED
  BY <1>2, <1>3, FS_Subset

\* Two gaps that begin together are one, and so are two that end together.
LEMMA GapsDiffer ==
    ASSUME NEW X, Laid(X), NEW base \in Nat, NEW end \in Nat, \A c \in X : c.start <= end,
           NEW g \in GapSpans(X, base, end), NEW h \in GapSpans(X, base, end),
           g.from = h.from \/ g.to = h.to
    PROVE  g = h
<1>1. /\ g = [from |-> g.from, to |-> g.to] /\ g.to - g.from >= MinGap
      /\ g.from \in Nat /\ base <= g.from
      /\ \A c \in X : SpanEnd(c) <= g.from \/ g.to <= c.start
      /\ g.from = base \/ \E c \in X : g.from = SpanEnd(c)
      /\ g.to = end \/ \E c \in X : g.to = c.start
  BY GapIsClear
<1>2. /\ h = [from |-> h.from, to |-> h.to] /\ h.to - h.from >= MinGap
      /\ h.from \in Nat /\ base <= h.from
      /\ \A c \in X : SpanEnd(c) <= h.from \/ h.to <= c.start
      /\ h.from = base \/ \E c \in X : h.from = SpanEnd(c)
      /\ h.to = end \/ \E c \in X : h.to = c.start
  BY GapIsClear
<1>3. \A c \in X : c.start \in Nat /\ SpanEnd(c) \in Nat /\ c.start <= SpanEnd(c)
  BY DEF Laid
<1>4. MinGap \in Nat /\ MinGap > 0 /\ g.to \in Nat /\ h.to \in Nat /\ g.to <= end /\ h.to <= end
  BY <1>1, <1>2, <1>3, MinGapType
<1>5. g.from = h.from /\ g.to = h.to
  BY <1>1, <1>2, <1>3, <1>4
<1> QED
  BY <1>1, <1>2, <1>5

\* The buckets that begin within a day.
OfDay(X, day) == {b \in X : day <= b.start /\ b.start < day + DaySeconds}

LEMMA DayGapParts ==
    ASSUME NEW X, Laid(X), NEW day \in Nat, NEW x \in DayGaps(X, day)
    PROVE  LET gaps == GapSpans(OfDay(X, day), day, day + DaySeconds)
           IN  \E g \in gaps : /\ x.from = g.from /\ x.to = g.to
                               /\ x.rank = Cardinality({h \in gaps : h.from <= g.from})
BY DEF DayGaps, OfDay

\* No two gaps of a day have the same rank.
LEMMA RanksDiffer ==
    ASSUME NEW X, Laid(X), NEW day \in Nat, NEW x \in DayGaps(X, day), NEW y \in DayGaps(X, day)
    PROVE  /\ x.rank \in Nat
           /\ x.rank = y.rank => x.from = y.from /\ x.to = y.to
<1> DEFINE D == OfDay(X, day)
           gaps == GapSpans(D, day, day + DaySeconds)
           Upto(g) == {k \in gaps : k.from <= g.from}
<1>1. Laid(D) /\ day + DaySeconds \in Nat /\ \A c \in D : c.start <= day + DaySeconds
  <2>1. D \in SUBSET X
    BY DEF OfDay
  <2>2. Laid(D)
    <3> HIDE DEF D
    <3> QED
      BY <2>1, FewerLaid
  <2>3. \A c \in D : c.start <= day + DaySeconds
    <3>1. \A c \in D : c.start \in Nat
      BY <2>1 DEF Laid
    <3> QED
      BY <3>1, ViewConstants DEF OfDay
  <2> QED
    BY <2>2, <2>3, ViewConstants
<1>2. IsFiniteSet(gaps)
  <2> HIDE DEF D
  <2> QED
    BY <1>1, GapsAreFinite
<1>3. PICK g \in gaps : x.from = g.from /\ x.to = g.to /\ x.rank = Cardinality(Upto(g))
  BY DayGapParts
<1>4. PICK h \in gaps : y.from = h.from /\ y.to = h.to /\ y.rank = Cardinality(Upto(h))
  BY DayGapParts
<1>5. \A k \in gaps : k.from \in Nat
  <2>1. ASSUME NEW k \in gaps PROVE k.from \in Nat
    <3> HIDE DEF D
    <3> QED
      BY <1>1, GapIsClear
  <2> QED
    BY <2>1
<1> HIDE DEF gaps
<1>6. \A k \in gaps : IsFiniteSet(Upto(k)) /\ Cardinality(Upto(k)) \in Nat
  <2>1. ASSUME NEW k \in gaps PROVE IsFiniteSet(Upto(k))
    BY <1>2, FS_Subset
  <2> QED
    BY <2>1, FS_CardinalityType
<1>7. ASSUME NEW k \in gaps, NEW l \in gaps, k.from < l.from
      PROVE  Cardinality(Upto(k)) # Cardinality(Upto(l))
  <2>1. Upto(k) \in SUBSET Upto(l)
    BY <1>5, <1>7
  <2>2. l \in Upto(l) /\ l \notin Upto(k)
    BY <1>5, <1>7
  <2>3. IsFiniteSet(Upto(l))
    BY <1>6
  <2> HIDE DEF Upto
  <2>4. Cardinality(Upto(l)) = Cardinality(Upto(k)) => Upto(l) = Upto(k)
    BY <2>1, <2>3, FS_Subset
  <2> QED
    BY <2>2, <2>4
<1>8. ASSUME x.rank = y.rank PROVE g = h
  <2>1. g.from = h.from
    <3>1. ~(g.from < h.from) /\ ~(h.from < g.from)
      BY <1>3, <1>4, <1>7, <1>8
    <3>2. g.from \in Nat /\ h.from \in Nat
      BY <1>5
    <3> QED
      BY <3>1, <3>2
  <2> HIDE DEF D
  <2> QED
    BY <1>1, <2>1, GapsDiffer DEF gaps
<1> QED
  BY <1>3, <1>4, <1>6, <1>8

\* A gap of a window that lies within a day has the name of a gap of that day around it.
LEMMA GapHasName ==
    ASSUME NEW X, Laid(X), NEW t \in Nat, NEW end \in Nat, \A r \in X : r.start <= end,
           NEW g \in GapSpans({b \in X : b.start >= DayStart(t)}, DayStart(t), end),
           DayStart(g.from) = DayStart(g.to - 1)
    PROVE  \E x \in DayGaps(X, DayStart(g.from)) :
               x.from <= g.from /\ g.to <= x.to /\ GapId(X, g) = x.rank
<1> DEFINE from == DayStart(t)
           W == {b \in X : b.start >= from}
           day == DayStart(g.from)
           D == OfDay(X, day)
           of == {x \in DayGaps(X, day) : x.from <= g.from /\ x.to >= g.to}
<1>1. from \in Nat /\ Laid(W)
  <2>1. W \in SUBSET X
    OBVIOUS
  <2>2. Laid(W)
    <3> HIDE DEF W
    <3> QED
      BY <2>1, FewerLaid
  <2> QED
    BY <2>2, Midnights
<1>2. /\ g.to - g.from >= MinGap /\ g.from \in Nat /\ from <= g.from
      /\ \A c \in W : SpanEnd(c) <= g.from \/ g.to <= c.start
      /\ g.to = end \/ \E c \in W : g.to = c.start
  <2> HIDE DEF W, from
  <2>1. g \in GapSpans(W, from, end)
    BY DEF W, from
  <2> QED
    BY <1>1, <2>1, GapIsClear
<1>3. \A c \in X : c.start \in Nat /\ SpanEnd(c) \in Nat /\ c.start <= SpanEnd(c)
  BY DEF Laid
<1>4. g.to \in Nat /\ MinGap \in Nat /\ MinGap > 0 /\ g.to - 1 \in Nat /\ g.from <= g.to - 1
  BY <1>2, <1>3, MinGapType
<1>5. /\ day \in Nat /\ day <= g.from /\ g.to - 1 < day + DaySeconds /\ from <= day
      /\ day + DaySeconds \in Nat
  BY <1>2, <1>4, Midnights, ViewConstants
<1>6. g.to <= day + DaySeconds
  BY <1>4, <1>5
<1> HIDE DEF day, from
<1>7. \A c \in D : c \in W
  BY <1>1, <1>3, <1>5 DEF OfDay
<1>8. \E k \in GapSpans(D, day, day + DaySeconds) : k.from <= g.from /\ g.to <= k.to
  <2>1. day \in 0 .. g.from
    BY <1>2, <1>5
  <2>2. \A c \in D : c.start \in Nat /\ SpanEnd(c) \in Nat
    BY <1>3, <1>7
  <2>3. \A c \in D : SpanEnd(c) <= g.from \/ g.to <= c.start
    BY <1>2, <1>7
  <2> HIDE DEF D
  <2> QED
    BY <1>2, <1>4, <1>5, <1>6, <2>1, <2>2, <2>3, StretchIsReported
<1>9. of # {}
  <2> DEFINE gaps == GapSpans(D, day, day + DaySeconds)
             x(k) == [from |-> k.from, to |-> k.to, day |-> day,
                      rank |-> Cardinality({h \in gaps : h.from <= k.from})]
  <2>1. DayGaps(X, day) = {x(k) : k \in gaps}
    BY DEF DayGaps, OfDay
  <2>2. PICK k \in gaps : k.from <= g.from /\ g.to <= k.to
    BY <1>8
  <2>3. x(k) \in DayGaps(X, day) /\ x(k).from = k.from /\ x(k).to = k.to
    BY <2>1
  <2>4. k.to >= g.to
    BY <2>2
  <2> HIDE DEF x, gaps
  <2> QED
    BY <2>2, <2>3, <2>4
<1>10. GapId(X, g) = (CHOOSE x \in of : TRUE).rank
  BY <1>9 DEF GapId, day
<1>11. (CHOOSE x \in of : TRUE) \in of
  BY <1>9
<1>12. \A x \in of : x \in DayGaps(X, day) /\ x.from <= g.from /\ g.to <= x.to
  <2>1. ASSUME NEW x \in of PROVE g.to <= x.to
    <3>1. PICK k \in GapSpans(D, day, day + DaySeconds) : x.to = k.to
      BY <1>5, DayGapParts
    <3>2. x.to >= g.to
      OBVIOUS
    <3> QED
      BY <3>2
  <2> QED
    BY <2>1
<1> HIDE DEF of
<1> QED
  BY <1>10, <1>11, <1>12 DEF day

LEMMA NamesAreKeptNow ==
    ASSUME Laid(store.rows), now \in Nat, \A r \in store.rows : SpanEnd(r) <= now
    PROVE  GapsKeepTheirNames
<1> DEFINE X == store.rows
           W(t) == {b \in X : b.start >= DayStart(t)}
           gaps(t) == {g \in TimelineGaps(X, DayStart(t), now) : DayStart(g.from) = DayStart(g.to - 1)}
<1>1. \A r \in X : r.start \in Nat /\ SpanEnd(r) \in Nat /\ r.start <= SpanEnd(r) /\ r.start <= now
  BY DEF Laid
<1>2. ASSUME NEW t \in Nat, NEW g \in gaps(t)
      PROVE  \E k \in GapSpans(W(t), DayStart(t), now) :
                 /\ g.from = k.from /\ g.to = k.to
                 /\ g = [from |-> k.from, to |-> k.to, id |-> g.id]
                 /\ \E x \in DayGaps(X, DayStart(g.from)) :
                        x.from <= g.from /\ g.to <= x.to /\ g.id = x.rank
  <2>1. PICK k \in GapSpans(W(t), DayStart(t), now) :
            g = [from |-> k.from, to |-> k.to, id |-> GapId(X, k)]
    BY DEF TimelineGaps
  <2>2. g.from = k.from /\ g.to = k.to /\ g.id = GapId(X, k)
    BY <2>1
  <2>3. DayStart(k.from) = DayStart(k.to - 1)
    BY <2>2
  <2>4. \E x \in DayGaps(X, DayStart(k.from)) :
            x.from <= k.from /\ k.to <= x.to /\ GapId(X, k) = x.rank
    BY <1>1, <2>3, GapHasName
  <2> QED
    BY <2>1, <2>2, <2>4
<1>3. ASSUME NEW t \in Nat, NEW g \in gaps(t)
      PROVE  /\ g.from \in Nat /\ DayStart(t) <= g.from /\ g.to - g.from >= MinGap /\ g.to \in Nat
             /\ \A c \in W(t) : SpanEnd(c) <= g.from \/ g.to <= c.start
             /\ g.to = now \/ \E c \in W(t) : g.to = c.start
  <2>1. PICK k \in GapSpans(W(t), DayStart(t), now) : g.from = k.from /\ g.to = k.to
    BY <1>2
  <2>2. Laid(W(t)) /\ DayStart(t) \in Nat
    <3>1. W(t) \in SUBSET X
      OBVIOUS
    <3> HIDE DEF W
    <3> QED
      BY <3>1, FewerLaid, Midnights
  <2>3. /\ k.from \in Nat /\ DayStart(t) <= k.from /\ k.to - k.from >= MinGap
        /\ \A c \in W(t) : SpanEnd(c) <= k.from \/ k.to <= c.start
        /\ k.to = now \/ \E c \in W(t) : k.to = c.start
    <3> HIDE DEF W
    <3> QED
      BY <2>2, GapIsClear
  <2>4. k.to \in Nat
    BY <1>1, <2>3
  <2> QED
    BY <2>1, <2>3, <2>4
<1>4. ASSUME NEW t \in Nat, NEW g \in gaps(t) PROVE g.id # None
  <2>1. DayStart(g.from) \in Nat
    BY <1>3, Midnights
  <2>2. PICK x \in DayGaps(X, DayStart(g.from)) : g.id = x.rank
    BY <1>2
  <2>3. x.rank \in Nat
    BY <2>1, RanksDiffer
  <2> QED
    BY <2>2, <2>3, TelemetryConstants
<1>5. ASSUME NEW t \in Nat, NEW g \in gaps(t), NEW h \in gaps(t),
             g.id = h.id, DayStart(g.from) = DayStart(h.from)
      PROVE  ~(g.to < h.to)
  <2> SUFFICES ASSUME g.to < h.to PROVE FALSE
    OBVIOUS
  <2> DEFINE day == DayStart(g.from)
  <2>1. /\ g.from \in Nat /\ DayStart(t) <= g.from /\ g.to - g.from >= MinGap /\ g.to \in Nat
        /\ g.to = now \/ \E c \in W(t) : g.to = c.start
    BY <1>3
  <2>2. /\ h.from \in Nat /\ h.to - h.from >= MinGap /\ h.to \in Nat
        /\ h.to = now \/ \E c \in W(t) : h.to = c.start
    BY <1>3
  <2>3. day \in Nat /\ day <= g.from /\ h.to - 1 < day + DaySeconds
    <3>1. MinGap \in Nat /\ MinGap > 0
      BY MinGapType
    <3>2. h.to - 1 \in Nat
      BY <2>2, <3>1
    <3>3. DayStart(h.to - 1) = day
      BY <1>5
    <3> QED
      BY <2>1, <3>2, <3>3, Midnights
  <2>4. PICK x \in DayGaps(X, day) : x.from <= g.from /\ g.to <= x.to /\ g.id = x.rank
    BY <1>2
  <2>5. PICK y \in DayGaps(X, day) : y.from <= h.from /\ h.to <= y.to /\ h.id = y.rank
    BY <1>2, <1>5
  <2>6. x.from = y.from /\ x.to = y.to
    <3>1. x.rank = y.rank
      BY <1>5, <2>4, <2>5
    <3>2. Laid(X)
      OBVIOUS
    <3> HIDE DEF day, X
    <3> QED
      BY <2>3, <3>1, <3>2, RanksDiffer
  <2>7. PICK c \in W(t) : g.to = c.start
    BY <1>1, <2>1, <2>2
  <2>8. PICK k \in GapSpans(OfDay(X, day), day, day + DaySeconds) : x.from = k.from /\ x.to = k.to
    BY <2>3, DayGapParts
  <2>9. /\ k.from \in Nat /\ k.to \in Nat
        /\ \A e \in OfDay(X, day) : SpanEnd(e) <= k.from \/ k.to <= e.start
    <3>1. OfDay(X, day) \in SUBSET X
      BY DEF OfDay
    <3>2. Laid(OfDay(X, day)) /\ day + DaySeconds \in Nat
      BY <2>3, <3>1, FewerLaid, ViewConstants
    <3>3. /\ k.from \in Nat
          /\ \A e \in OfDay(X, day) : SpanEnd(e) <= k.from \/ k.to <= e.start
          /\ k.to = day + DaySeconds \/ \E e \in OfDay(X, day) : k.to = e.start
      BY <2>3, <3>2, GapIsClear
    <3> QED
      BY <1>1, <3>1, <3>2, <3>3
  <2>10. MinGap \in Nat /\ MinGap > 0 /\ c \in X
    BY MinGapType
  <2> HIDE DEF day, X
  <2>11. c \in OfDay(X, day)
    BY <1>1, <2>1, <2>2, <2>3, <2>7, <2>10, ViewConstants DEF OfDay
  <2>12. SpanEnd(c) <= k.from \/ k.to <= c.start
    BY <2>9, <2>11
  <2>13. c.start \in Nat /\ SpanEnd(c) \in Nat /\ c.start <= SpanEnd(c)
    BY <1>1, <2>10
  <2> QED
    BY <2>1, <2>2, <2>4, <2>5, <2>6, <2>7, <2>8, <2>9, <2>10, <2>12, <2>13
<1>6. ASSUME NEW t \in Nat, NEW g \in gaps(t), NEW h \in gaps(t),
             g.id = h.id, DayStart(g.from) = DayStart(h.from)
      PROVE  g = h
  <2>1. PICK k \in GapSpans(W(t), DayStart(t), now) :
            g.to = k.to /\ g = [from |-> k.from, to |-> k.to, id |-> g.id]
    BY <1>2
  <2>2. PICK l \in GapSpans(W(t), DayStart(t), now) :
            h.to = l.to /\ h = [from |-> l.from, to |-> l.to, id |-> h.id]
    BY <1>2
  <2>3. g.to \in Nat /\ h.to \in Nat /\ ~(g.to < h.to) /\ ~(h.to < g.to)
    BY <1>3, <1>5, <1>6
  <2>4. k.to = l.to
    BY <2>1, <2>2, <2>3
  <2>5. Laid(W(t)) /\ DayStart(t) \in Nat /\ \A c \in W(t) : c.start <= now
    <3>1. W(t) \in SUBSET X
      OBVIOUS
    <3>2. \A c \in W(t) : c.start <= now
      BY <1>1
    <3> HIDE DEF W
    <3> QED
      BY <3>1, <3>2, FewerLaid, Midnights
  <2>6. k = l
    <3> HIDE DEF W
    <3> QED
      BY <2>4, <2>5, GapsDiffer
  <2> QED
    BY <1>6, <2>1, <2>2, <2>6
<1>7. \A t \in 0 .. now : t \in Nat
  OBVIOUS
<1> QED
  BY <1>4, <1>6, <1>7 DEF GapsKeepTheirNames

\* Summaries of every window, the points of the chart, the places where its line breaks, and
\* the names of the gaps say what the samples say, for every clock, every metric, every
\* history and every number of starts and faults.
THEOREM ViewsAlwaysAgree == Spec => []ViewsAgree
<1>1. TelemetryInv /\ RowsInv => ViewsAgree
  <2> SUFFICES ASSUME TelemetryInv, RowsInv PROVE ViewsAgree
    OBVIOUS
  <2>1. /\ Laid(store.rows) /\ Reads(store.rows)
        /\ now \in Nat /\ \A r \in store.rows : SpanEnd(r) <= now
    BY RowsAreLaid
  <2> QED
    BY <2>1, TotalsAgreeNow, SummariesAgreeNow, NamesAreKeptNow, BreaksNow, LinesNow DEF ViewsAgree
<1> QED
  BY <1>1, RowsAreSound, PTL
=============================================================================
