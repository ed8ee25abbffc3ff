--------------------------- MODULE Console_proofs ---------------------------
(***************************************************************************)
(* What holds of the parts of Console for all values of their constants:   *)
(* the debounced zone of a sensor, the hand-over of snapshots, the records *)
(* and how they are found, the windows that show them, the samplers, the   *)
(* rows of the panels and the tables of processes.                         *)
(***************************************************************************)
EXTENDS Console, Extrema, SequenceTheorems

-----------------------------------------------------------------------------
\* THE ZONE OF A SENSOR

LEMMA ZoneIsRange == Zone = 0 .. 3 /\ GREEN = 0 /\ RED = 3 /\ NoReading = -1
BY DEF Zone, GREEN, RED, NoReading

\* A set of zones that is not empty has one with the highest floor.
LEMMA HighestFloor ==
    ASSUME NEW Z \in SUBSET Zone, Z # {}
    PROVE  \E z \in Z : \A y \in Z : Floors[y] <= Floors[z]
<1>1. /\ Floors[0] \in Int /\ Floors[1] \in Int /\ Floors[2] \in Int /\ Floors[3] \in Int
      /\ \A z \in Zone : z = 0 \/ z = 1 \/ z = 2 \/ z = 3
  BY DebounceConstants, ZoneIsRange
<1> QED
  BY <1>1

\* A value is in a zone, or below every floor.
LEMMA ZoneForType == ASSUME NEW value PROVE ZoneFor(value, Floors) \in Reading
<1> DEFINE reached == {z \in DOMAIN Floors : Floors[z] <= value}
<1>1. reached \in SUBSET Zone
  BY DebounceConstants
<1>2. ASSUME reached # {}
      PROVE  (CHOOSE z \in reached : \A y \in reached : Floors[y] <= Floors[z]) \in Zone
  <2> HIDE DEF reached
  <2> QED
    BY <1>1, <1>2, HighestFloor
<1> QED
  BY <1>2 DEF ZoneFor, Reading

-----------------------------------------------------------------------------
\* The debounce state and what was really seen: the pending zone is the last
\* zone seen, and has been for at least as long as it was steady.
DebounceInv ==
    /\ TypeOK
    /\ alert.zone = st.confirmed
    /\ alert.peak = hottest
    /\ ~Exists(alert) => hottest = NoPeak
    /\ seen # NoReading => /\ st.pending = seen
                           /\ st.confirmed <= seen
                           /\ st.since <= steady
    /\ st.since <= now
    /\ SteadyIsAlerted

\* One observation keeps the zone state between the reading and the past.
LEMMA StepFacts ==
    ASSUME NEW z \in ZoneState, NEW raw \in Zone, NEW t \in Nat,
           NEW atOnce \in BOOLEAN, NEW next, next = ZoneStep(z, raw, t, atOnce)
    PROVE  /\ next \in ZoneState
           /\ next.pending = raw
           /\ next.since = IF raw = z.pending THEN z.since ELSE t
           /\ next.confirmed <= raw
           /\ atOnce /\ raw = RED => next.confirmed = raw
           /\ t - next.since >= Debounce => next.confirmed = raw
<1>1. /\ z.confirmed \in 0 .. 3 /\ raw \in 0 .. 3 /\ z.since \in Nat
      /\ Debounce \in Nat /\ RED = 3
  BY ZoneIsRange, DebounceAssumption DEF ZoneState
<1>2. PendingSince(z, raw, t) \in Nat
  BY <1>1 DEF PendingSince
<1>3. /\ next \in ZoneState
      /\ next.pending = raw
      /\ next.since = PendingSince(z, raw, t)
      /\ next.confirmed = IF Confirms(z, raw, t, atOnce) THEN raw ELSE z.confirmed
  BY <1>2 DEF ZoneStep, ZoneState
<1>4. CASE Confirms(z, raw, t, atOnce)
  <2>1. next.confirmed = raw
    BY <1>3, <1>4
  <2> QED
    BY <1>1, <1>3, <2>1 DEF PendingSince
<1>5. CASE ~Confirms(z, raw, t, atOnce)
  <2>1. next.confirmed = z.confirmed /\ z.confirmed <= raw
    BY <1>1, <1>3, <1>5 DEF Confirms
  <2>2. ASSUME z.confirmed < raw
        PROVE  ~(atOnce /\ raw = RED) /\ ~(t - next.since >= Debounce)
    BY <1>1, <1>3, <1>5, <2>2 DEF Confirms
  <2> QED
    BY <1>1, <1>3, <2>1, <2>2 DEF PendingSince
<1> QED
  BY <1>4, <1>5

LEMMA DebounceInit == Init => DebounceInv
BY ZoneIsRange DEF Init, DebounceInv, TypeOK, SteadyIsAlerted, Overdue, ColdZone, ZoneState,
   NoAlert, NoPeak, Exists, Reading

\* The alert after a value, whether the confirmed zone changed or not.
LEMMA AlertStep ==
    ASSUME DebounceInv, NEW value \in Temperatures, NEW raw \in Zone, NEW t \in Nat,
           Observed(value, raw, t)
    PROVE  /\ alert' \in [zone : Zone, since : Nat, peak : Int]
           /\ alert'.zone = st'.confirmed
           /\ alert'.peak = IF Exists(alert') THEN Higher(hottest, value) ELSE NoPeak
<1> DEFINE next == ZoneStep(st, raw, t, RedAtOnce)
<1>1. /\ st \in ZoneState /\ alert \in [zone : Zone, since : Nat, peak : Int]
      /\ hottest \in Int /\ value \in Int /\ NoPeak <= value /\ NoPeak \in Int
      /\ alert.zone = st.confirmed /\ alert.peak = hottest
      /\ ~Exists(alert) => hottest = NoPeak
  BY DebounceConstants DEF DebounceInv, TypeOK, NoPeak
<1>2. next \in ZoneState
  BY <1>1, StepFacts, DebounceConstants
<1>3. next.confirmed \in Zone
  BY <1>2 DEF ZoneState
<1>4. /\ st' = next
      /\ alert' = IF next.confirmed # st.confirmed
                  THEN Transition(Tracked(alert, value), next.confirmed, value, t)
                  ELSE Tracked(alert, value)
  BY DEF Observed
<1> HIDE DEF next
<1>5. Higher(hottest, value) \in Int /\ Higher(Higher(hottest, value), value) = Higher(hottest, value)
      /\ (hottest = NoPeak => Higher(hottest, value) = value)
  BY <1>1 DEF Higher
<1>6. /\ Tracked(alert, value) \in [zone : Zone, since : Nat, peak : Int]
      /\ Tracked(alert, value).zone = alert.zone
      /\ Tracked(alert, value).peak = IF Exists(alert) THEN Higher(hottest, value) ELSE NoPeak
  BY <1>1, <1>5 DEF Tracked
<1>7. CASE next.confirmed = st.confirmed
  BY <1>1, <1>4, <1>6, <1>7 DEF Exists
<1>8. CASE next.confirmed # st.confirmed /\ next.confirmed = GREEN
  BY <1>1, <1>4, <1>8, ZoneIsRange DEF Transition, NoAlert, Exists
<1>9. CASE next.confirmed # st.confirmed /\ next.confirmed # GREEN
  <2> DEFINE a == Tracked(alert, value)
  <2>1. alert' = [zone |-> next.confirmed,
                  since |-> IF Exists(a) THEN a.since ELSE t,
                  peak |-> IF Exists(a) THEN Higher(a.peak, value) ELSE value]
    BY <1>4, <1>9 DEF Transition
  <2>2. Exists(a) <=> Exists(alert)
    BY <1>6 DEF Exists
  <2>3. (IF Exists(a) THEN Higher(a.peak, value) ELSE value) = Higher(hottest, value)
    BY <1>1, <1>5, <1>6, <2>2
  <2>4. a.since \in Nat
    BY <1>6
  <2> HIDE DEF a
  <2>5. Exists(alert')
    BY <1>9, <2>1 DEF Exists
  <2> QED
    BY <1>3, <1>4, <1>5, <2>1, <2>3, <2>4, <2>5
<1> QED
  BY <1>7, <1>8, <1>9

LEMMA DebounceObserve ==
    ASSUME DebounceInv, NEW value \in Temperatures, Observe(value)
    PROVE  DebounceInv'
<1> DEFINE raw == ZoneFor(value, Floors)
<1>1. now' \in Nat
  <2>1. PICK d \in Steps : now' = now + d
    BY DEF Observe
  <2> QED
    BY <2>1, DebounceConstants DEF DebounceInv, TypeOK
<1>2. now <= now' /\ now \in Nat
  <2>1. PICK d \in Steps : now' = now + d
    BY DEF Observe
  <2> QED
    BY <2>1, DebounceConstants DEF DebounceInv, TypeOK
<1>3. raw \in Reading
  BY ZoneForType
<1>4. CASE raw = NoReading
  <2>1. run' = now' /\ UNCHANGED <<st, alert, seen, seenAt, steady, hottest>>
    BY <1>4 DEF Observe
  <2> QED
    BY <1>1, <1>2, <2>1 DEF DebounceInv, TypeOK, SteadyIsAlerted, Overdue, Exists, ZoneState
<1>5. CASE raw # NoReading
  <2>1. raw \in Zone /\ raw \in 0 .. 3
    BY <1>3, <1>5, ZoneIsRange DEF Reading
  <2>2. /\ Observed(value, raw, now')
        /\ seen' = raw
        /\ seenAt' = now'
        /\ steady' = IF raw = seen THEN steady ELSE now'
        /\ run' = IF raw = seen /\ run <= seenAt THEN run ELSE now'
        /\ hottest' = IF ~Exists(alert') THEN NoPeak ELSE Higher(hottest, value)
    BY <1>5 DEF Observe
  <2> HIDE DEF raw
  <2>3. /\ alert' \in [zone : Zone, since : Nat, peak : Int]
        /\ alert'.zone = st'.confirmed
        /\ alert'.peak = hottest'
        /\ ~Exists(alert') => hottest' = NoPeak
    BY <1>1, <2>1, <2>2, AlertStep
  <2>4. /\ st' \in ZoneState
        /\ st'.pending = raw
        /\ st'.since = (IF raw = st.pending THEN st.since ELSE now')
        /\ st'.confirmed <= raw
        /\ RedAtOnce /\ raw = RED => st'.confirmed = raw
        /\ now' - st'.since >= Debounce => st'.confirmed = raw
    <3>1. st' = ZoneStep(st, raw, now', RedAtOnce) /\ st \in ZoneState
      BY <2>2 DEF Observed, DebounceInv, TypeOK
    <3> QED
      BY <1>1, <2>1, <3>1, StepFacts, DebounceConstants
  <2>5. /\ steady \in Nat /\ st.since \in Nat /\ run \in Nat /\ now \in Nat
        /\ st'.since \in Nat /\ Debounce \in Nat /\ seen \in Reading
    BY <2>4, DebounceAssumption DEF DebounceInv, TypeOK, ZoneState
  <2>6. steady' \in Nat /\ run' \in Nat /\ hottest' \in Int
    BY <1>1, <2>2, <2>3, <2>5
  <2>7. st.since <= now'
    BY <1>1, <1>2, <2>5 DEF DebounceInv
  <2>8. st'.since <= steady' /\ st'.since <= now'
    <3>1. CASE raw = seen
      <4>1. st.pending = raw /\ st.since <= steady
        BY <1>5, <3>1 DEF DebounceInv, raw
      <4> QED
        BY <2>2, <2>4, <2>7, <3>1, <4>1
    <3>2. CASE raw # seen
      BY <1>1, <2>2, <2>4, <2>7, <3>2
    <3> QED
      BY <3>1, <3>2
  <2>9. SteadyIsAlerted'
    <3>1. ASSUME (RedAtOnce /\ raw = RED) \/ now' - steady' >= Debounce
          PROVE  alert'.zone = raw
      <4>1. CASE RedAtOnce /\ raw = RED
        BY <2>3, <2>4, <4>1
      <4>2. CASE now' - steady' >= Debounce
        <5>1. \A a, b, c, d \in Nat : b <= c /\ a - c >= d => a - b >= d
          OBVIOUS
        <5>2. now' - st'.since >= Debounce
          BY <1>1, <2>5, <2>6, <2>8, <4>2, <5>1
        <5> QED
          BY <2>3, <2>4, <5>2
      <4> QED
        BY <3>1, <4>1, <4>2
    <3> QED
      BY <2>2, <3>1 DEF SteadyIsAlerted, Overdue
  <2>10. TypeOK'
    BY <1>1, <2>1, <2>2, <2>3, <2>4, <2>6 DEF TypeOK, Reading
  <2> QED
    BY <2>2, <2>3, <2>4, <2>8, <2>9, <2>10 DEF DebounceInv
<1> QED
  BY <1>4, <1>5

LEMMA DebounceNext == DebounceInv /\ [Next]_vars => DebounceInv'
<1> SUFFICES ASSUME DebounceInv, [Next]_vars PROVE DebounceInv'
  OBVIOUS
<1>1. CASE UNCHANGED vars
  BY <1>1 DEF vars, DebounceInv, TypeOK, SteadyIsAlerted, Overdue, Exists
<1>2. CASE Silence
  <2>1. PICK d \in Steps : now' = now + d
    BY <1>2 DEF Silence
  <2>2. now' \in Nat
    BY <2>1, DebounceConstants DEF DebounceInv, TypeOK
  <2>3. st.since \in Nat /\ now \in Nat /\ now <= now'
    BY <2>1, DebounceConstants DEF DebounceInv, TypeOK, ZoneState
  <2> QED
    BY <1>2, <2>2, <2>3 DEF Silence, DebounceInv, TypeOK, SteadyIsAlerted, Overdue, Exists
<1>3. ASSUME NEW value \in Temperatures, Observe(value) PROVE DebounceInv'
  BY <1>3, DebounceObserve
<1> QED
  BY <1>1, <1>2, <1>3 DEF Next

LEMMA DebounceInvariant == Spec => []DebounceInv
BY DebounceInit, DebounceNext, PTL DEF Spec

\* Whatever the zone table and the debounce time, and however the machine sleeps
\* or a sensor falls silent, an alert is never worse than the last value seen.
THEOREM AlertsNeverOverstate == Spec => []NeverOverstates
<1>1. DebounceInv => NeverOverstates
  BY DEF DebounceInv, NeverOverstates
<1> QED
  BY <1>1, DebounceInvariant, PTL

\* A sensor steady in a zone for the debounce time, or in RED at all, has the alert
\* of that zone, for every zone table and debounce time.
THEOREM SteadySensorsAlert == Spec => []SteadyIsAlerted
<1>1. DebounceInv => SteadyIsAlerted
  BY DEF DebounceInv
<1> QED
  BY <1>1, DebounceInvariant, PTL

\* The alert agrees with the confirmed zone, and its peak is the highest value
\* seen during it.
THEOREM AlertsAreConsistent == Spec => []AlertIsConsistent
<1>1. DebounceInv => AlertIsConsistent
  BY DEF DebounceInv, AlertIsConsistent
<1> QED
  BY <1>1, DebounceInvariant, PTL

-----------------------------------------------------------------------------
\* Above GREEN, the wait started exactly when the zone was first seen.
SinceIsSteady ==
    /\ seen = NoReading => st.pending = GREEN
    /\ seen \notin {NoReading, GREEN} => st.since = steady

LEMMA SinceInit == Init => SinceIsSteady
BY ZoneIsRange DEF Init, SinceIsSteady, ColdZone

LEMMA SinceNext ==
    ASSUME DebounceInv, SinceIsSteady, [Next]_vars
    PROVE  /\ SinceIsSteady'
           /\ \/ ~(alert'.zone > alert.zone)
              \/ RedAtOnce /\ alert'.zone = RED
              \/ now' - steady' >= Debounce
<1>1. alert.zone \in Int
  BY ZoneIsRange DEF DebounceInv, TypeOK
<1>2. CASE UNCHANGED vars \/ Silence
  <2>1. UNCHANGED <<st, alert, seen, steady>>
    BY <1>2 DEF vars, Silence
  <2> QED
    BY <1>1, <2>1 DEF SinceIsSteady
<1>3. ASSUME NEW value \in Temperatures, Observe(value)
      PROVE  /\ SinceIsSteady'
             /\ \/ ~(alert'.zone > alert.zone)
                \/ RedAtOnce /\ alert'.zone = RED
                \/ now' - steady' >= Debounce
  <2> DEFINE raw == ZoneFor(value, Floors)
  <2>1. CASE raw = NoReading
    <3>1. UNCHANGED <<st, alert, seen, steady>>
      BY <1>3, <2>1 DEF Observe
    <3> QED
      BY <1>1, <3>1 DEF SinceIsSteady
  <2>2. CASE raw # NoReading
    <3>1. raw \in Zone /\ raw \in 0 .. 3
      BY <2>2, ZoneForType, ZoneIsRange DEF Reading
    <3>2. /\ Observed(value, raw, now')
          /\ seen' = raw
          /\ steady' = IF raw = seen THEN steady ELSE now'
      BY <1>3, <2>2 DEF Observe
    <3> HIDE DEF raw
    <3>3. now' \in Nat
      <4>1. PICK d \in Steps : now' = now + d
        BY <1>3 DEF Observe
      <4> QED
        BY <4>1, DebounceConstants DEF DebounceInv, TypeOK
    <3>4. alert'.zone = st'.confirmed /\ alert.zone = st.confirmed
      BY <3>1, <3>2, <3>3, AlertStep DEF DebounceInv
    <3>5. /\ st'.confirmed = (IF Confirms(st, raw, now', RedAtOnce) THEN raw ELSE st.confirmed)
          /\ st'.since = PendingSince(st, raw, now')
          /\ st'.pending = raw
      BY <3>2 DEF Observed, ZoneStep
    <3>6. st.confirmed \in 0 .. 3 /\ st.since \in Nat
      BY ZoneIsRange DEF DebounceInv, TypeOK, ZoneState
    <3>7. SinceIsSteady'
      <4>1. CASE raw = seen
        BY <2>2, <3>2, <3>5, <4>1 DEF SinceIsSteady, DebounceInv, PendingSince
      <4>2. CASE raw # seen
        <5>1. raw # GREEN => st.pending # raw
          BY <4>2 DEF SinceIsSteady, DebounceInv
        <5> QED
          BY <2>2, <3>2, <3>5, <4>2, <5>1 DEF SinceIsSteady, PendingSince
      <4> QED
        BY <4>1, <4>2
    <3>8. ASSUME alert'.zone > alert.zone, ~(RedAtOnce /\ alert'.zone = RED)
          PROVE  now' - steady' >= Debounce
      <4>1. st'.confirmed = raw /\ raw > st.confirmed /\ Confirms(st, raw, now', RedAtOnce)
        BY <3>1, <3>4, <3>5, <3>6, <3>8
      <4>2. now' - st'.since >= Debounce
        BY <3>1, <3>4, <3>5, <3>6, <3>8, <4>1 DEF Confirms
      <4>3. st'.since = steady'
        BY <2>2, <3>1, <3>2, <3>6, <3>7, <4>1, ZoneIsRange DEF SinceIsSteady
      <4> QED
        BY <4>2, <4>3
    <3> QED
      BY <3>7, <3>8
  <2> QED
    BY <2>1, <2>2
<1> QED
  BY <1>2, <1>3 DEF Next

\* A debounced alert is never early, for every zone table, debounce time and way
\* the ticks come: all values seen during the wait were in its zone.
THEOREM RisesAreNotEarly == Spec => RiseIsNotEarly
<1>1. Init => SinceIsSteady
  BY SinceInit
<1>2. DebounceInv /\ SinceIsSteady /\ [Next]_vars => SinceIsSteady'
  BY SinceNext
<1>3. DebounceInv /\ SinceIsSteady /\ [Next]_vars =>
        [alert'.zone > alert.zone /\ ~(RedAtOnce /\ alert'.zone = RED)
             => now' - steady' >= Debounce]_vars
  BY SinceNext
<1> QED
  BY <1>1, <1>2, <1>3, DebounceInvariant, PTL DEF Spec, RiseIsNotEarly

-----------------------------------------------------------------------------
\* THE HAND-OVER OF SNAPSHOTS

\* The queue is in order, newer than anything poll() has taken, and not newer than
\* the worker.
OrderInv ==
    /\ \A i, j \in DOMAIN q : i < j => q[i] < q[j]
    /\ \A i \in DOMAIN q : q[i] <= Newest /\ latest < q[i] /\ shown < q[i]
    /\ latest <= Newest /\ shown <= Newest
    /\ latest # Nothing => shown <= latest
    /\ ppc = "update" => latest # Nothing
    /\ ppc \in {"armed", "rearm", "cancelled"} => latest \in {Nothing, shown}

WorkerInv ==
    /\ wpc \in {"put", "evict", "again", "wait"} => tick <= MaxTick
    /\ wpc = "again" => Len(q) < Capacity

QueueInv == HandOverTypeOK /\ WorkerInv /\ OrderInv /\ NewestSurvives

LEMMA QueueInit == HandOverInit => QueueInv
<1> SUFFICES ASSUME HandOverInit PROVE QueueInv
  OBVIOUS
<1>1. q = <<>> /\ <<>> \in Seq(0 .. MaxTick) /\ Len(<<>>) = 0
  BY EmptySeq DEF HandOverInit
<1>2. Capacity \in Nat \ {0} /\ MaxTick \in Nat /\ Nothing = -1 /\ Newest = -1
      /\ DOMAIN q = {}
  <2>1. DOMAIN q = 1 .. Len(q)
    BY <1>1, LenProperties
  <2> QED
    BY <1>1, <2>1, QueueAssumption DEF HandOverInit, Newest, Nothing
<1>3. HandOverTypeOK
  <2>1. stop \in BOOLEAN
    BY Zenon DEF HandOverInit
  <2>2. q \in Seq(0 .. MaxTick) /\ Len(q) <= Capacity /\ tick \in Nat
    BY <1>1, <1>2 DEF HandOverInit
  <2> QED
    BY <2>1, <2>2 DEF HandOverInit, HandOverTypeOK
<1>4. OrderInv
  BY <1>2 DEF HandOverInit, OrderInv
<1>5. WorkerInv /\ NewestSurvives
  BY <1>2 DEF HandOverInit, WorkerInv, NewestSurvives
<1> QED
  BY <1>3, <1>4, <1>5 DEF QueueInv

\* The facts every step needs.
LEMMA QueueFacts ==
    ASSUME HandOverTypeOK
    PROVE  /\ q \in Seq(0 .. MaxTick) /\ Len(q) \in Nat /\ DOMAIN q = 1 .. Len(q)
           /\ \A i \in DOMAIN q : q[i] \in Nat /\ q[i] \in 0 .. MaxTick
           /\ tick \in Nat /\ latest \in Int /\ shown \in Int
           /\ Newest \in Int /\ Nothing = -1
           /\ Capacity \in Nat \ {0} /\ MaxTick \in Nat
           /\ q # <<>> => Len(q) >= 1
           /\ q = <<>> => Len(q) = 0
<1>1. q \in Seq(0 .. MaxTick) /\ MaxTick \in Nat /\ Capacity \in Nat \ {0}
  BY QueueAssumption DEF HandOverTypeOK
<1>2. Len(q) \in Nat /\ DOMAIN q = 1 .. Len(q)
  BY <1>1, LenProperties
<1>3. \A i \in DOMAIN q : q[i] \in 0 .. MaxTick
  BY <1>1, <1>2, ElementOfSeq
<1>4. (q # <<>> => Len(q) >= 1) /\ (q = <<>> => Len(q) = 0)
  BY <1>1, <1>2, EmptySeq
<1>5. tick \in Nat /\ latest \in Int /\ shown \in Int /\ Newest \in Int
  BY DEF HandOverTypeOK, Newest, Nothing
<1> QED
  BY <1>1, <1>2, <1>3, <1>4, <1>5 DEF Nothing

\* The worker appends the snapshot it is at.
LEMMA QueueAppend ==
    ASSUME QueueInv, wpc \in {"put", "again"}, Len(q) < Capacity,
           q' = Append(q, tick), wpc' = "wait", tick' = tick,
           UNCHANGED <<ppc, latest, shown, stop>>
    PROVE  QueueInv'
<1>1. /\ q \in Seq(0 .. MaxTick) /\ Len(q) \in Nat /\ DOMAIN q = 1 .. Len(q)
      /\ tick \in 0 .. MaxTick /\ Newest = tick - 1 /\ Newest' = tick
      /\ Capacity \in Nat /\ latest \in Int /\ shown \in Int
  BY QueueFacts DEF QueueInv, WorkerInv, Newest
<1>2. /\ q' \in Seq(0 .. MaxTick) /\ q' # <<>> /\ Len(q') = Len(q) + 1
      /\ \A i \in 1 .. Len(q) : q'[i] = q[i]
      /\ q'[Len(q) + 1] = tick
  BY <1>1, AppendProperties
<1>3. DOMAIN q' = 1 .. Len(q) + 1
  BY <1>2, LenProperties
<1>4. \A i \in 1 .. Len(q) : q[i] \in Nat /\ q[i] < tick
  BY <1>1, QueueFacts DEF QueueInv, OrderInv
<1>5. latest < tick /\ shown < tick
  BY <1>1 DEF QueueInv, OrderInv
<1>6. HandOverTypeOK' /\ WorkerInv'
  BY <1>1, <1>2 DEF QueueInv, HandOverTypeOK, WorkerInv
<1>7. OrderInv'
  <2>1. \A i, j \in DOMAIN q' : i < j => q'[i] < q'[j]
    BY <1>1, <1>2, <1>3, <1>4 DEF QueueInv, OrderInv
  <2>2. \A i \in DOMAIN q' : q'[i] <= tick /\ latest < q'[i] /\ shown < q'[i]
    BY <1>1, <1>2, <1>3, <1>4, <1>5 DEF QueueInv, OrderInv
  <2> QED
    BY <1>1, <1>5, <2>1, <2>2 DEF QueueInv, OrderInv
<1>8. NewestSurvives'
  BY <1>1, <1>2 DEF NewestSurvives
<1> QED
  BY <1>6, <1>7, <1>8 DEF QueueInv

LEMMA QueueWorker == ASSUME QueueInv, Worker PROVE QueueInv'
<1>1. CASE Sample
  <2>1. /\ q' = q /\ tick' = tick /\ wpc = "sample" /\ wpc' \in {"done", "put"}
        /\ wpc' = "put" => tick <= MaxTick
        /\ UNCHANGED <<ppc, latest, shown, stop>>
    BY <1>1 DEF Sample, worker
  <2>2. Newest' = Newest
    BY <2>1 DEF Newest
  <2> QED
    BY <2>1, <2>2 DEF QueueInv, HandOverTypeOK, WorkerInv, OrderInv, NewestSurvives
<1>2. CASE Put
  <2>1. CASE Len(q) < Capacity
    BY <1>2, <2>1, QueueAppend DEF Put, worker
  <2>2. CASE ~(Len(q) < Capacity)
    <3>1. /\ q' = q /\ tick' = tick /\ wpc = "put" /\ wpc' = "evict"
          /\ UNCHANGED <<ppc, latest, shown, stop>>
      BY <1>2, <2>2 DEF Put, worker
    <3>2. Newest' = Newest
      BY <3>1 DEF Newest
    <3> QED
      BY <3>1, <3>2 DEF QueueInv, HandOverTypeOK, WorkerInv, OrderInv, NewestSurvives
  <2> QED
    BY <2>1, <2>2
<1>3. CASE Evict
  <2>1. /\ tick' = tick /\ wpc = "evict" /\ wpc' = "again"
        /\ UNCHANGED <<ppc, latest, shown, stop>>
        /\ q' = IF q = <<>> THEN q ELSE Tail(q)
    BY <1>3 DEF Evict, worker
  <2>2. Newest' = Newest
    BY <2>1 DEF Newest
  <2>3. /\ q' \in Seq(0 .. MaxTick)
        /\ Len(q') \in Nat /\ Len(q') < Capacity /\ DOMAIN q' = 1 .. Len(q')
        /\ \E n \in {0, 1} : \A i \in DOMAIN q' : i + n \in DOMAIN q /\ q'[i] = q[i + n]
    <3>1. CASE q = <<>>
      BY <2>1, <3>1, QueueFacts DEF QueueInv
    <3>2. CASE q # <<>>
      <4>1. /\ q' \in Seq(0 .. MaxTick) /\ Len(q') = Len(q) - 1
            /\ \A i \in 1 .. Len(q') : q'[i] = q[i + 1]
        BY <2>1, <3>2, QueueFacts, HeadTailProperties DEF QueueInv
      <4>2. DOMAIN q' = 1 .. Len(q') /\ Len(q') \in Nat
        BY <4>1, LenProperties
      <4>3. Len(q) \in Nat /\ DOMAIN q = 1 .. Len(q) /\ Len(q) <= Capacity
            /\ Capacity \in Nat
        BY QueueFacts DEF QueueInv, HandOverTypeOK
      <4>4. \A i \in DOMAIN q' : i + 1 \in DOMAIN q /\ q'[i] = q[i + 1]
        BY <4>1, <4>2, <4>3
      <4> QED
        BY <4>1, <4>2, <4>3, <4>4
    <3> QED
      BY <3>1, <3>2
  <2>4. PICK n \in {0, 1} : \A i \in DOMAIN q' : i + n \in DOMAIN q /\ q'[i] = q[i + n]
    BY <2>3
  <2>5. OrderInv'
    <3>1. \A i, j \in DOMAIN q' : i < j => q'[i] < q'[j]
      BY <2>3, <2>4 DEF QueueInv, OrderInv
    <3> QED
      BY <2>1, <2>2, <2>4, <3>1 DEF QueueInv, OrderInv
  <2>6. HandOverTypeOK' /\ WorkerInv'
    BY <2>1, <2>3, QueueFacts DEF QueueInv, HandOverTypeOK, WorkerInv
  <2> QED
    BY <2>1, <2>3, <2>5, <2>6 DEF QueueInv, NewestSurvives
<1>4. CASE PutAgain
  BY <1>4, QueueAppend DEF PutAgain, worker, QueueInv, WorkerInv
<1>5. CASE Wait
  <2>1. /\ q' = q /\ tick' = tick + 1 /\ wpc = "wait" /\ wpc' = "sample"
        /\ UNCHANGED <<ppc, latest, shown, stop>>
    BY <1>5 DEF Wait, worker
  <2>2. Newest' = Newest /\ tick \in Nat
    BY <2>1, QueueFacts DEF Newest, QueueInv
  <2> QED
    BY <2>1, <2>2 DEF QueueInv, HandOverTypeOK, WorkerInv, OrderInv, NewestSurvives
<1> QED
  BY <1>1, <1>2, <1>3, <1>4, <1>5 DEF Worker

\* poll() takes the oldest snapshot.
LEMMA QueueDrain == ASSUME QueueInv, DrainOne PROVE QueueInv'
<1>1. /\ ppc = "drain" /\ q # <<>> /\ latest' = Head(q) /\ q' = Tail(q)
      /\ UNCHANGED <<tick, wpc, ppc, shown, stop>>
  BY DEF DrainOne, tk
<1>2. /\ q \in Seq(0 .. MaxTick) /\ Len(q) \in Nat /\ DOMAIN q = 1 .. Len(q)
      /\ Len(q) >= 1 /\ Newest \in Int /\ Newest' = Newest
      /\ \A i \in DOMAIN q : q[i] \in 0 .. MaxTick
      /\ latest \in Int /\ shown \in Int /\ Nothing = -1 /\ MaxTick \in Nat
      /\ Capacity \in Nat
  BY <1>1, QueueFacts DEF QueueInv, Newest
<1>3. /\ q' \in Seq(0 .. MaxTick) /\ Len(q') = Len(q) - 1
      /\ \A i \in 1 .. Len(q') : q'[i] = q[i + 1]
  BY <1>1, <1>2, HeadTailProperties
<1>4. DOMAIN q' = 1 .. Len(q') /\ latest' = q[1]
  BY <1>1, <1>2, <1>3, LenProperties
<1>5. 1 \in DOMAIN q /\ \A i \in DOMAIN q' : i + 1 \in DOMAIN q /\ q'[i] = q[i + 1]
  BY <1>2, <1>3, <1>4
<1>6. HandOverTypeOK' /\ WorkerInv'
  BY <1>1, <1>2, <1>3, <1>4, <1>5 DEF QueueInv, HandOverTypeOK, WorkerInv
<1>7. OrderInv'
  <2>1. ASSUME NEW i \in DOMAIN q', NEW j \in DOMAIN q', i < j
        PROVE  q'[i] < q'[j]
    <3>1. i + 1 < j + 1
      BY <1>3, <1>4, <2>1
    <3>2. q[i + 1] < q[j + 1]
      BY <1>5, <3>1 DEF QueueInv, OrderInv
    <3> QED
      BY <1>5, <3>2
  <2>2. \A i \in DOMAIN q' : q'[i] <= Newest /\ latest' < q'[i] /\ shown < q'[i]
    <3>1. \A i \in DOMAIN q' : i \in Nat /\ 1 < i + 1
      BY <1>2, <1>3, <1>4
    <3> QED
      BY <1>4, <1>5, <3>1 DEF QueueInv, OrderInv
  <2>3. latest' <= Newest /\ shown <= Newest /\ shown < latest' /\ latest' \in Nat
    BY <1>2, <1>4, <1>5 DEF QueueInv, OrderInv
  <2> QED
    BY <1>1, <1>2, <2>1, <2>2, <2>3 DEF OrderInv
<1>8. NewestSurvives'
  <2> SUFFICES ASSUME Newest >= 0
               PROVE  \/ q' # <<>> /\ q'[Len(q')] = Newest
                      \/ latest' = Newest
                      \/ shown >= Newest
                      \/ wpc = "again" /\ Len(q') < Capacity
    BY <1>1, <1>2 DEF NewestSurvives
  <2>1. CASE q[Len(q)] = Newest
    <3>1. CASE Len(q) = 1
      BY <1>4, <2>1, <3>1
    <3>2. CASE Len(q) > 1
      <4>1. Len(q') \in 1 .. Len(q') /\ Len(q') + 1 = Len(q)
        BY <1>2, <1>3, <3>2
      <4>2. q'[Len(q')] = Newest
        BY <1>3, <2>1, <4>1
      <4>3. q' # <<>>
        BY <1>3, <4>1, EmptySeq
      <4> QED
        BY <4>2, <4>3
    <3> QED
      BY <1>2, <3>1, <3>2
  <2>2. CASE latest = Newest
    BY <1>2, <1>5, <2>2 DEF QueueInv, OrderInv
  <2>3. CASE shown >= Newest
    BY <2>3
  <2>4. CASE wpc = "again" /\ Len(q) < Capacity
    BY <1>2, <1>3, <2>4
  <2> QED
    BY <2>1, <2>2, <2>3, <2>4 DEF QueueInv, NewestSurvives
<1> QED
  BY <1>6, <1>7, <1>8 DEF QueueInv

LEMMA QueueTk ==
    ASSUME QueueInv,
           PollFires \/ DrainEnds \/ Update \/ Rearm \/ Destroy
    PROVE  QueueInv' /\ shown <= shown'
<1>1. /\ UNCHANGED <<q, tick, wpc>> /\ Newest' = Newest
      /\ latest \in Int /\ shown \in Int /\ Newest \in Int /\ Nothing = -1
      /\ \A i \in DOMAIN q : q[i] \in Nat
  BY QueueFacts DEF QueueInv, PollFires, DrainEnds, Update, Rearm, Destroy, tk, Newest
<1>2. CASE PollFires
  BY <1>1, <1>2 DEF PollFires, tk, QueueInv, HandOverTypeOK, WorkerInv, OrderInv, NewestSurvives
<1>3. CASE DrainEnds
  BY <1>1, <1>3 DEF DrainEnds, tk, QueueInv, HandOverTypeOK, WorkerInv, OrderInv, NewestSurvives
<1>4. CASE Update
  <2>1. ppc' = "rearm" /\ shown' = latest /\ latest' = latest
        /\ latest # Nothing /\ shown <= latest /\ stop' = stop
    BY <1>4 DEF Update, tk, QueueInv, OrderInv
  <2> QED
    BY <1>1, <2>1 DEF QueueInv, HandOverTypeOK, WorkerInv, OrderInv, NewestSurvives
<1>5. CASE Rearm \/ Destroy
  <2>1. /\ ppc \in {"armed", "rearm"} /\ ppc' \in {"armed", "cancelled"}
        /\ UNCHANGED <<latest, shown>>
    BY <1>5 DEF Rearm, Destroy, tk
  <2>2. stop' \in BOOLEAN
    BY <1>5, Zenon DEF Rearm, Destroy, QueueInv, HandOverTypeOK
  <2>3. HandOverTypeOK'
    BY <1>1, <2>1, <2>2 DEF QueueInv, HandOverTypeOK
  <2> QED
    BY <1>1, <2>1, <2>3 DEF QueueInv, WorkerInv, OrderInv, NewestSurvives
<1> QED
  BY <1>2, <1>3, <1>4, <1>5

LEMMA QueueNext == QueueInv /\ [HandOverNext]_handOverVars => QueueInv' /\ [shown' >= shown]_shown
<1> SUFFICES ASSUME QueueInv, [HandOverNext]_handOverVars PROVE QueueInv' /\ [shown' >= shown]_shown
  OBVIOUS
<1>1. CASE UNCHANGED handOverVars
  BY <1>1 DEF handOverVars, QueueInv, HandOverTypeOK, WorkerInv, OrderInv, NewestSurvives, Newest
<1>2. CASE Worker
  <2>1. shown' = shown
    BY <1>2 DEF Worker, Sample, Put, Evict, PutAgain, Wait, worker
  <2> QED
    BY <1>2, <2>1, QueueWorker
<1>3. CASE DrainOne
  BY <1>3, QueueDrain DEF DrainOne
<1>4. CASE PollFires \/ DrainEnds \/ Update \/ Rearm \/ Destroy
  <2>1. shown \in Int /\ shown' \in Int
    BY <1>4, QueueTk, QueueFacts DEF QueueInv, HandOverTypeOK, Nothing
  <2> QED
    BY <1>4, <2>1, QueueTk
<1> QED
  BY <1>1, <1>2, <1>3, <1>4 DEF HandOverNext, Poll

LEMMA QueueInvariant == HandOverSpec => []QueueInv
BY QueueInit, QueueNext, PTL DEF HandOverSpec

\* However the worker and the Tk thread interleave, and whatever maxsize is, the
\* newest snapshot is never the one that is given up.
THEOREM TheNewestSurvives == HandOverSpec => []NewestSurvives
<1>1. QueueInv => NewestSurvives
  BY DEF QueueInv
<1> QED
  BY <1>1, QueueInvariant, PTL

\* The window never shows an older snapshot after a newer one.
THEOREM NeverGoesBackwards == HandOverSpec => NeverBackwards
<1>1. QueueInv /\ [HandOverNext]_handOverVars => [shown' >= shown]_shown
  BY QueueNext
<1> QED
  BY <1>1, QueueInvariant, PTL DEF HandOverSpec, NeverBackwards

-----------------------------------------------------------------------------
\* THE STORE OF COMPLETED RECORDS

StoredRecord ==
    [kind : RecordKinds, from : Nat, to : Nat, rank : {None} \cup Nat, blind : BOOLEAN]

\* The records of a kind and day among the first n of the store.
SameDay(store, n, r) == {i \in 1 .. n : Day(store[i]) = Day(r)}

\* A record that was numbered with all before it in sight has the number of its place
\* among those of its day, as long as none of these has been dropped.
Numbered(store, dropped) ==
    \A j \in DOMAIN store :
        /\ store[j].rank # None /\ ~store[j].blind /\ Day(store[j]) \notin dropped
        => store[j].rank = Cardinality(SameDay(store, j - 1, store[j])) + 1

\* The oldest first, and none of a day to come.
InOrder(store, day) ==
    \A i \in DOMAIN store :
        /\ store[i].from <= store[i].to /\ store[i].to <= day
        /\ \A j \in DOMAIN store : i <= j => store[i].to <= store[j].to

ChronicleInv ==
    /\ today \in Nat
    /\ \A r \in begun : r.kind \in RecordKinds /\ r.from \in 0 .. today
    /\ chronicle \in Seq(StoredRecord)
    /\ InOrder(chronicle, today)
    /\ Numbered(chronicle, forgotten)

LEMMA SameDayIsFinite ==
    ASSUME NEW store, NEW n \in Int, NEW r
    PROVE  /\ IsFiniteSet(SameDay(store, n, r))
           /\ Cardinality(SameDay(store, n, r)) \in Nat
<1>1. IsFiniteSet(1 .. n)
  BY FS_Interval
<1>2. SameDay(store, n, r) \in SUBSET (1 .. n)
  BY DEF SameDay
<1>3. IsFiniteSet(SameDay(store, n, r))
  BY <1>1, <1>2, FS_Subset
<1> QED
  BY <1>3, FS_CardinalityType

LEMMA ChronicleInitially == ChronicleInit => ChronicleInv
<1> SUFFICES ASSUME ChronicleInit PROVE ChronicleInv
  OBVIOUS
<1>1. CASE chronicle = <<>>
  <2>1. chronicle \in Seq(StoredRecord) /\ DOMAIN chronicle = {}
    BY <1>1
  <2> QED
    BY <2>1 DEF ChronicleInit, ChronicleInv, InOrder, Numbered
<1>2. ASSUME NEW k \in RecordKinds, chronicle = <<OldRecord(k)>> PROVE ChronicleInv
  <2>1. OldRecord(k) \in StoredRecord
    BY DEF OldRecord, StoredRecord
  <2>2. chronicle \in Seq(StoredRecord) /\ DOMAIN chronicle = {1} /\ chronicle[1] = OldRecord(k)
    BY <1>2, <2>1
  <2> QED
    BY <2>2 DEF ChronicleInit, ChronicleInv, InOrder, Numbered, OldRecord
<1> QED
  BY <1>1, <1>2 DEF ChronicleInit

\* Appending a record that is numbered, or was numbered blindly.
LEMMA RecordAppended ==
    ASSUME ChronicleInv, NEW record \in StoredRecord, record.from <= record.to, record.to = today,
           record.blind \/ record.rank = Cardinality(SameDay(chronicle, Len(chronicle), record)) + 1,
           NEW next, next = Append(chronicle, record)
    PROVE  /\ next \in Seq(StoredRecord)
           /\ InOrder(next, today)
           /\ Numbered(next, forgotten)
<1> DEFINE n == Len(chronicle)
<1>1. chronicle \in Seq(StoredRecord) /\ n \in Nat /\ DOMAIN chronicle = 1 .. n
  BY LenProperties DEF ChronicleInv
<1>2. /\ next \in Seq(StoredRecord) /\ DOMAIN next = 1 .. n + 1 /\ next[n + 1] = record
      /\ \A i \in 1 .. n : next[i] = chronicle[i]
  BY <1>1
<1>3. \A i \in 1 .. n : chronicle[i] \in StoredRecord
  BY <1>1, ElementOfSeq
<1>4. InOrder(next, today)
  <2>1. \A i \in 1 .. n + 1 : next[i].from <= next[i].to /\ next[i].to <= today /\ next[i].to \in Nat
    BY <1>1, <1>2, <1>3 DEF ChronicleInv, InOrder, StoredRecord
  <2>2. ASSUME NEW i \in 1 .. n + 1, NEW j \in 1 .. n + 1, i <= j PROVE next[i].to <= next[j].to
    <3>1. CASE j = n + 1
      BY <1>2, <2>1, <3>1
    <3>2. CASE j # n + 1
      <4>1. i \in 1 .. n /\ j \in 1 .. n
        BY <1>1, <2>2, <3>2
      <4> QED
        BY <1>1, <1>2, <2>2, <4>1 DEF ChronicleInv, InOrder
    <3> QED
      BY <3>1, <3>2
  <2> QED
    BY <1>2, <2>1, <2>2 DEF InOrder
<1>5. ASSUME NEW j \in 1 .. n + 1, NEW r PROVE SameDay(next, j - 1, r) = SameDay(chronicle, j - 1, r)
  <2>1. \A i \in 1 .. j - 1 : next[i] = chronicle[i]
    BY <1>1, <1>2
  <2> QED
    BY <2>1 DEF SameDay
<1>6. Numbered(next, forgotten)
  <2> SUFFICES ASSUME NEW j \in 1 .. n + 1,
                      next[j].rank # None, ~next[j].blind, Day(next[j]) \notin forgotten
               PROVE  next[j].rank = Cardinality(SameDay(next, j - 1, next[j])) + 1
    BY <1>2 DEF Numbered
  <2>1. CASE j = n + 1
    <3>1. next[j] = record /\ j - 1 = n
      BY <1>1, <1>2, <2>1
    <3>2. SameDay(next, j - 1, record) = SameDay(chronicle, n, record)
      BY <1>5, <3>1
    <3> QED
      BY <3>1, <3>2
  <2>2. CASE j # n + 1
    <3>1. j \in 1 .. n /\ next[j] = chronicle[j]
      BY <1>1, <1>2, <2>2
    <3>2. chronicle[j].rank = Cardinality(SameDay(chronicle, j - 1, chronicle[j])) + 1
      BY <1>1, <3>1 DEF ChronicleInv, Numbered
    <3> QED
      BY <1>5, <3>1, <3>2
  <2> QED
    BY <2>1, <2>2
<1> QED
  BY <1>2, <1>4, <1>6

\* Dropping the first n keeps the numbers of the days that lose none.
LEMMA RecordsDropped ==
    ASSUME ChronicleInv, NEW n \in 0 .. Len(chronicle),
           NEW next, next = SubSeq(chronicle, n + 1, Len(chronicle)),
           NEW dropped, dropped = forgotten \cup {Day(chronicle[i]) : i \in 1 .. n}
    PROVE  /\ next \in Seq(StoredRecord)
           /\ InOrder(next, today)
           /\ Numbered(next, dropped)
<1> DEFINE m == Len(chronicle) - n
<1>1. /\ chronicle \in Seq(StoredRecord) /\ Len(chronicle) \in Nat /\ n \in Nat /\ m \in Nat
      /\ DOMAIN chronicle = 1 .. Len(chronicle)
  BY LenProperties DEF ChronicleInv
<1>2. \A i \in 1 .. Len(chronicle) : chronicle[i] \in StoredRecord
  BY <1>1, ElementOfSeq
<1>3. /\ next \in Seq(StoredRecord) /\ Len(next) = m
      /\ \A i \in 1 .. m : next[i] = chronicle[n + i]
  <2>1. n + 1 \in Int /\ Len(chronicle) \in Int /\ \A i \in n + 1 .. Len(chronicle) : chronicle[i] \in StoredRecord
    BY <1>1, <1>2
  <2>2. /\ next \in Seq(StoredRecord)
        /\ Len(next) = IF n + 1 <= Len(chronicle) THEN Len(chronicle) - (n + 1) + 1 ELSE 0
        /\ \A i \in 1 .. Len(chronicle) - (n + 1) + 1 : next[i] = chronicle[(n + 1) + i - 1]
    BY <2>1, SubSeqProperties
  <2>3. Len(next) = m /\ Len(chronicle) - (n + 1) + 1 = m
    <3>1. n \in Nat /\ n <= Len(chronicle) /\ Len(chronicle) \in Nat
      BY <1>1
    <3>2. CASE n + 1 <= Len(chronicle)
      BY <2>2, <3>1, <3>2
    <3>3. CASE n = Len(chronicle)
      BY <2>2, <3>1, <3>3
    <3> QED
      BY <3>1, <3>2, <3>3
  <2>4. \A i \in 1 .. m : (n + 1) + i - 1 = n + i
    BY <1>1
  <2> HIDE DEF m
  <2> QED
    BY <2>2, <2>3, <2>4
<1>4. DOMAIN next = 1 .. m
  BY <1>3, LenProperties
<1>5. InOrder(next, today)
  <2>1. \A i \in 1 .. m : n + i \in 1 .. Len(chronicle)
    BY <1>1
  <2>2. ASSUME NEW i \in 1 .. m
        PROVE  /\ next[i].from <= next[i].to /\ next[i].to <= today
               /\ \A j \in 1 .. m : i <= j => next[i].to <= next[j].to
    <3>1. /\ chronicle[n + i].from <= chronicle[n + i].to /\ chronicle[n + i].to <= today
          /\ \A k \in 1 .. Len(chronicle) : n + i <= k => chronicle[n + i].to <= chronicle[k].to
      BY <1>1, <2>1 DEF ChronicleInv, InOrder
    <3>2. \A j \in 1 .. m : i <= j => n + i <= n + j
      BY <1>1
    <3> QED
      BY <1>3, <2>1, <3>1, <3>2
  <2> QED
    BY <1>4, <2>2 DEF InOrder
<1>6. Numbered(next, dropped)
  <2> SUFFICES ASSUME NEW j \in 1 .. m,
                      next[j].rank # None, ~next[j].blind, Day(next[j]) \notin dropped
               PROVE  next[j].rank = Cardinality(SameDay(next, j - 1, next[j])) + 1
    BY <1>4 DEF Numbered
  <2> DEFINE r == chronicle[n + j]
             S == SameDay(chronicle, n + j - 1, r)
             T == SameDay(next, j - 1, r)
             f == [i \in T |-> n + i]
  <2>1. next[j] = r /\ n + j \in 1 .. Len(chronicle)
    BY <1>1, <1>3
  <2>2. r.rank = Cardinality(S) + 1
    BY <1>1, <2>1 DEF ChronicleInv, Numbered
  <2>3. ASSUME NEW i \in T PROVE n + i \in S
    <3>1. i \in 1 .. j - 1 /\ Day(next[i]) = Day(r)
      BY DEF SameDay
    <3>2. i \in 1 .. m /\ n + i \in 1 .. n + j - 1
      BY <1>1, <3>1
    <3>3. Day(chronicle[n + i]) = Day(r)
      BY <1>3, <3>1, <3>2
    <3> QED
      BY <3>2, <3>3 DEF SameDay
  <2>4. ASSUME NEW x \in S PROVE \E i \in T : n + i = x
    <3>1. x \in 1 .. n + j - 1 /\ Day(chronicle[x]) = Day(r)
      BY DEF SameDay
    <3>2. x \notin 1 .. n
      BY <2>1, <3>1
    <3>3. x - n \in 1 .. j - 1 /\ x - n \in 1 .. m /\ n + (x - n) = x
      <4>1. /\ x \in Int /\ n < x /\ x <= n + j - 1 /\ j <= m
            /\ j \in Int /\ n \in Int /\ m \in Int
        BY <1>1, <3>1, <3>2
      <4> HIDE DEF m, S
      <4> QED
        BY <4>1
    <3>4. next[x - n] = chronicle[x]
      BY <1>3, <3>3
    <3> QED
      BY <3>1, <3>3, <3>4 DEF SameDay
  <2>5. \A i, k \in T : n + i = n + k => i = k
    BY <1>1 DEF SameDay
  <2>6. f \in Bijection(T, S)
    <3> HIDE DEF S, T
    <3> QED
      BY <2>3, <2>4, <2>5 DEF Bijection, Injection, Surjection, IsInjective
  <2>7. IsFiniteSet(T)
    BY SameDayIsFinite
  <2>8. Cardinality(S) = Cardinality(T)
    <3> HIDE DEF S, T
    <3> QED
      BY <2>6, <2>7, FS_Bijection DEF ExistsBijection
  <2> QED
    BY <2>1, <2>2, <2>8
<1> QED
  BY <1>3, <1>5, <1>6

LEMMA ChronicleNextInv == ChronicleInv /\ [ChronicleNext]_chronicleVars => ChronicleInv'
<1> SUFFICES ASSUME ChronicleInv, [ChronicleNext]_chronicleVars PROVE ChronicleInv'
  OBVIOUS
<1>1. CASE RecordBegins
  <2>1. PICK k \in RecordKinds :
            begun' = begun \cup {[kind |-> k, from |-> today,
                                  n |-> Cardinality({r \in begun : r.kind = k /\ r.from = today})]}
    BY <1>1 DEF RecordBegins
  <2>2. \A r \in begun' : r.kind \in RecordKinds /\ r.from \in 0 .. today
    BY <2>1 DEF ChronicleInv
  <2> QED
    BY <1>1, <2>2 DEF RecordBegins, ChronicleInv
<1>2. CASE RecordCompletes
  <2>1. PICK r \in begun, stored0 \in {chronicle, <<>>} :
          LET record == [kind |-> r.kind, from |-> r.from, to |-> today,
                         rank |-> NextRank(r, stored0), blind |-> stored0 # chronicle]
          IN /\ begun' = begun \ {r}
             /\ \/ chronicle' = (IF torn THEN chronicle ELSE Append(chronicle, record))
                   /\ torn' = FALSE
                \/ UNCHANGED <<chronicle, torn>>
                \/ torn' = TRUE /\ UNCHANGED chronicle
    BY <1>2 DEF RecordCompletes
  <2> DEFINE record == [kind |-> r.kind, from |-> r.from, to |-> today,
                        rank |-> NextRank(r, stored0), blind |-> stored0 # chronicle]
  <2>2. today' = today /\ forgotten' = forgotten /\ begun' \subseteq begun
    BY <1>2, <2>1 DEF RecordCompletes
  <2>3. chronicle' = chronicle \/ chronicle' = Append(chronicle, record)
    BY <2>1
  <2>4. chronicle \in Seq(StoredRecord) /\ <<>> \in Seq(StoredRecord)
    BY DEF ChronicleInv
  <2>5. DOMAIN stored0 = 1 .. Len(stored0) /\ Len(stored0) \in Nat
    BY <2>4, LenProperties
  <2>6. NextRank(r, stored0) = Cardinality(SameDay(stored0, Len(stored0), r)) + 1
    BY <2>5 DEF NextRank, SameDay
  <2>7. NextRank(r, stored0) \in Nat
    BY <2>5, <2>6, SameDayIsFinite
  <2>8. record \in StoredRecord /\ record.from <= record.to /\ record.to = today
    BY <2>7 DEF ChronicleInv, StoredRecord
  <2>9. record.blind \/ record.rank = Cardinality(SameDay(chronicle, Len(chronicle), record)) + 1
    <3>1. CASE stored0 # chronicle
      BY <3>1
    <3>2. CASE stored0 = chronicle
      <4>1. Day(record) = Day(r)
        BY DEF Day
      <4>2. SameDay(chronicle, Len(chronicle), record) = SameDay(chronicle, Len(chronicle), r)
        BY <4>1 DEF SameDay
      <4> QED
        BY <2>6, <3>2, <4>2
    <3> QED
      BY <3>1, <3>2
  <2>10. CASE chronicle' = chronicle
    BY <2>2, <2>10 DEF ChronicleInv
  <2>11. CASE chronicle' = Append(chronicle, record)
    <3> HIDE DEF record
    <3>1. /\ chronicle' \in Seq(StoredRecord)
          /\ InOrder(chronicle', today)
          /\ Numbered(chronicle', forgotten)
      BY <2>8, <2>9, <2>11, RecordAppended
    <3> QED
      BY <2>2, <3>1 DEF ChronicleInv
  <2> QED
    BY <2>3, <2>10, <2>11
<1>3. CASE Restart
  <2>1. PICK n \in 0 .. Len(chronicle) :
            /\ chronicle' = SubSeq(chronicle, n + 1, Len(chronicle))
            /\ forgotten' = forgotten \cup {Day(chronicle[i]) : i \in 1 .. n}
    BY <1>3 DEF Restart
  <2>2. /\ chronicle' \in Seq(StoredRecord)
        /\ InOrder(chronicle', today)
        /\ Numbered(chronicle', forgotten')
    BY <2>1, RecordsDropped
  <2> QED
    BY <1>3, <2>2 DEF Restart, ChronicleInv
<1>4. CASE TodayPasses
  <2>1. today' \in Nat /\ today <= today' /\ chronicle' = chronicle /\ begun' = begun /\ forgotten' = forgotten
    BY <1>4 DEF TodayPasses, ChronicleInv
  <2>2. \A i \in DOMAIN chronicle : chronicle[i].to \in Nat
    <3>1. DOMAIN chronicle = 1 .. Len(chronicle) /\ chronicle \in Seq(StoredRecord)
      BY LenProperties DEF ChronicleInv
    <3>2. \A i \in DOMAIN chronicle : chronicle[i] \in StoredRecord
      BY <3>1, ElementOfSeq
    <3> QED
      BY <3>2 DEF StoredRecord
  <2>3. InOrder(chronicle, today')
    BY <2>1, <2>2 DEF ChronicleInv, InOrder
  <2>4. \A r \in begun : r.from \in 0 .. today'
    BY <2>1 DEF ChronicleInv
  <2> QED
    BY <2>1, <2>3, <2>4 DEF ChronicleInv
<1>5. CASE UNCHANGED chronicleVars
  BY <1>5 DEF ChronicleInv, chronicleVars
<1> QED
  BY <1>1, <1>2, <1>3, <1>4, <1>5 DEF ChronicleNext

\* Of two records of a day that were numbered in sight of the others, the later has
\* the greater number.
LEMMA IdentifiersDiffer == ChronicleInv => IdsIdentify
<1> SUFFICES ASSUME ChronicleInv,
                    NEW i \in DOMAIN chronicle, NEW j \in DOMAIN chronicle, i < j,
                    Day(chronicle[i]) = Day(chronicle[j]), chronicle[i].rank = chronicle[j].rank,
                    chronicle[i].rank # None, ~chronicle[i].blind, ~chronicle[j].blind,
                    Day(chronicle[i]) \notin forgotten
             PROVE  FALSE
  BY DEF IdsIdentify
<1> DEFINE S == SameDay(chronicle, i - 1, chronicle[i])
           T == SameDay(chronicle, j - 1, chronicle[j])
<1>1. DOMAIN chronicle = 1 .. Len(chronicle) /\ Len(chronicle) \in Nat
  BY LenProperties DEF ChronicleInv
<1>2. Cardinality(S) + 1 = Cardinality(T) + 1
  BY DEF ChronicleInv, Numbered
<1>3. S \cup {i} \in SUBSET T /\ i \notin S
  BY <1>1 DEF SameDay
<1>4. IsFiniteSet(S) /\ IsFiniteSet(T) /\ Cardinality(S) \in Nat /\ Cardinality(T) \in Nat
  BY <1>1, SameDayIsFinite
<1> HIDE DEF S, T
<1>5. Cardinality(S \cup {i}) = Cardinality(S) + 1
  BY <1>3, <1>4, FS_AddElement
<1>6. Cardinality(S \cup {i}) <= Cardinality(T)
  BY <1>3, <1>4, FS_Subset
<1> QED
  BY <1>2, <1>4, <1>5, <1>6

LEMMA TimelinesSplit == ChronicleInv => TimelineSplits
<1> SUFFICES ASSUME ChronicleInv PROVE TimelineSplits
  OBVIOUS
<1>1. ASSUME NEW r \in Chronicled
      PROVE  r.kind \in RecordKinds /\ r.from \in Nat /\ r.to \in Nat /\ r.from <= r.to
  <2>1. PICK i \in DOMAIN chronicle : r = chronicle[i]
    BY DEF Chronicled
  <2>2. r \in StoredRecord
    BY <2>1, LenProperties, ElementOfSeq DEF ChronicleInv
  <2> QED
    BY <2>1, <2>2 DEF ChronicleInv, InOrder, StoredRecord
<1>2. ASSUME NEW from \in Nat, NEW to \in Nat
      PROVE  TimelineOf(from, to) = {r \in Chronicled : r.from <= to /\ r.to >= from}
  BY <1>1 DEF TimelineOf, EventsOf, Touches
<1>3. \A r \in Chronicled : r \in TimelineOf(r.from, r.from) \cap TimelineOf(r.to, r.to)
  BY <1>1, <1>2
<1>4. ASSUME NEW from \in 0 .. FinalDay, NEW to \in 0 .. FinalDay, NEW cut \in from .. to
      PROVE  TimelineOf(from, to) = TimelineOf(from, cut) \cup TimelineOf(cut, to)
  <2>1. from \in Nat /\ to \in Nat /\ cut \in Nat /\ from <= cut /\ cut <= to
    BY ChronicleConstants
  <2>2. ASSUME NEW r \in Chronicled
        PROVE  r.from <= to /\ r.to >= from <=>
                   (r.from <= cut /\ r.to >= from) \/ (r.from <= to /\ r.to >= cut)
    BY <1>1, <2>1
  <2> QED
    BY <1>2, <2>1, <2>2
<1> QED
  BY <1>3, <1>4 DEF TimelineSplits

-----------------------------------------------------------------------------
\* THE MARKERS OF CHANGES

\* The markers of a file, or of what a window has read of it: they can be told apart by
\* their numbers, the last of which is n, and by their identifiers unless one was numbered
\* blindly.  None is of a time later than t.
IsListing(list, n, t) ==
    /\ list \subseteq Marker /\ IsFiniteSet(list)
    /\ \A m \in list : m.made \in 0 .. n /\ m.when \in 0 .. t
    /\ \A a, b \in list : a.made = b.made => a = b
    /\ \A a \in list : \A b \in list \ {a} : IdOf(a) = IdOf(b) => Blindly(a, b)

\* A window shows one of its markers, and the report of one with this identifier.
ShowsOne(table, n, t) ==
    /\ table = [listed |-> table.listed, selected |-> table.selected, detail |-> table.detail]
    /\ IsListing(table.listed, n, t)
    /\ table.listed = {} => table.selected = None
    /\ table.listed # {} =>
           /\ table.selected \in table.listed /\ table.detail \in table.listed
           /\ IdOf(table.detail) = IdOf(table.selected)

DeletionIsTrue(d) ==
    \A m \in d.gone :
        \/ m = d.asked
        \/ m.when = d.asked.when /\ (~d.late => Blindly(m, d.asked))

MarkersInv ==
    /\ minute \in Nat /\ made \in Nat
    /\ IsListing(markers, made, minute)
    /\ markerTables = [w \in Tables |-> markerTables[w]]
    /\ \A w \in Tables : markerTables[w] # None => ShowsOne(markerTables[w], made, minute)
    /\ deletion # None => DeletionIsTrue(deletion)

LEMMA MarkersInitially == MarkersInit => MarkersInv
BY MarkerConstants, FS_EmptySet DEF MarkersInit, MarkersInv, IsListing

\* There is a marker furthest down among those of an identifier, and one on top.
LEMMA LastOfIsIn ==
    ASSUME NEW n \in Nat, NEW t \in Nat, NEW list, IsListing(list, n, t), NEW asked, \E m \in list : IdOf(m) = IdOf(asked)
    PROVE  LastOf(list, asked) \in list /\ IdOf(LastOf(list, asked)) = IdOf(asked)
<1> DEFINE same == {m \in list : IdOf(m) = IdOf(asked)}
           S == {m.made : m \in same}
<1>1. S \subseteq 0 .. n /\ S # {}
  BY DEF IsListing
<1>2. PICK last \in S : \A k \in S : k <= last
  <2> HIDE DEF S
  <2> QED
    BY <1>1, GreatestNatural
<1>3. PICK m \in same : m.made = last
  OBVIOUS
<1>4. ASSUME NEW o \in list \ {m}, IdOf(o) = IdOf(asked) PROVE Above(o, m)
  <2>1. o.made <= m.made /\ o.made # m.made /\ o.when = m.when
    BY <1>2, <1>3, <1>4 DEF IsListing, IdOf
  <2>2. o.made \in Int /\ m.made \in Int
    BY <1>3, <1>4 DEF IsListing
  <2> QED
    BY <2>1, <2>2 DEF Above
<1> QED
  BY <1>3, <1>4 DEF LastOf

LEMMA TopOfIsIn ==
    ASSUME NEW n \in Nat, NEW t \in Nat, NEW list, IsListing(list, n, t), list # {}
    PROVE  TopOf(list) \in list
<1> DEFINE W == {m.when : m \in list}
<1>1. W \subseteq 0 .. t /\ W # {}
  BY DEF IsListing
<1>2. PICK w \in W : \A k \in W : k <= w
  <2> HIDE DEF W
  <2> QED
    BY <1>1, GreatestNatural
<1> DEFINE newest == {m \in list : m.when = w}
           S == {m.made : m \in newest}
<1>3. S \in SUBSET Nat /\ S # {}
  BY DEF IsListing
<1>4. PICK first \in S : \A k \in S : first <= k
  <2> HIDE DEF S
  <2> QED
    BY <1>3, LeastNatural
<1>5. PICK m \in newest : m.made = first
  OBVIOUS
<1>6. ASSUME NEW o \in list \ {m} PROVE Above(m, o)
  <2>1. o.when \in Int /\ m.when \in Int /\ o.made \in Int /\ m.made \in Int
    BY <1>5 DEF IsListing
  <2>2. o.made # m.made /\ o.when <= m.when
    BY <1>2, <1>5 DEF IsListing
  <2>3. o.when = m.when => m.made <= o.made
    BY <1>4, <1>5
  <2> QED
    BY <2>1, <2>2, <2>3 DEF Above
<1> QED
  BY <1>5, <1>6 DEF TopOf

LEMMA ChosenIsTable ==
    ASSUME NEW n \in Nat, NEW t \in Nat, NEW list, IsListing(list, n, t), NEW m \in list
    PROVE  ShowsOne(Chosen(list, m), n, t)
BY LastOfIsIn DEF Chosen, ShowsOne

LEMMA LoadedIsTable ==
    ASSUME NEW n \in Nat, NEW t \in Nat, NEW list, IsListing(list, n, t), NEW asked
    PROVE  ShowsOne(Loaded(list, asked), n, t)
<1>1. CASE list = {}
  BY <1>1 DEF Loaded, ShowsOne
<1>2. CASE list # {} /\ (asked = None \/ \A m \in list : IdOf(m) # IdOf(asked))
  BY <1>2, TopOfIsIn, ChosenIsTable DEF Loaded
<1>3. CASE list # {} /\ ~(asked = None \/ \A m \in list : IdOf(m) # IdOf(asked))
  BY <1>3, LastOfIsIn, ChosenIsTable DEF Loaded
<1> QED
  BY <1>1, <1>2, <1>3

LEMMA PartOfListing ==
    ASSUME NEW n \in Nat, NEW t \in Nat, NEW list, IsListing(list, n, t), NEW some \in SUBSET list
    PROVE  IsListing(some, n, t)
BY FS_Subset DEF IsListing

\* There are more numbers than markers to take them.
LEMMA SuffixIsFree ==
    ASSUME NEW when, NEW listed, NEW n \in Nat, NEW t \in Nat, IsListing(listed, n, t)
    PROVE  /\ FreeSuffix(when, listed) \in Nat
           /\ \A m \in listed : m.when = when => m.suffix # FreeSuffix(when, listed)
<1> DEFINE X == {x \in listed : x.when = when}
           taken == {m.suffix : m \in X}
           c == Cardinality(listed)
           f == [m \in X |-> m.suffix]
           S == (1 .. c + 1) \ taken
<1>1. IsFiniteSet(listed) /\ c \in Nat
  BY FS_CardinalityType DEF IsListing
<1>2. IsFiniteSet(X) /\ Cardinality(X) <= c
  BY <1>1, FS_Subset
<1>3. f \in Surjection(X, taken)
  BY DEF Surjection
<1>4. IsFiniteSet(taken) /\ Cardinality(taken) <= Cardinality(X)
  <2> HIDE DEF X, taken, f
  <2> QED
    BY <1>2, <1>3, FS_Surjection
<1>5. ASSUME S = {} PROVE FALSE
  <2>1. 1 .. c + 1 \in SUBSET taken
    BY <1>5
  <2>2. c + 1 \in Int /\ c + 1 >= 1
    BY <1>1
  <2> HIDE DEF c, taken, X
  <2>3. Cardinality(1 .. c + 1) = c + 1
    BY <2>2, FS_Interval
  <2>4. Cardinality(1 .. c + 1) <= Cardinality(taken)
    BY <1>4, <2>1, FS_Subset
  <2>5. Cardinality(X) \in Nat /\ Cardinality(taken) \in Nat
    BY <1>2, <1>4, FS_CardinalityType
  <2> QED
    BY <1>1, <1>2, <1>4, <2>3, <2>4, <2>5
<1>6. PICK least \in S : \A k \in S : least <= k
  <2>1. S \in SUBSET Nat
    BY <1>1
  <2> HIDE DEF S
  <2> QED
    BY <1>5, <2>1, LeastNatural
<1>7. 1 .. least - 1 \subseteq taken
  <2> SUFFICES ASSUME NEW k \in 1 .. least - 1, k \notin taken PROVE FALSE
    OBVIOUS
  <2>1. least \in 1 .. c + 1
    BY <1>6
  <2>2. k \in 1 .. c + 1 /\ ~(least <= k)
    BY <1>1, <2>1
  <2> QED
    BY <1>6, <2>2
<1>8. \E k \in 1 .. c + 1 : k \notin taken /\ 1 .. k - 1 \subseteq taken
  BY <1>6, <1>7
<1>9. FreeSuffix(when, listed) \in 1 .. c + 1 /\ FreeSuffix(when, listed) \notin taken
  <2>1. FreeSuffix(when, listed) = CHOOSE k \in 1 .. c + 1 : k \notin taken /\ 1 .. k - 1 \subseteq taken
    BY DEF FreeSuffix
  <2> HIDE DEF c, taken
  <2> QED
    BY <1>8, <2>1
<1> QED
  BY <1>1, <1>9

\* A listing stays one as markers are added and time passes.
LEMMA ListingLasts ==
    ASSUME NEW n \in Nat, NEW t \in Nat, NEW n1 \in Nat, NEW t1 \in Nat, n <= n1, t <= t1,
           NEW list, IsListing(list, n, t)
    PROVE  IsListing(list, n1, t1)
BY DEF IsListing

LEMMA TableLasts ==
    ASSUME NEW n \in Nat, NEW t \in Nat, NEW n1 \in Nat, NEW t1 \in Nat, n <= n1, t <= t1,
           NEW table, ShowsOne(table, n, t)
    PROVE  ShowsOne(table, n1, t1)
BY ListingLasts DEF ShowsOne

LEMMA MarkerAdded ==
    ASSUME MarkersInv, NEW when \in Minutes, when <= minute, NEW listed \in Listings, NEW marker,
           marker = [made |-> made + 1, when |-> when, suffix |-> FreeSuffix(when, listed),
                     blind |-> listed # markers]
    PROVE  IsListing(markers \cup {marker}, made + 1, minute)
<1>1. made \in Nat /\ minute \in Nat /\ made + 1 \in Nat /\ IsListing(markers, made, minute)
  BY DEF MarkersInv
<1>2. IsListing(listed, made, minute)
  BY <1>1, PartOfListing DEF Listings
<1>3. /\ FreeSuffix(when, listed) \in Nat
      /\ \A m \in listed : m.when = when => m.suffix # FreeSuffix(when, listed)
  BY <1>1, <1>2, SuffixIsFree
<1>4. marker \in Marker /\ marker.made = made + 1 /\ marker.when = when /\ when \in 0 .. minute
  BY <1>1, <1>3, MarkerConstants DEF Marker
<1>5. \A m \in markers : m.made # made + 1
  BY <1>1 DEF IsListing
<1>6. ASSUME NEW m \in markers, IdOf(m) = IdOf(marker) PROVE marker.blind
  <2>1. m.when = when /\ m.suffix = FreeSuffix(when, listed)
    BY <1>6 DEF IdOf
  <2>2. m \notin listed
    BY <1>3, <2>1
  <2> QED
    BY <2>2
<1>7. IsFiniteSet(markers \cup {marker})
  BY <1>1, FS_AddElement DEF IsListing
<1>8. \A m \in markers \cup {marker} : m.made \in 0 .. made + 1 /\ m.when \in 0 .. minute
  BY <1>1, <1>4 DEF IsListing
<1>9. ASSUME NEW a \in markers \cup {marker}, NEW b \in markers \cup {marker}
      PROVE  /\ a.made = b.made => a = b
             /\ IdOf(a) = IdOf(b) => a = b \/ Blindly(a, b)
  <2>1. CASE a \in markers /\ b \in markers
    BY <1>1, <2>1 DEF IsListing
  <2>2. CASE a = marker
    BY <1>4, <1>5, <1>6, <2>2 DEF Blindly
  <2>3. CASE b = marker
    BY <1>4, <1>5, <1>6, <2>3 DEF Blindly
  <2> QED
    BY <2>1, <2>2, <2>3
<1> QED
  BY <1>1, <1>4, <1>7, <1>8, <1>9 DEF IsListing

\* A step that makes no deletion, and after which one window shows a listing.
LEMMA WindowShows ==
    ASSUME MarkersInv, NEW w \in Tables, NEW table, table = None \/ ShowsOne(table, made, minute),
           markerTables' = [markerTables EXCEPT ![w] = table]
    PROVE  /\ markerTables' = [x \in Tables |-> markerTables'[x]]
           /\ \A x \in Tables : markerTables'[x] # None => ShowsOne(markerTables'[x], made, minute)
BY DEF MarkersInv

LEMMA MarkersNextInv == MarkersInv /\ [MarkersNext]_markerVars => MarkersInv'
<1> SUFFICES ASSUME MarkersInv, [MarkersNext]_markerVars PROVE MarkersInv'
  OBVIOUS
<1> USE DEF Unchosen
<1>1. made \in Nat /\ minute \in Nat /\ IsListing(markers, made, minute) /\ IsListing({}, made, minute)
  BY FS_EmptySet DEF MarkersInv, IsListing
<1>2. \A listed \in Listings : IsListing(listed, made, minute) /\ listed \subseteq markers
  BY <1>1 DEF Listings
<1>3. CASE MinutePasses
  <2>1. minute' \in Nat /\ minute <= minute' /\ markerTables' = markerTables /\ made' = made
    BY <1>1, <1>3, MarkerConstants DEF MinutePasses
  <2>2. IsListing(markers, made', minute')
    BY <1>1, <2>1, ListingLasts
  <2>3. \A w \in Tables : markerTables[w] # None => ShowsOne(markerTables[w], made', minute')
    BY <1>1, <2>1, TableLasts DEF MarkersInv
  <2> QED
    BY <1>1, <1>3, <2>1, <2>2, <2>3 DEF MinutePasses, MarkersInv
<1>4. ASSUME NEW w \in Tables, OpenTable(w) \/ RefreshTable(w) \/ CloseTable(w) \/ SelectMarker(w)
      PROVE  MarkersInv'
  <2>1. minute' = minute /\ made' = made /\ markers' = markers /\ deletion' = None
    BY <1>4 DEF OpenTable, RefreshTable, CloseTable, SelectMarker
  <2>2. PICK table : /\ table = None \/ ShowsOne(table, made, minute)
                     /\ markerTables' = [markerTables EXCEPT ![w] = table]
    <3>1. CASE OpenTable(w) \/ RefreshTable(w)
      BY <1>1, <1>2, <3>1, LoadedIsTable DEF OpenTable, RefreshTable
    <3>2. CASE CloseTable(w)
      BY <3>2 DEF CloseTable
    <3>3. CASE SelectMarker(w)
      <4>1. PICK m \in markerTables[w].listed :
                markerTables' = [markerTables EXCEPT ![w] = Chosen(markerTables[w].listed, m)]
        BY <3>3 DEF SelectMarker, MarkersInv
      <4>2. ShowsOne(Chosen(markerTables[w].listed, m), made, minute)
        BY <1>1, <3>3, ChosenIsTable DEF SelectMarker, MarkersInv, ShowsOne
      <4> QED
        BY <4>1, <4>2
    <3> QED
      BY <1>4, <3>1, <3>2, <3>3
  <2>3. /\ markerTables' = [x \in Tables |-> markerTables'[x]]
        /\ \A x \in Tables : markerTables'[x] # None => ShowsOne(markerTables'[x], made, minute)
    BY <2>2, WindowShows
  <2> QED
    BY <1>1, <2>1, <2>3 DEF MarkersInv
<1>5. ASSUME NEW w \in Tables, MarkChange(w) PROVE MarkersInv'
  <2>1. minute' = minute /\ deletion' = None
    BY <1>5 DEF MarkChange
  <2>2. CASE UNCHANGED <<markers, made, markerTables>>
    BY <2>1, <2>2 DEF MarkersInv
  <2>3. ASSUME NEW when \in {m \in Minutes : m <= minute}, NEW listed \in Listings, NEW marker,
               marker = [made |-> made + 1, when |-> when, suffix |-> FreeSuffix(when, listed),
                         blind |-> listed # markers],
               markers' = markers \cup {marker}, made' = made + 1,
               NEW now0 \in {markers', {}},
               markerTables' = [markerTables EXCEPT ![w] = Loaded(now0, marker)]
        PROVE  MarkersInv'
    <3>1. made' \in Nat /\ made <= made'
      BY <1>1, <2>3
    <3>2. IsListing(markers', made', minute)
      BY <2>3, MarkerAdded
    <3>3. IsListing({}, made', minute)
      BY <1>1, <3>1, ListingLasts
    <3>4. ShowsOne(Loaded(now0, marker), made', minute)
      BY <1>1, <2>3, <3>1, <3>2, <3>3, LoadedIsTable
    <3>5. \A x \in Tables : markerTables[x] # None => ShowsOne(markerTables[x], made', minute)
      BY <1>1, <3>1, TableLasts DEF MarkersInv
    <3>6. /\ markerTables' = [x \in Tables |-> markerTables'[x]]
          /\ \A x \in Tables : markerTables'[x] # None => ShowsOne(markerTables'[x], made', minute)
      BY <2>3, <3>4, <3>5 DEF MarkersInv
    <3> QED
      BY <1>1, <2>1, <3>1, <3>2, <3>6 DEF MarkersInv
  <2> QED
    BY <1>5, <2>2, <2>3 DEF MarkChange
<1>6. ASSUME NEW w \in Tables, DeleteSelected(w) PROVE MarkersInv'
  <2> DEFINE asked == markerTables[w].selected
             goneOf(listed) == {m \in listed : IdOf(m) = IdOf(asked)}
  <2>1. PICK listed \in Listings :
          /\ deletion' = [asked |-> asked, gone |-> goneOf(listed), late |-> asked \notin markers]
          /\ \/ UNCHANGED <<markers, markerTables>>
             \/ /\ markers' = listed \ goneOf(listed)
                /\ \E now0 \in {markers', {}} :
                       markerTables' = [markerTables EXCEPT ![w] = Loaded(now0, None)]
    BY <1>6 DEF DeleteSelected
  <2>2. minute' = minute /\ made' = made
    BY <1>6 DEF DeleteSelected
  <2>3. DeletionIsTrue(deletion')
    <3>1. SUFFICES ASSUME NEW m \in goneOf(listed), m # asked
                   PROVE  m.when = asked.when /\ (asked \in markers => Blindly(m, asked))
      BY <2>1 DEF DeletionIsTrue
    <3>2. m \in markers /\ IdOf(m) = IdOf(asked)
      BY <1>2
    <3>3. m.when = asked.when
      BY <3>2 DEF IdOf
    <3>4. asked \in markers => Blindly(m, asked)
      BY <1>1, <3>1, <3>2 DEF IsListing
    <3> QED
      BY <3>3, <3>4
  <2>4. CASE UNCHANGED <<markers, markerTables>>
    BY <2>2, <2>3, <2>4 DEF MarkersInv
  <2>5. ASSUME markers' = listed \ goneOf(listed), NEW now0 \in {markers', {}},
               markerTables' = [markerTables EXCEPT ![w] = Loaded(now0, None)]
        PROVE  MarkersInv'
    <3>1. IsListing(markers', made, minute)
      <4>1. listed \ goneOf(listed) \in SUBSET listed
        OBVIOUS
      <4> HIDE DEF goneOf
      <4> QED
        BY <1>1, <1>2, <2>5, <4>1, PartOfListing
    <3>2. ShowsOne(Loaded(now0, None), made, minute)
      BY <1>1, <2>5, <3>1, LoadedIsTable
    <3>3. /\ markerTables' = [x \in Tables |-> markerTables'[x]]
          /\ \A x \in Tables : markerTables'[x] # None => ShowsOne(markerTables'[x], made, minute)
      BY <2>5, <3>2, WindowShows
    <3> QED
      BY <1>1, <2>2, <2>3, <3>1, <3>3 DEF MarkersInv
  <2> QED
    BY <2>1, <2>4, <2>5
<1>7. CASE UNCHANGED markerVars
  BY <1>7 DEF MarkersInv, markerVars
<1> QED
  BY <1>3, <1>4, <1>5, <1>6, <1>7 DEF MarkersNext

LEMMA MarkersHold == MarkersInv => MarkersAreTrue
<1> SUFFICES ASSUME MarkersInv PROVE MarkersAreTrue
  OBVIOUS
<1>1. \A a \in markers : \A b \in markers \ {a} : IdOf(a) = IdOf(b) => Blindly(a, b)
  BY DEF MarkersInv, IsListing
<1>2. ASSUME NEW w \in Tables, markerTables[w] # None
      PROVE  LET t == markerTables[w]
             IN  /\ t.selected \in t.listed \cup {None}
                 /\ t.listed # {} => t.selected # None
                 /\ t.listed # {} =>
                        \/ t.detail = t.selected
                        \/ IdOf(t.detail) = IdOf(t.selected) /\ Blindly(t.detail, t.selected)
  <2> DEFINE t == markerTables[w]
  <2>1. ShowsOne(t, made, minute)
    BY <1>2 DEF MarkersInv
  <2> HIDE DEF t
  <2>2. t.selected \in t.listed \cup {None}
    BY <2>1 DEF ShowsOne
  <2>3. t.listed # {} => t.selected # None
    BY <2>1, MarkerConstants DEF ShowsOne, IsListing
  <2>4. ASSUME t.listed # {}, t.detail # t.selected
        PROVE  IdOf(t.detail) = IdOf(t.selected) /\ Blindly(t.detail, t.selected)
    BY <2>1, <2>4 DEF ShowsOne, IsListing
  <2> QED
    BY <2>2, <2>3, <2>4 DEF t
<1>3. deletion # None => DeletionIsTrue(deletion)
  BY DEF MarkersInv
<1> QED
  BY <1>1, <1>2, <1>3 DEF MarkersAreTrue, DeletionIsTrue

-----------------------------------------------------------------------------
\* THE ANSWERS TO QUESTIONS

AnswersInv ==
    /\ moment \in Nat
    /\ bucketed \subseteq 0 .. moment
    /\ \A t \in troubles : t.part \in IncidentParts /\ t.from \in Nat /\ t.to \in Nat \cup {None}
    /\ \A s \in plays : s.from \in Nat /\ s.to \in Nat

LEMMA AnswersInitially == AnswersInit => AnswersInv
BY DEF AnswersInit, AnswersInv

LEMMA AnswersNextInv == AnswersInv /\ [AnswersNext]_answerVars => AnswersInv'
<1> SUFFICES ASSUME AnswersInv, [AnswersNext]_answerVars PROVE AnswersInv'
  OBVIOUS
<1>1. CASE MomentPasses
  <2>1. moment' = moment + 1 /\ bucketed' \subseteq bucketed \cup {moment}
    BY <1>1 DEF MomentPasses
  <2>2. moment' \in Nat /\ bucketed' \subseteq 0 .. moment'
    BY <2>1 DEF AnswersInv
  <2> QED
    BY <1>1, <2>2 DEF MomentPasses, AnswersInv
<1>2. CASE TroubleBegins
  <2>1. PICK p \in IncidentParts : troubles' = troubles \cup {[part |-> p, from |-> moment, to |-> None]}
    BY <1>2 DEF TroubleBegins
  <2> QED
    BY <1>2, <2>1 DEF TroubleBegins, AnswersInv
<1>3. CASE TroubleEnds
  <2>1. PICK t \in troubles : troubles' = (troubles \ {t}) \cup {[t EXCEPT !.to = moment]}
    BY <1>3 DEF TroubleEnds
  <2>2. t.part \in IncidentParts /\ t.from \in Nat
    BY DEF AnswersInv
  <2>3. [t EXCEPT !.to = moment].part = t.part /\ [t EXCEPT !.to = moment].from = t.from
    OBVIOUS
  <2>4. [t EXCEPT !.to = moment].to \in Nat \cup {None}
    BY DEF AnswersInv
  <2> QED
    BY <1>3, <2>1, <2>2, <2>3, <2>4 DEF TroubleEnds, AnswersInv
<1>4. CASE PlayEnds
  <2>1. PICK from \in 0 .. moment : plays' = plays \cup {[from |-> from, to |-> moment]}
    BY <1>4 DEF PlayEnds
  <2> QED
    BY <1>4, <2>1 DEF PlayEnds, AnswersInv
<1>5. CASE UNCHANGED answerVars
  BY <1>5 DEF AnswersInv, answerVars
<1> QED
  BY <1>1, <1>2, <1>3, <1>4, <1>5 DEF AnswersNext

\* Without a gap to name, each stretch that is long enough has a bucket: what is unseen
\* around one without could be extended to a gap.
LEMMA NothingUnseen ==
    ASSUME AnswersInv, NEW w \in AskedSpans, UnseenSpans(w) = {},
           NEW m \in w.from .. w.to - LongEnough
    PROVE  bucketed \cap (m .. m + LongEnough - 1) # {}
<1> SUFFICES ASSUME bucketed \cap (m .. m + LongEnough - 1) = {} PROVE FALSE
  OBVIOUS
<1>1. /\ w.from \in 0 .. moment /\ w.to \in 0 .. moment /\ w.from <= w.to
      /\ moment \in Nat /\ LongEnough \in Nat /\ LongEnough >= 1 /\ bucketed \subseteq Nat
  BY AnswerConstants DEF AskedSpans, Spans, AnswersInv
<1>2. /\ m \in Nat /\ w.from <= m /\ m + LongEnough <= w.to
  BY <1>1
<1> DEFINE before == {b \in bucketed : w.from <= b /\ b < m}
           after == {b \in bucketed : m + LongEnough <= b /\ b <= w.to}
<1>3. PICK from \in w.from .. m : /\ bucketed \cap (from .. m - 1) = {}
                                  /\ from = w.from \/ from - 1 \in bucketed
  <2>1. CASE before = {}
    <3>1. bucketed \cap (w.from .. m - 1) = {}
      BY <1>1, <1>2, <2>1
    <3> QED
      BY <1>1, <1>2, <3>1
  <2>2. CASE before # {}
    <3>1. before \in SUBSET (0 .. m)
      <4>1. \A b \in before : b \in Nat /\ b < m
        BY <1>1
      <4> HIDE DEF before
      <4> QED
        BY <1>2, <4>1
    <3>2. PICK b \in before : \A k \in before : k <= b
      <4> HIDE DEF before
      <4> QED
        BY <1>2, <2>2, <3>1, GreatestNatural
    <3>3. b \in bucketed /\ b \in Nat /\ w.from <= b /\ b < m
      BY <1>1
    <3>4. b + 1 \in w.from .. m /\ (b + 1) - 1 \in bucketed
      BY <1>1, <1>2, <3>3
    <3>5. ASSUME NEW k \in bucketed \cap (b + 1 .. m - 1) PROVE FALSE
      <4>1. k \in Nat /\ b < k /\ k < m
        BY <1>1, <1>2, <3>3
      <4>2. k \in before
        BY <1>1, <3>3, <4>1
      <4> QED
        BY <3>2, <3>3, <4>1, <4>2
    <3> QED
      BY <3>4, <3>5
  <2> QED
    BY <2>1, <2>2
<1>4. PICK to \in m + LongEnough .. w.to : /\ bucketed \cap (m + LongEnough .. to - 1) = {}
                                           /\ to = w.to \/ to \in bucketed
  <2>1. CASE after = {}
    <3>1. bucketed \cap (m + LongEnough .. w.to - 1) = {}
      BY <1>1, <1>2, <2>1
    <3> QED
      BY <1>1, <1>2, <3>1
  <2>2. CASE after # {}
    <3>1. after \in SUBSET Nat
      BY <1>1
    <3>2. PICK b \in after : \A k \in after : b <= k
      <4> HIDE DEF after
      <4> QED
        BY <2>2, <3>1, LeastNatural
    <3>3. b \in bucketed /\ b \in Nat /\ m + LongEnough <= b /\ b <= w.to
      BY <1>1
    <3>4. b \in m + LongEnough .. w.to
      BY <1>1, <1>2, <3>3
    <3>5. ASSUME NEW k \in bucketed \cap (m + LongEnough .. b - 1) PROVE FALSE
      <4>1. k \in Nat /\ m + LongEnough <= k /\ k < b
        BY <1>1, <1>2, <3>3
      <4>2. k \in after
        BY <1>1, <3>3, <4>1
      <4> QED
        BY <3>2, <3>3, <4>1, <4>2
    <3> QED
      BY <3>3, <3>4, <3>5
  <2> QED
    BY <2>1, <2>2
<1> HIDE DEF before, after
<1>5. from \in Nat /\ to \in Nat /\ w.from <= from /\ from <= m /\ m + LongEnough <= to /\ to <= w.to
  BY <1>1, <1>2, <1>3, <1>4
<1>6. bucketed \cap (from .. to - 1) = {}
  <2> SUFFICES ASSUME NEW k \in bucketed, from <= k, k < to PROVE FALSE
    BY <1>1, <1>5
  <2>1. k \in Nat
    BY <1>1
  <2>2. k \in from .. m - 1 \/ k \in m .. m + LongEnough - 1 \/ k \in m + LongEnough .. to - 1
    BY <1>1, <1>2, <1>5, <2>1
  <2> QED
    BY <1>3, <1>4, <2>2
<1> DEFINE g == [from |-> from, to |-> to]
<1>7. g \in AskedSpans
  BY <1>1, <1>2, <1>5 DEF AskedSpans, Spans
<1>8. g \in UnseenSpans(w)
  <2>1. g.to - g.from >= LongEnough
    BY <1>1, <1>2, <1>5
  <2> QED
    BY <1>3, <1>4, <1>5, <1>6, <1>7, <2>1 DEF UnseenSpans
<1> QED
  BY <1>8

\* The first of some gaps is named.
LEMMA FirstIsNamed ==
    ASSUME NEW gaps, \A g \in gaps : g.from \in Nat, Named(gaps) = {}
    PROVE  gaps = {}
<1> SUFFICES ASSUME gaps # {} PROVE FALSE
  OBVIOUS
<1> DEFINE S == {g.from : g \in gaps}
<1>1. S \in SUBSET Nat /\ S # {}
  OBVIOUS
<1>2. PICK n \in S : \A k \in S : n <= k
  <2> HIDE DEF S
  <2> QED
    BY <1>1, LeastNatural
<1>3. PICK g \in gaps : g.from = n
  OBVIOUS
<1>4. {o \in gaps : o.from < g.from} = {}
  <2> SUFFICES ASSUME NEW o \in gaps, o.from < g.from PROVE FALSE
    OBVIOUS
  <2> QED
    BY <1>1, <1>2, <1>3
<1>5. Cardinality({o \in gaps : o.from < g.from}) < 2
  <2>1. Cardinality({}) < 2
    BY FS_EmptySet
  <2> DEFINE before == {o \in gaps : o.from < g.from}
  <2>2. before = {}
    BY <1>4
  <2> HIDE DEF before
  <2>3. Cardinality(before) < 2
    BY <2>1, <2>2
  <2> QED
    BY <2>3 DEF before
<1> QED
  BY <1>5 DEF Named

LEMMA QuotientBound ==
    ASSUME NEW a \in Nat, NEW d \in Nat \ {0}, NEW c \in Nat, ~(a \div d < c)
    PROVE  a >= c * d
<1>1. a = d * (a \div d) + (a % d) /\ a \div d \in Nat /\ a % d \in 0 .. d - 1
  OBVIOUS
<1>2. \A k \in Nat : c <= k => c * d <= d * k
  OBVIOUS
<1> QED
  BY <1>1, <1>2

LEMMA WatchedEnough ==
    ASSUME AnswersInv, NEW w \in AskedSpans, ~(CoverageOf(w) < Covered)
    PROVE  Cardinality(bucketed \cap (w.from .. w.to)) * 100 >= Covered * (w.to - w.from)
<1> DEFINE A == bucketed \cap (w.from .. w.to - 1)
           B == bucketed \cap (w.from .. w.to)
           d == w.to - w.from
<1>1. /\ w.from \in Nat /\ w.to \in Nat /\ w.from <= w.to
      /\ d \in Nat /\ Covered \in Nat
  BY AnswerConstants DEF AskedSpans, Spans, AnswersInv
<1>2. IsFiniteSet(B)
  <2>1. w.from \in Int /\ w.to \in Int
    BY <1>1
  <2>2. IsFiniteSet(w.from .. w.to)
    BY <2>1, FS_Interval
  <2> QED
    BY <2>2, FS_Intersection
<1>3. A \in SUBSET B
  BY <1>1
<1>4. Cardinality(A) \in Nat /\ Cardinality(B) \in Nat /\ Cardinality(A) <= Cardinality(B)
  <2> HIDE DEF A, B
  <2> QED
    BY <1>2, <1>3, FS_Subset, FS_CardinalityType
<1>5. CASE d = 0
  BY <1>1, <1>4, <1>5
<1>6. CASE d # 0
  <2>1. Max({1, d}) = d
    <3>1. d \in {1, d} /\ {1, d} \subseteq 1 .. d
      BY <1>1, <1>6
    <3> HIDE DEF d
    <3> QED
      BY <1>1, <3>1, GreatestIsMax
  <2>2. CoverageOf(w) = (100 * Cardinality(A)) \div d
    BY <2>1 DEF CoverageOf
  <2> HIDE DEF A, B, d
  <2>3. 100 * Cardinality(A) >= Covered * d
    BY <1>1, <1>4, <1>6, <2>2, QuotientBound
  <2>4. Covered * d \in Nat
    BY <1>1
  <2>5. Cardinality(B) * 100 >= Covered * d
    BY <1>4, <2>3, <2>4
  <2> QED
    BY <2>5 DEF B, d
<1> QED
  BY <1>5, <1>6

\* What an answer to a question that is understood says of the evidence.
LEMMA AnswerSays ==
    ASSUME NEW words, NEW component, NEW w
    PROVE  LET intent == Intent(words)
               evidence == WindowEvidence(IF intent = "timeline" THEN None ELSE component, w)
               answer == Answer(words, component, w)
           IN /\ answer.intent = intent
              /\ \A topic \in answer.denied : topic \in Topics(intent) /\ evidence[topic] = {}
              /\ intent = "timeline" /\ answer.denied # {} => answer.denied = Topics(intent)
              /\ intent # "timeline" =>
                     \A topic \in Topics(intent) : evidence[topic] = {} => topic \in answer.denied
              /\ intent # None /\ ~answer.poor => ~(evidence.coverage < Covered)
              /\ intent # None => answer.gaps = Named(evidence.gaps)
<1> DEFINE intent == Intent(words)
           evidence == WindowEvidence(IF intent = "timeline" THEN None ELSE component, w)
           missing == {t \in Topics(intent) : evidence[t] = {}}
           answer == Answer(words, component, w)
<1>1. CASE intent = None
  <2>1. answer = [intent |-> None, denied |-> {}, poor |-> FALSE, gaps |-> {}]
    BY <1>1 DEF Answer
  <2>2. Topics(intent) = {} /\ intent # "timeline"
    BY <1>1, AnswerConstants DEF Topics
  <2> HIDE DEF evidence, answer, intent
  <2>3. answer.intent = intent /\ answer.denied = {}
    BY <1>1, <2>1
  <2>4. /\ answer.intent = intent
        /\ \A topic \in answer.denied : topic \in Topics(intent) /\ evidence[topic] = {}
        /\ intent = "timeline" /\ answer.denied # {} => answer.denied = Topics(intent)
        /\ intent # "timeline" =>
               \A topic \in Topics(intent) : evidence[topic] = {} => topic \in answer.denied
    BY <2>2, <2>3
  <2> QED
    BY <1>1, <2>4 DEF evidence, answer, intent
<1>2. CASE intent # None
  <2>1. answer = [intent |-> intent,
                  denied |-> IF intent = "timeline" /\ missing # Topics(intent) THEN {} ELSE missing,
                  poor |-> evidence.coverage < Covered,
                  gaps |-> Named(evidence.gaps)]
    BY <1>2 DEF Answer
  <2> HIDE DEF evidence, answer, intent
  <2>2. /\ answer.intent = intent
        /\ answer.denied = IF intent = "timeline" /\ missing # Topics(intent) THEN {} ELSE missing
        /\ answer.gaps = Named(evidence.gaps)
    BY <2>1
  <2>3. ~answer.poor => ~(evidence.coverage < Covered)
    BY <2>1, Zenon
  <2>4. /\ \A topic \in answer.denied : topic \in Topics(intent) /\ evidence[topic] = {}
        /\ intent = "timeline" /\ answer.denied # {} => answer.denied = Topics(intent)
        /\ intent # "timeline" =>
               \A topic \in Topics(intent) : evidence[topic] = {} => topic \in answer.denied
    BY <2>2
  <2> QED
    BY <2>2, <2>3, <2>4 DEF evidence, answer, intent
<1> QED
  BY <1>1, <1>2

\* Evidence of a component is evidence of the machine, and evidence of a part of a window
\* is evidence of the window.
LEMMA EvidenceIsOfTheWindow ==
    ASSUME AnswersInv, NEW component \in AskComponents, NEW w \in AskedSpans, NEW span \in AskedSpans,
           w.from <= span.from, span.to <= w.to
    PROVE  /\ WindowEvidence(component, span).incidents \subseteq WindowEvidence(None, w).incidents
           /\ WindowEvidence(component, span).sessions \subseteq WindowEvidence(None, w).sessions
<1>1. /\ w.from \in Nat /\ w.to \in Nat /\ span.from \in Nat /\ span.to \in Nat
  BY DEF AskedSpans, Spans, AnswersInv
<1>2. Concerns(None) = IncidentParts
  BY DEF Concerns
<1>3. ASSUME NEW r, r.from \in Nat, r.to \in Nat, r.from <= span.to, r.to >= span.from
      PROVE  r.from <= w.to /\ r.to >= w.from
  BY <1>1, <1>3
<1>4. ASSUME NEW t \in WindowEvidence(component, span).incidents
      PROVE  t \in WindowEvidence(None, w).incidents
  <2>1. t \in troubles /\ t.to # None /\ t.from <= span.to /\ t.to >= span.from
    BY <1>4 DEF WindowEvidence, Overlapping
  <2>2. t.part \in IncidentParts /\ t.from \in Nat /\ t.to \in Nat
    BY <2>1 DEF AnswersInv
  <2>3. t.from <= w.to /\ t.to >= w.from
    BY <1>3, <2>1, <2>2
  <2> QED
    BY <1>2, <2>1, <2>2, <2>3 DEF WindowEvidence, Overlapping
<1>5. ASSUME NEW s \in WindowEvidence(component, span).sessions
      PROVE  s \in WindowEvidence(None, w).sessions
  <2>1. s \in plays /\ s.from <= span.to /\ s.to >= span.from
    BY <1>5 DEF WindowEvidence, Overlapping
  <2>2. s.from \in Nat /\ s.to \in Nat
    BY <2>1 DEF AnswersInv
  <2>3. s.from <= w.to /\ s.to >= w.from
    BY <1>3, <2>1, <2>2
  <2> QED
    BY <2>1, <2>3 DEF WindowEvidence, Overlapping
<1> QED
  BY <1>4, <1>5

\* What is asked about, but for a timeline, is incidents and sessions.
LEMMA TopicsAsked ==
    ASSUME NEW intent, intent # "timeline"
    PROVE  Topics(intent) \subseteq {"incidents", "sessions"}
<1>1. CASE intent = "explain"
  BY <1>1 DEF Topics
<1>2. CASE intent \in {"incidents", "status"}
  BY <1>2 DEF Topics
<1>3. CASE intent = "workloads"
  BY <1>3 DEF Topics
<1>4. CASE intent \notin {"explain", "incidents", "status", "workloads"}
  BY <1>4 DEF Topics
<1> QED
  BY <1>1, <1>2, <1>3, <1>4

\* Answers are true of what was fetched, whatever is asked whenever.
LEMMA AnswersHold == AnswersInv => AnswersAreTrue
<1> SUFFICES ASSUME AnswersInv, NEW w \in AskedSpans, NEW component \in AskComponents,
                    NEW words \in Wordings
             PROVE  LET answer == Answer(words, component, w)
                    IN /\ "incidents" \in answer.denied =>
                              \A t \in troubles :
                                  t.part \in Concerns(component) /\ t.from <= w.to =>
                                      t.to = None \/ t.to < w.from
                       /\ "sessions" \in answer.denied =>
                              \A s \in plays : s.to < w.from \/ w.to < s.from
                       /\ answer.intent # None /\ ~answer.poor /\ answer.gaps = {} =>
                              /\ Cardinality(bucketed \cap (w.from .. w.to)) * 100
                                     >= Covered * (w.to - w.from)
                              /\ \A m \in w.from .. w.to - LongEnough :
                                     bucketed \cap (m .. m + LongEnough - 1) # {}
                       /\ answer.intent = "timeline" /\ answer.denied # {} =>
                              \A span \in AskedSpans, other \in Wordings :
                                  w.from <= span.from /\ span.to <= w.to =>
                                      LET told == Answer(other, component, span)
                                      IN told.intent # "timeline" => told.denied = Topics(told.intent)
  BY DEF AnswersAreTrue
<1> DEFINE intent == Intent(words)
           asked == IF intent = "timeline" THEN None ELSE component
           evidence == WindowEvidence(asked, w)
           answer == Answer(words, component, w)
<1>1. /\ answer.intent = intent
      /\ \A topic \in answer.denied : topic \in Topics(intent) /\ evidence[topic] = {}
      /\ intent = "timeline" /\ answer.denied # {} => answer.denied = Topics(intent)
      /\ intent # None /\ ~answer.poor => ~(evidence.coverage < Covered)
      /\ intent # None => answer.gaps = Named(evidence.gaps)
  BY AnswerSays
<1>2. /\ evidence.incidents = Overlapping({t \in troubles : t.to # None /\ t.part \in Concerns(asked)}, w)
      /\ evidence.sessions = Overlapping(plays, w)
      /\ evidence.gaps = UnseenSpans(w)
      /\ evidence.coverage = CoverageOf(w)
  BY DEF WindowEvidence
<1>3. w.from \in Nat /\ w.to \in Nat
  BY DEF AskedSpans, Spans, AnswersInv
<1> HIDE DEF answer, evidence
<1>4. ASSUME "incidents" \in answer.denied, NEW t \in troubles,
             t.part \in Concerns(component), t.from <= w.to, t.to # None
      PROVE  t.to < w.from
  <2>1. t.part \in IncidentParts /\ t.to \in Nat
    BY <1>4 DEF AnswersInv
  <2>2. t.part \in Concerns(asked)
    BY <1>4, <2>1 DEF Concerns
  <2>3. evidence.incidents = {}
    BY <1>1, <1>4
  <2>4. ~(t.to >= w.from)
    BY <1>2, <1>4, <2>2, <2>3 DEF Overlapping
  <2> QED
    BY <1>3, <2>1, <2>4
<1>5. ASSUME "sessions" \in answer.denied, NEW s \in plays
      PROVE  s.to < w.from \/ w.to < s.from
  <2>1. s.from \in Nat /\ s.to \in Nat
    BY DEF AnswersInv
  <2>2. evidence.sessions = {}
    BY <1>1, <1>5
  <2>3. ~(s.from <= w.to /\ s.to >= w.from)
    BY <1>2, <2>2 DEF Overlapping
  <2> QED
    BY <1>3, <2>1, <2>3
<1>6. ASSUME answer.intent # None, ~answer.poor, answer.gaps = {}
      PROVE  /\ Cardinality(bucketed \cap (w.from .. w.to)) * 100 >= Covered * (w.to - w.from)
             /\ \A m \in w.from .. w.to - LongEnough : bucketed \cap (m .. m + LongEnough - 1) # {}
  <2>1. ~(CoverageOf(w) < Covered)
    BY <1>1, <1>2, <1>6
  <2>2. Named(UnseenSpans(w)) = {}
    BY <1>1, <1>2, <1>6
  <2>3. \A g \in UnseenSpans(w) : g.from \in Nat
    BY DEF UnseenSpans, AskedSpans, Spans, AnswersInv
  <2>4. UnseenSpans(w) = {}
    BY <2>2, <2>3, FirstIsNamed
  <2> QED
    BY <2>1, <2>4, WatchedEnough, NothingUnseen
<1>7. ASSUME answer.intent = "timeline", answer.denied # {}, NEW span \in AskedSpans,
             NEW other \in Wordings, w.from <= span.from, span.to <= w.to,
             Answer(other, component, span).intent # "timeline"
      PROVE  Answer(other, component, span).denied = Topics(Answer(other, component, span).intent)
  <2> DEFINE told == Answer(other, component, span)
             found == WindowEvidence(component, span)
  <2>1. /\ told.intent = Intent(other)
        /\ Intent(other) # "timeline"
        /\ \A topic \in told.denied : topic \in Topics(Intent(other))
        /\ \A topic \in Topics(Intent(other)) : found[topic] = {} => topic \in told.denied
    BY <1>7, AnswerSays
  <2>2. intent = "timeline" /\ asked = None /\ answer.denied = {"incidents", "sessions", "gaps"}
    BY <1>1, <1>7 DEF Topics
  <2>3. evidence.incidents = {} /\ evidence.sessions = {}
    BY <1>1, <2>2
  <2>4. found.incidents = {} /\ found.sessions = {}
    <3>1. WindowEvidence(None, w).incidents = {} /\ WindowEvidence(None, w).sessions = {}
      BY <2>2, <2>3 DEF evidence
    <3> QED
      BY <1>7, <3>1, EvidenceIsOfTheWindow
  <2>5. Topics(Intent(other)) \subseteq {"incidents", "sessions"}
    BY <2>1, TopicsAsked
  <2> HIDE DEF told, found
  <2>6. told.denied = Topics(Intent(other))
    BY <2>1, <2>4, <2>5
  <2> QED
    BY <2>1, <2>6 DEF told
<1> QED
  BY <1>4, <1>5, <1>6, <1>7 DEF answer

-----------------------------------------------------------------------------
\* THE EVENT LOG

LogLine == [n : Nat, at : Nat, pipe : BOOLEAN]

\* Lines whose numbers increase, the last of them at most the given one.
LinesInOrder(lines, last) ==
    /\ lines \in Seq(LogLine)
    /\ \A i \in 1 .. Len(lines) : lines[i].n <= last
    /\ \A i, j \in 1 .. Len(lines) : i < j => lines[i].n < lines[j].n

\* Events, the newest first.
InPanelOrder(list, last) ==
    /\ list \in Seq(LogLine)
    /\ Len(list) <= MaxEvents
    /\ \A i \in 1 .. Len(list) : list[i].n <= last
    /\ \A i, j \in 1 .. Len(list) : i < j => list[i].n > list[j].n

\* What the panel is to show of the file: not what the pipe wrote after the start.
IsShown(e, start) == e.pipe => e.n <= start

\* The events are the newest of the lines to be shown, and fill the deque if they are not all.
AreNewest(list, lines, start) ==
    /\ \A i \in 1 .. Len(list) : \E k \in 1 .. Len(lines) : list[i] = lines[k] /\ IsShown(lines[k], start)
    /\ \A k \in 1 .. Len(lines) :
           IsShown(lines[k], start) =>
               \/ \E i \in 1 .. Len(list) : list[i] = lines[k]
               \/ Len(list) = MaxEvents /\ \A i \in 1 .. Len(list) : lines[k].n < list[i].n

LogInv ==
    /\ logDay \in Nat /\ logged \in Nat /\ loaded \in 0 .. logged
    /\ LinesInOrder(logFile, logged)
    /\ InPanelOrder(events, logged)
    /\ logRows = First(MaxRows, events)
    /\ logEmpty => events = <<>>
    /\ ~running => events = <<>> /\ ~logEmpty
    /\ running /\ ~adrift => AreNewest(events, logFile, loaded)

\* The first of a sequence.
LEMMA FirstIs ==
    ASSUME NEW n \in Nat, NEW S, NEW s \in Seq(S)
    PROVE  /\ First(n, s) \in Seq(S)
           /\ Len(First(n, s)) = IF Len(s) < n THEN Len(s) ELSE n
           /\ \A i \in 1 .. Len(First(n, s)) : First(n, s)[i] = s[i]
<1> DEFINE m == IF Len(s) < n THEN Len(s) ELSE n
<1>1. Len(s) \in Nat
  BY LenProperties
<1>2. m \in 0 .. Len(s)
  BY <1>1
<1>3. First(n, s) = SubSeq(s, 1, m)
  BY DEF First
<1> HIDE DEF m
<1>4. \A i \in 1 .. m : s[i] \in S
  BY <1>1, <1>2, ElementOfSeq
<1>5. /\ SubSeq(s, 1, m) \in Seq(S)
      /\ Len(SubSeq(s, 1, m)) = m
      /\ \A i \in 1 .. m : SubSeq(s, 1, m)[i] = s[i]
  BY <1>1, <1>2, <1>4, SubSeqProperties
<1> QED
  BY <1>3, <1>5 DEF m

LEMMA FirstOfNone == ASSUME NEW n \in Nat PROVE First(n, <<>>) = <<>>
<1>1. <<>> \in Seq({}) /\ Len(<<>>) = 0
  BY EmptySeq
<1>2. /\ First(n, <<>>) \in Seq({})
      /\ Len(First(n, <<>>)) = IF Len(<<>>) < n THEN Len(<<>>) ELSE n
  BY <1>1, FirstIs
<1>3. Len(First(n, <<>>)) = 0
  BY <1>1, <1>2
<1> QED
  BY <1>2, <1>3, EmptySeq

\* One more in front.
LEMMA InFront ==
    ASSUME NEW S, NEW e \in S, NEW s \in Seq(S)
    PROVE  /\ <<e>> \o s \in Seq(S)
           /\ Len(<<e>> \o s) = Len(s) + 1
           /\ (<<e>> \o s)[1] = e
           /\ \A i \in 1 .. Len(s) : (<<e>> \o s)[i + 1] = s[i]
<1>1. <<e>> \in Seq(S) /\ Len(<<e>>) = 1 /\ <<e>>[1] = e
  OBVIOUS
<1>2. Len(s) \in Nat
  BY LenProperties
<1>3. /\ <<e>> \o s \in Seq(S)
      /\ Len(<<e>> \o s) = Len(<<e>>) + Len(s)
      /\ \A i \in 1 .. Len(<<e>>) + Len(s) :
             (<<e>> \o s)[i] = IF i <= Len(<<e>>) THEN <<e>>[i] ELSE s[i - Len(<<e>>)]
  BY <1>1, ConcatProperties
<1>4. (<<e>> \o s)[1] = e
  BY <1>1, <1>2, <1>3
<1>5. ASSUME NEW i \in 1 .. Len(s) PROVE (<<e>> \o s)[i + 1] = s[i]
  <2>1. i + 1 \in 1 .. 1 + Len(s) /\ ~(i + 1 <= 1) /\ (i + 1) - 1 = i
    BY <1>2
  <2> QED
    BY <1>1, <1>3, <2>1
<1> QED
  BY <1>1, <1>2, <1>3, <1>4, <1>5

\* The rows with one more on top are those of the events with one more.
LEMMA RowsFollow ==
    ASSUME NEW S, NEW e \in S, NEW s \in Seq(S)
    PROVE  First(MaxRows, <<e>> \o First(MaxRows, s)) = First(MaxRows, First(MaxEvents, <<e>> \o s))
<1>1. MaxRows \in Nat /\ MaxEvents \in Nat /\ MaxRows <= MaxEvents
  BY LogConstants
<1> DEFINE a == First(MaxRows, s)
           b == <<e>> \o a
           c == <<e>> \o s
           d == First(MaxEvents, c)
           x == First(MaxRows, b)
           y == First(MaxRows, d)
<1>2. /\ a \in Seq(S) /\ Len(a) = IF Len(s) < MaxRows THEN Len(s) ELSE MaxRows
      /\ \A i \in 1 .. Len(a) : a[i] = s[i]
  BY <1>1, FirstIs
<1> HIDE DEF a
<1>3. /\ b \in Seq(S) /\ Len(b) = Len(a) + 1 /\ b[1] = e
      /\ \A i \in 1 .. Len(a) : b[i + 1] = a[i]
  BY <1>2, InFront
<1>4. /\ c \in Seq(S) /\ Len(c) = Len(s) + 1 /\ c[1] = e
      /\ \A i \in 1 .. Len(s) : c[i + 1] = s[i]
  BY InFront
<1> HIDE DEF b, c
<1>5. /\ d \in Seq(S) /\ Len(d) = IF Len(c) < MaxEvents THEN Len(c) ELSE MaxEvents
      /\ \A i \in 1 .. Len(d) : d[i] = c[i]
  BY <1>1, <1>4, FirstIs
<1> HIDE DEF d
<1>6. /\ x \in Seq(S) /\ Len(x) = IF Len(b) < MaxRows THEN Len(b) ELSE MaxRows
      /\ \A i \in 1 .. Len(x) : x[i] = b[i]
  BY <1>1, <1>3, FirstIs
<1>7. /\ y \in Seq(S) /\ Len(y) = IF Len(d) < MaxRows THEN Len(d) ELSE MaxRows
      /\ \A i \in 1 .. Len(y) : y[i] = d[i]
  BY <1>1, <1>5, FirstIs
<1> HIDE DEF x, y
<1>8. Len(s) \in Nat
  BY LenProperties
<1>9. Len(x) = Len(y) /\ Len(x) <= Len(b) /\ Len(y) <= Len(d) /\ Len(d) <= Len(c)
  BY <1>1, <1>2, <1>3, <1>4, <1>5, <1>6, <1>7, <1>8
<1>10. ASSUME NEW i \in 1 .. Len(x) PROVE x[i] = y[i]
  <2>1. /\ i \in Nat /\ i >= 1 /\ i <= Len(b) /\ i <= Len(d) /\ i <= Len(c)
        /\ Len(a) \in Nat /\ Len(a) <= Len(s)
    BY <1>1, <1>2, <1>3, <1>4, <1>5, <1>6, <1>7, <1>8, <1>9
  <2>2. x[i] = b[i] /\ y[i] = c[i]
    BY <1>5, <1>6, <1>7, <1>9, <2>1
  <2>3. CASE i = 1
    BY <1>3, <1>4, <2>2, <2>3
  <2>4. CASE i # 1
    <3>1. PICK k \in 1 .. Len(a) : i = k + 1
      <4>1. i - 1 \in 1 .. Len(a) /\ i = (i - 1) + 1
        BY <1>3, <2>1, <2>4
      <4> QED
        BY <4>1
    <3>2. k \in 1 .. Len(s)
      BY <1>8, <2>1
    <3> QED
      BY <1>2, <1>3, <1>4, <2>2, <3>1, <3>2
  <2> QED
    BY <2>3, <2>4
<1>11. x = y
  BY <1>6, <1>7, <1>9, <1>10, SeqEqual
<1> QED
  BY <1>11 DEF x, y, b, d, c, a

LEMMA LaterStillInOrder ==
    ASSUME NEW last \in Nat, NEW next \in Nat, last <= next
    PROVE  /\ \A lines : LinesInOrder(lines, last) => LinesInOrder(lines, next)
           /\ \A list : InPanelOrder(list, last) => InPanelOrder(list, next)
<1>1. ASSUME NEW e \in LogLine, e.n <= last PROVE e.n <= next
  BY <1>1 DEF LogLine
<1>2. ASSUME NEW lines, LinesInOrder(lines, last) PROVE LinesInOrder(lines, next)
  <2>1. ASSUME NEW i \in 1 .. Len(lines) PROVE lines[i].n <= next
    <3>1. lines[i] \in LogLine
      BY <1>2, ElementOfSeq DEF LinesInOrder
    <3> QED
      BY <1>1, <1>2, <3>1 DEF LinesInOrder
  <2> QED
    BY <1>2, <2>1 DEF LinesInOrder
<1>3. ASSUME NEW list, InPanelOrder(list, last) PROVE InPanelOrder(list, next)
  <2>1. ASSUME NEW i \in 1 .. Len(list) PROVE list[i].n <= next
    <3>1. list[i] \in LogLine
      BY <1>3, ElementOfSeq DEF InPanelOrder
    <3> QED
      BY <1>1, <1>3, <3>1 DEF InPanelOrder
  <2> QED
    BY <1>3, <2>1 DEF InPanelOrder
<1> QED
  BY <1>2, <1>3

\* A line that is appended.
LEMMA Appended ==
    ASSUME NEW last \in Nat, NEW lines, LinesInOrder(lines, last), NEW e \in LogLine, e.n = last + 1
    PROVE  /\ LinesInOrder(Append(lines, e), last + 1)
           /\ Len(Append(lines, e)) = Len(lines) + 1
           /\ \A k \in 1 .. Len(lines) : Append(lines, e)[k] = lines[k]
           /\ Append(lines, e)[Len(lines) + 1] = e
<1> DEFINE longer == Append(lines, e)
<1>1. lines \in Seq(LogLine) /\ Len(lines) \in Nat
  BY LenProperties DEF LinesInOrder
<1>2. /\ longer \in Seq(LogLine)
      /\ Len(longer) = Len(lines) + 1
      /\ \A k \in 1 .. Len(lines) : longer[k] = lines[k]
      /\ longer[Len(lines) + 1] = e
  BY <1>1, AppendProperties
<1> HIDE DEF longer
<1>3. ASSUME NEW k \in 1 .. Len(lines) PROVE lines[k].n \in Nat /\ lines[k].n <= last
  <2>1. lines[k] \in LogLine
    BY <1>1, ElementOfSeq
  <2> QED
    BY <2>1 DEF LogLine, LinesInOrder
<1>4. ASSUME NEW i \in 1 .. Len(longer) PROVE longer[i].n <= last + 1
  <2>1. i \in 1 .. Len(lines) \/ i = Len(lines) + 1
    BY <1>1, <1>2
  <2>2. CASE i \in 1 .. Len(lines)
    BY <1>2, <1>3, <2>2
  <2> QED
    BY <1>2, <2>1, <2>2
<1>5. ASSUME NEW i \in 1 .. Len(longer), NEW j \in 1 .. Len(longer), i < j
      PROVE  longer[i].n < longer[j].n
  <2>1. i \in 1 .. Len(lines)
    BY <1>1, <1>2, <1>5
  <2>2. j \in 1 .. Len(lines) \/ j = Len(lines) + 1
    BY <1>1, <1>2
  <2>3. CASE j \in 1 .. Len(lines)
    BY <1>2, <1>5, <2>1, <2>3 DEF LinesInOrder
  <2>4. CASE j = Len(lines) + 1
    BY <1>2, <1>3, <2>1, <2>4
  <2> QED
    BY <2>2, <2>3, <2>4
<1>6. LinesInOrder(longer, last + 1)
  BY <1>2, <1>4, <1>5 DEF LinesInOrder
<1> QED
  BY <1>2, <1>6 DEF longer

\* An event that is pushed onto the deque.
LEMMA PushedInFront ==
    ASSUME NEW last \in Nat, NEW list, InPanelOrder(list, last), NEW e \in LogLine, e.n = last + 1
    PROVE  /\ InPanelOrder(Pushed(e, list), last + 1)
           /\ Len(Pushed(e, list)) = IF Len(list) < MaxEvents THEN Len(list) + 1 ELSE MaxEvents
           /\ Len(Pushed(e, list)) > 0 => Pushed(e, list)[1] = e
           /\ \A i \in 1 .. Len(list) :
                  i + 1 <= Len(Pushed(e, list)) => Pushed(e, list)[i + 1] = list[i]
<1> DEFINE c == <<e>> \o list
           new == Pushed(e, list)
<1>1. list \in Seq(LogLine) /\ Len(list) \in Nat /\ MaxEvents \in Nat /\ Len(list) <= MaxEvents
  BY LogConstants, LenProperties DEF InPanelOrder
<1>2. /\ c \in Seq(LogLine) /\ Len(c) = Len(list) + 1 /\ c[1] = e
      /\ \A i \in 1 .. Len(list) : c[i + 1] = list[i]
  BY <1>1, InFront
<1> HIDE DEF c
<1>3. new = First(MaxEvents, c)
  BY DEF Pushed, c
<1> HIDE DEF new
<1>4. /\ new \in Seq(LogLine) /\ Len(new) = IF Len(c) < MaxEvents THEN Len(c) ELSE MaxEvents
      /\ \A i \in 1 .. Len(new) : new[i] = c[i]
  BY <1>1, <1>2, <1>3, FirstIs
<1>5. /\ Len(new) = IF Len(list) < MaxEvents THEN Len(list) + 1 ELSE MaxEvents
      /\ Len(new) \in Nat /\ Len(new) <= MaxEvents /\ Len(new) <= Len(list) + 1
  BY <1>1, <1>2, <1>4
<1>6. Len(new) > 0 => new[1] = e
  BY <1>2, <1>4, <1>5
<1>7. ASSUME NEW i \in 1 .. Len(list), i + 1 <= Len(new) PROVE new[i + 1] = list[i]
  <2>1. i + 1 \in 1 .. Len(new)
    BY <1>1, <1>5, <1>7
  <2> QED
    BY <1>2, <1>4, <2>1
<1>8. ASSUME NEW i \in 1 .. Len(list) PROVE list[i].n \in Nat /\ list[i].n <= last
  <2>1. list[i] \in LogLine
    BY <1>1, ElementOfSeq
  <2> QED
    BY <2>1 DEF LogLine, InPanelOrder
<1>9. ASSUME NEW i \in 1 .. Len(new)
      PROVE  \/ i = 1 /\ new[i] = e
             \/ i - 1 \in 1 .. Len(list) /\ new[i] = list[i - 1]
  <2>1. CASE i = 1
    BY <1>2, <1>4, <2>1
  <2>2. CASE i # 1
    <3>1. i - 1 \in 1 .. Len(list) /\ (i - 1) + 1 = i /\ i <= Len(new)
      BY <1>1, <1>5, <2>2
    <3>2. new[(i - 1) + 1] = list[i - 1]
      BY <1>7, <3>1
    <3> QED
      BY <3>1, <3>2
  <2> QED
    BY <2>1, <2>2
<1>10. ASSUME NEW i \in 1 .. Len(new) PROVE new[i].n <= last + 1
  BY <1>8, <1>9
<1>11. ASSUME NEW i \in 1 .. Len(new), NEW j \in 1 .. Len(new), i < j PROVE new[i].n > new[j].n
  <2>1. j - 1 \in 1 .. Len(list) /\ new[j] = list[j - 1]
    BY <1>5, <1>9, <1>11
  <2>2. CASE i = 1 /\ new[i] = e
    BY <1>8, <2>1, <2>2
  <2>3. CASE i - 1 \in 1 .. Len(list) /\ new[i] = list[i - 1]
    <3>1. i - 1 < j - 1
      BY <1>5, <1>11
    <3> QED
      BY <2>1, <2>3, <3>1 DEF InPanelOrder
  <2> QED
    BY <1>9, <2>2, <2>3
<1>12. InPanelOrder(new, last + 1)
  BY <1>4, <1>5, <1>10, <1>11 DEF InPanelOrder
<1> QED
  BY <1>5, <1>6, <1>7, <1>12 DEF new

\* What has room for one more, or none for any, is empty only if there is none.
LEMMA AtLeastOne ==
    ASSUME NEW a \in Nat, NEW b \in Nat, NEW c, c = (IF a < b THEN a + 1 ELSE b), c = 0
    PROVE  b = 0
OBVIOUS

\* With a line that is written and shown, the events are again the newest.
LEMMA PushedIsNewest ==
    ASSUME NEW last \in Nat, NEW lines, LinesInOrder(lines, last), NEW list, InPanelOrder(list, last),
           NEW start, AreNewest(list, lines, start),
           NEW e \in LogLine, e.n = last + 1, IsShown(e, start)
    PROVE  AreNewest(Pushed(e, list), Append(lines, e), start)
<1> DEFINE new == Pushed(e, list)
           longer == Append(lines, e)
<1>1. /\ Len(list) \in Nat /\ Len(lines) \in Nat /\ MaxEvents \in Nat /\ Len(list) <= MaxEvents
  BY LogConstants, LenProperties DEF InPanelOrder, LinesInOrder
<1>2. /\ Len(longer) = Len(lines) + 1
      /\ \A k \in 1 .. Len(lines) : longer[k] = lines[k]
      /\ longer[Len(lines) + 1] = e
  BY Appended
<1>3. /\ InPanelOrder(new, last + 1)
      /\ Len(new) = IF Len(list) < MaxEvents THEN Len(list) + 1 ELSE MaxEvents
      /\ Len(new) > 0 => new[1] = e
      /\ \A i \in 1 .. Len(list) : i + 1 <= Len(new) => new[i + 1] = list[i]
  BY PushedInFront
<1> HIDE DEF new, longer
<1>4. Len(new) \in Nat /\ Len(new) <= Len(list) + 1
  BY <1>1, <1>3
<1>5. \A k \in 1 .. Len(lines) : k \in 1 .. Len(longer) /\ k # Len(lines) + 1
  BY <1>1, <1>2
<1>6. Len(lines) + 1 \in 1 .. Len(longer)
  BY <1>1, <1>2
<1>7. ASSUME NEW i \in 1 .. Len(new)
      PROVE  \E k \in 1 .. Len(longer) : new[i] = longer[k] /\ IsShown(longer[k], start)
  <2>1. CASE i = 1
    BY <1>2, <1>3, <1>4, <1>6, <2>1
  <2>2. CASE i # 1
    <3>1. i - 1 \in 1 .. Len(list) /\ (i - 1) + 1 = i /\ i <= Len(new)
      BY <1>1, <1>4, <2>2
    <3>2. new[i] = list[i - 1]
      BY <1>3, <3>1
    <3>3. PICK k \in 1 .. Len(lines) : list[i - 1] = lines[k] /\ IsShown(lines[k], start)
      BY <3>1 DEF AreNewest
    <3> QED
      BY <1>2, <1>5, <3>2, <3>3
  <2> QED
    BY <2>1, <2>2
<1>8. ASSUME NEW k \in 1 .. Len(longer), IsShown(longer[k], start),
             ~ \E i \in 1 .. Len(new) : new[i] = longer[k]
      PROVE  Len(new) = MaxEvents /\ \A i \in 1 .. Len(new) : longer[k].n < new[i].n
  <2>1. CASE k = Len(lines) + 1
    <3>1. Len(new) = 0
      BY <1>2, <1>3, <1>4, <1>8, <2>1
    <3>2. MaxEvents = 0
      <4>1. Len(new) = IF Len(list) < MaxEvents THEN Len(list) + 1 ELSE MaxEvents
        BY <1>3
      <4>2. Len(list) \in Nat /\ MaxEvents \in Nat
        BY <1>1
      <4> QED
        BY <3>1, <4>1, <4>2, AtLeastOne
    <3>3. 1 .. Len(new) = {}
      BY <3>1
    <3> QED
      BY <3>1, <3>2, <3>3
  <2>2. CASE k # Len(lines) + 1
    <3>1. k \in 1 .. Len(lines) /\ longer[k] = lines[k]
      BY <1>1, <1>2, <2>2
    <3>2. lines[k].n \in Nat /\ lines[k].n <= last
      <4>1. lines[k] \in LogLine
        BY <3>1, ElementOfSeq DEF LinesInOrder
      <4> QED
        BY <3>1, <4>1 DEF LinesInOrder, LogLine
    <3>3. CASE \E i \in 1 .. Len(list) : list[i] = lines[k]
      <4>1. PICK i \in 1 .. Len(list) : list[i] = lines[k]
        BY <3>3
      <4>2. ~(i + 1 <= Len(new))
        <5> SUFFICES ASSUME i + 1 <= Len(new) PROVE FALSE
          OBVIOUS
        <5>1. i + 1 \in 1 .. Len(new)
          BY <1>1, <1>4
        <5> QED
          BY <1>3, <1>8, <3>1, <4>1, <5>1
      <4>3. i = Len(list) /\ Len(new) = Len(list) /\ Len(new) = MaxEvents
        BY <1>1, <1>3, <1>4, <4>2
      <4>4. ASSUME NEW j \in 1 .. Len(new) PROVE longer[k].n < new[j].n
        <5>1. CASE j = 1
          BY <1>3, <3>1, <3>2, <5>1
        <5>2. CASE j # 1
          <6>1. j - 1 \in 1 .. Len(list) /\ (j - 1) + 1 = j /\ j <= Len(new) /\ j - 1 < i
            BY <1>1, <4>3, <5>2
          <6>2. new[j] = list[j - 1]
            BY <1>3, <6>1
          <6>3. list[j - 1].n > list[i].n
            BY <6>1 DEF InPanelOrder
          <6>4. list[j - 1].n \in Nat /\ list[i].n \in Nat
            <7>1. list[j - 1] \in LogLine /\ list[i] \in LogLine
              BY <6>1, ElementOfSeq DEF InPanelOrder
            <7> QED
              BY <7>1 DEF LogLine
          <6> QED
            BY <3>1, <4>1, <6>2, <6>3, <6>4
        <5> QED
          BY <5>1, <5>2
      <4> QED
        BY <4>3, <4>4
    <3>4. CASE ~ \E i \in 1 .. Len(list) : list[i] = lines[k]
      <4>1. Len(list) = MaxEvents /\ \A i \in 1 .. Len(list) : lines[k].n < list[i].n
        BY <1>8, <3>1, <3>4 DEF AreNewest
      <4>2. Len(new) = MaxEvents
        BY <1>1, <1>3, <4>1
      <4>3. ASSUME NEW j \in 1 .. Len(new) PROVE longer[k].n < new[j].n
        <5>1. CASE j = 1
          BY <1>3, <3>1, <3>2, <5>1
        <5>2. CASE j # 1
          <6>1. j - 1 \in 1 .. Len(list) /\ (j - 1) + 1 = j /\ j <= Len(new)
            BY <1>1, <4>1, <4>2, <5>2
          <6> QED
            BY <1>3, <3>1, <4>1, <6>1
        <5> QED
          BY <5>1, <5>2
      <4> QED
        BY <4>2, <4>3
    <3> QED
      BY <3>3, <3>4
  <2> QED
    BY <2>1, <2>2
<1> QED
  BY <1>7, <1>8 DEF AreNewest, new, longer

\* A line that is not shown changes nothing of that.
LEMMA UnshownLine ==
    ASSUME NEW last \in Nat, NEW lines, LinesInOrder(lines, last), NEW list,
           NEW start, AreNewest(list, lines, start),
           NEW e \in LogLine, e.n = last + 1, ~IsShown(e, start)
    PROVE  AreNewest(list, Append(lines, e), start)
<1> DEFINE longer == Append(lines, e)
<1>1. Len(lines) \in Nat
  BY LenProperties DEF LinesInOrder
<1>2. /\ Len(longer) = Len(lines) + 1
      /\ \A k \in 1 .. Len(lines) : longer[k] = lines[k]
      /\ longer[Len(lines) + 1] = e
  BY Appended
<1> HIDE DEF longer
<1>3. \A k \in 1 .. Len(lines) : k \in 1 .. Len(longer)
  BY <1>1, <1>2
<1>4. \A k \in 1 .. Len(longer) : k \in 1 .. Len(lines) \/ k = Len(lines) + 1
  BY <1>1, <1>2
<1>5. ASSUME NEW i \in 1 .. Len(list)
      PROVE  \E k \in 1 .. Len(longer) : list[i] = longer[k] /\ IsShown(longer[k], start)
  <2>1. PICK k \in 1 .. Len(lines) : list[i] = lines[k] /\ IsShown(lines[k], start)
    BY DEF AreNewest
  <2> QED
    BY <1>2, <1>3, <2>1
<1>6. ASSUME NEW k \in 1 .. Len(longer), IsShown(longer[k], start)
      PROVE  \/ \E i \in 1 .. Len(list) : list[i] = longer[k]
             \/ Len(list) = MaxEvents /\ \A i \in 1 .. Len(list) : longer[k].n < list[i].n
  <2>1. k \in 1 .. Len(lines) /\ longer[k] = lines[k]
    BY <1>2, <1>4, <1>6
  <2> QED
    BY <1>6, <2>1 DEF AreNewest
<1> QED
  BY <1>5, <1>6 DEF AreNewest, longer

\* What is left of the file.
LEMMA KeptInOrder ==
    ASSUME NEW last \in Nat, NEW lines, LinesInOrder(lines, last), NEW n \in 0 .. Len(lines)
    PROVE  LinesInOrder(SubSeq(lines, n + 1, Len(lines)), last)
<1> DEFINE kept == SubSeq(lines, n + 1, Len(lines))
<1>1. Len(lines) \in Nat /\ n \in Nat /\ n <= Len(lines)
  BY LenProperties DEF LinesInOrder
<1>2. \A i \in n + 1 .. Len(lines) : lines[i] \in LogLine
  BY <1>1, ElementOfSeq DEF LinesInOrder
<1>3. n + 1 \in Int /\ Len(lines) \in Int
  BY <1>1
<1>4. /\ kept \in Seq(LogLine)
      /\ Len(kept) = IF n + 1 <= Len(lines) THEN Len(lines) - (n + 1) + 1 ELSE 0
      /\ \A i \in 1 .. Len(lines) - (n + 1) + 1 : kept[i] = lines[(n + 1) + i - 1]
  BY <1>2, <1>3, SubSeqProperties
<1> HIDE DEF kept
<1>5. Len(kept) = Len(lines) - n
  BY <1>1, <1>4
<1>6. \A i \in 1 .. Len(kept) : i + n \in 1 .. Len(lines) /\ kept[i] = lines[i + n]
  <2> SUFFICES ASSUME NEW i \in 1 .. Len(kept)
               PROVE  i + n \in 1 .. Len(lines) /\ kept[i] = lines[i + n]
    OBVIOUS
  <2>1. i + n \in 1 .. Len(lines) /\ i \in 1 .. Len(lines) - (n + 1) + 1 /\ (n + 1) + i - 1 = i + n
    BY <1>1, <1>5
  <2> QED
    BY <1>4, <2>1
<1>7. \A i \in 1 .. Len(kept) : kept[i].n <= last
  BY <1>6 DEF LinesInOrder
<1>8. ASSUME NEW i \in 1 .. Len(kept), NEW j \in 1 .. Len(kept), i < j
      PROVE  kept[i].n < kept[j].n
  <2>1. i + n < j + n
    BY <1>1, <1>5, <1>8
  <2> QED
    BY <1>6, <2>1 DEF LinesInOrder
<1> QED
  BY <1>4, <1>7, <1>8 DEF LinesInOrder, kept

\* What is pushed line by line are the newest, and all that was in the file is shown.
LEMMA NewestAreNewest ==
    ASSUME NEW last \in Nat, NEW lines, LinesInOrder(lines, last)
    PROVE  InPanelOrder(NewestLines(lines), last) /\ AreNewest(NewestLines(lines), lines, last)
<1> DEFINE turned == [i \in 1 .. Len(lines) |-> lines[Len(lines) + 1 - i]]
           new == NewestLines(lines)
<1>1. Len(lines) \in Nat /\ MaxEvents \in Nat
  BY LogConstants, LenProperties DEF LinesInOrder
<1>2. \A i \in 1 .. Len(lines) : Len(lines) + 1 - i \in 1 .. Len(lines)
  BY <1>1
<1>3. \A i \in 1 .. Len(lines) : lines[i] \in LogLine
  BY ElementOfSeq DEF LinesInOrder
<1>4. turned \in Seq(LogLine) /\ Len(turned) = Len(lines)
  <2>1. turned \in [1 .. Len(lines) -> LogLine]
    BY <1>2, <1>3
  <2> HIDE DEF turned
  <2> QED
    BY <1>1, <2>1, SeqDef, LenProperties
<1>5. \A i \in 1 .. Len(lines) : turned[i] = lines[Len(lines) + 1 - i]
  OBVIOUS
<1>6. new = First(MaxEvents, turned)
  BY DEF NewestLines
<1> HIDE DEF turned, new
<1>7. /\ new \in Seq(LogLine)
      /\ Len(new) = IF Len(turned) < MaxEvents THEN Len(turned) ELSE MaxEvents
      /\ \A i \in 1 .. Len(new) : new[i] = turned[i]
  BY <1>1, <1>4, <1>6, FirstIs
<1>8. Len(new) \in Nat /\ Len(new) <= Len(lines) /\ Len(new) <= MaxEvents
  BY <1>1, <1>4, <1>7
<1>9. ASSUME NEW i \in 1 .. Len(new)
      PROVE  Len(lines) + 1 - i \in 1 .. Len(lines) /\ new[i] = lines[Len(lines) + 1 - i]
  <2>1. i \in 1 .. Len(lines)
    BY <1>1, <1>8
  <2> QED
    BY <1>2, <1>5, <1>7, <2>1
<1>10. ASSUME NEW i \in 1 .. Len(new), NEW j \in 1 .. Len(new), i < j PROVE new[i].n > new[j].n
  <2>1. Len(lines) + 1 - j < Len(lines) + 1 - i
    BY <1>1, <1>8, <1>10
  <2>2. new[j].n < new[i].n
    BY <1>9, <2>1 DEF LinesInOrder
  <2>3. new[i].n \in Nat /\ new[j].n \in Nat
    <3>1. new[i] \in LogLine /\ new[j] \in LogLine
      BY <1>3, <1>9
    <3> QED
      BY <3>1 DEF LogLine
  <2> QED
    BY <2>2, <2>3
<1>11. InPanelOrder(new, last)
  <2>1. \A i \in 1 .. Len(new) : new[i].n <= last
    BY <1>9 DEF LinesInOrder
  <2> QED
    BY <1>7, <1>8, <1>10, <2>1 DEF InPanelOrder
<1>12. \A k \in 1 .. Len(lines) : IsShown(lines[k], last)
  BY DEF LinesInOrder, IsShown
<1>13. \A i \in 1 .. Len(new) : \E k \in 1 .. Len(lines) : new[i] = lines[k] /\ IsShown(lines[k], last)
  BY <1>9, <1>12
<1>14. ASSUME NEW k \in 1 .. Len(lines), ~ \E i \in 1 .. Len(new) : new[i] = lines[k]
       PROVE  Len(new) = MaxEvents /\ \A i \in 1 .. Len(new) : lines[k].n < new[i].n
  <2>1. Len(lines) + 1 - k \in Nat /\ Len(lines) + 1 - k >= 1 /\ Len(lines) + 1 - (Len(lines) + 1 - k) = k
    BY <1>1
  <2>2. Len(lines) + 1 - k > Len(new)
    <3> SUFFICES ASSUME Len(lines) + 1 - k <= Len(new) PROVE FALSE
      BY <1>8, <2>1
    <3>1. Len(lines) + 1 - k \in 1 .. Len(new)
      BY <1>8, <2>1
    <3> QED
      BY <1>9, <1>14, <2>1, <3>1
  <2>3. Len(new) = MaxEvents
    BY <1>1, <1>4, <1>7, <1>8, <2>2
  <2>4. ASSUME NEW i \in 1 .. Len(new) PROVE lines[k].n < new[i].n
    <3>1. k < Len(lines) + 1 - i
      BY <1>1, <1>8, <2>2
    <3> QED
      BY <1>9, <3>1 DEF LinesInOrder
  <2> QED
    BY <2>3, <2>4
<1> QED
  BY <1>11, <1>13, <1>14 DEF AreNewest, new

LEMMA NoLines ==
    /\ \A upto : LinesInOrder(<<>>, upto) /\ InPanelOrder(<<>>, upto)
    /\ \A start : AreNewest(<<>>, <<>>, start)
<1>1. <<>> \in Seq(LogLine) /\ Len(<<>>) = 0 /\ 1 .. Len(<<>>) = {} /\ MaxEvents \in Nat
  BY EmptySeq, LogConstants
<1> QED
  BY <1>1 DEF LinesInOrder, InPanelOrder, AreNewest

LEMMA LogInitially == LogInit => LogInv
<1>1. MaxRows \in Nat
  BY LogConstants
<1> QED
  BY <1>1, NoLines, FirstOfNone DEF LogInit, LogInv

LEMMA LogNextInv == LogInv /\ [LogNext]_logVars => LogInv'
<1> SUFFICES ASSUME LogInv, [LogNext]_logVars PROVE LogInv'
  OBVIOUS
<1>1. /\ logDay \in Nat /\ logged \in Nat /\ loaded \in 0 .. logged
      /\ LinesInOrder(logFile, logged) /\ InPanelOrder(events, logged)
      /\ logRows = First(MaxRows, events)
  BY DEF LogInv
<1>2. MaxRows \in Nat
  BY LogConstants
<1>3. /\ logged + 1 \in Nat /\ logged <= logged + 1 /\ loaded \in 0 .. logged + 1
      /\ \A pipe \in BOOLEAN : NextEvent(pipe) \in LogLine /\ NextEvent(pipe).n = logged + 1
                               /\ NextEvent(pipe).pipe = pipe
  BY <1>1 DEF NextEvent, LogLine
<1>4. LinesInOrder(logFile, logged + 1) /\ InPanelOrder(events, logged + 1)
  BY <1>1, <1>3, LaterStillInOrder
<1>5. CASE LogEvent
  <2> DEFINE e == NextEvent(FALSE)
  <2>1. e \in LogLine /\ e.n = logged + 1 /\ IsShown(e, loaded)
    BY <1>3 DEF IsShown
  <2>2. /\ running /\ running' = running /\ loaded' = loaded /\ logDay' = logDay
        /\ logged' = logged + 1 /\ events' = Pushed(e, events) /\ logRows' = RowAdded(e)
        /\ logEmpty' = FALSE
    BY <1>5 DEF LogEvent
  <2>3. \/ logFile' = Append(logFile, e) /\ ~cutShort /\ adrift' = (adrift \/ cutShort)
        \/ logFile' = logFile /\ adrift'
    BY <1>5 DEF LogEvent
  <2> HIDE DEF e
  <2>4. InPanelOrder(events', logged')
    BY <1>1, <2>1, <2>2, PushedInFront
  <2>5. logRows' = First(MaxRows, events')
    BY <1>1, <2>1, <2>2, RowsFollow DEF RowAdded, Pushed, InPanelOrder
  <2>6. LinesInOrder(logFile', logged')
    <3>1. LinesInOrder(Append(logFile, e), logged + 1)
      BY <1>1, <2>1, Appended
    <3> QED
      BY <1>4, <2>2, <2>3, <3>1
  <2>7. ASSUME running', ~adrift' PROVE AreNewest(events', logFile', loaded')
    <3>1. logFile' = Append(logFile, e) /\ ~adrift
      BY <2>3, <2>7
    <3>2. AreNewest(events, logFile, loaded)
      BY <2>2, <3>1 DEF LogInv
    <3> QED
      BY <1>1, <2>1, <2>2, <3>1, <3>2, PushedIsNewest
  <2> QED
    BY <1>1, <1>3, <2>2, <2>4, <2>5, <2>6, <2>7 DEF LogInv
<1>6. CASE LogPipeEvent
  <2> DEFINE e == NextEvent(TRUE)
  <2>1. e \in LogLine /\ e.n = logged + 1 /\ ~IsShown(e, loaded)
    <3>1. e \in LogLine /\ e.n = logged + 1 /\ e.pipe
      BY <1>3
    <3> HIDE DEF e
    <3>2. ~(e.n <= loaded)
      BY <1>1, <3>1
    <3> QED
      BY <3>1, <3>2, Zenon DEF IsShown
  <2>2. /\ running /\ running' = running /\ loaded' = loaded /\ logDay' = logDay
        /\ logged' = logged + 1 /\ events' = events /\ logRows' = logRows
        /\ logEmpty' = logEmpty /\ adrift' = adrift
    BY <1>6 DEF LogPipeEvent
  <2>3. logFile' = Append(logFile, e) \/ logFile' = logFile
    BY <1>6 DEF LogPipeEvent
  <2> HIDE DEF e
  <2>4. LinesInOrder(logFile', logged')
    <3>1. LinesInOrder(Append(logFile, e), logged + 1)
      BY <1>1, <2>1, Appended
    <3> QED
      BY <1>4, <2>2, <2>3, <3>1
  <2>5. ASSUME running, ~adrift PROVE AreNewest(events', logFile', loaded')
    <3>1. AreNewest(events, logFile, loaded)
      BY <2>5 DEF LogInv
    <3> QED
      BY <1>1, <2>1, <2>2, <2>3, <3>1, UnshownLine
  <2> QED
    BY <1>3, <1>4, <2>2, <2>4, <2>5 DEF LogInv
<1>7. CASE Killed
  <2>1. /\ ~running' /\ loaded' = loaded /\ logDay' = logDay /\ logFile' = logFile
        /\ events' = <<>> /\ logRows' = <<>> /\ ~logEmpty'
        /\ logged' = logged \/ logged' = logged + 1
    BY <1>7 DEF Killed
  <2>2. LinesInOrder(logFile', logged') /\ logged' \in Nat /\ loaded' \in 0 .. logged'
    BY <1>1, <1>3, <1>4, <2>1
  <2> QED
    BY <1>1, <1>2, <2>1, <2>2, NoLines, FirstOfNone DEF LogInv
<1>8. CASE StartProgram
  <2>1. /\ ~running /\ running' /\ loaded' = logged /\ logged' = logged /\ logDay' = logDay
        /\ events = <<>> /\ ~logEmpty
    BY <1>8 DEF StartProgram, LogInv
  <2>2. logged \in 0 .. logged
    BY <1>1
  <2>3. CASE adrift' = (logFile # <<>>) /\ UNCHANGED <<logFile, cutShort, events, logRows, logEmpty>>
    BY <1>1, <2>1, <2>2, <2>3, NoLines DEF LogInv
  <2>4. ASSUME NEW n \in 0 .. Len(logFile), NEW kept, kept = SubSeq(logFile, n + 1, Len(logFile)),
               Rerendered(NewestLines(kept)),
               \/ Replaced(kept) /\ adrift' = FALSE
               \/ adrift' = (n # 0) /\ UNCHANGED <<logFile, cutShort>>
        PROVE  LogInv'
    <3>1. LinesInOrder(kept, logged)
      BY <1>1, <2>4, KeptInOrder
    <3>2. /\ events' = NewestLines(kept) /\ logRows' = First(MaxRows, events')
          /\ logEmpty' => events' = <<>>
      BY <2>4 DEF Rerendered
    <3>3. InPanelOrder(events', logged) /\ AreNewest(events', kept, logged)
      BY <1>1, <3>1, <3>2, NewestAreNewest
    <3>4. /\ LinesInOrder(logFile', logged)
          /\ ~adrift' => logFile' = kept
      <4>1. n = 0 => kept = logFile
        <5>1. logFile \in Seq(LogLine)
          BY <1>1 DEF LinesInOrder
        <5> QED
          BY <2>4, <5>1, SubSeqFull
      <4> QED
        BY <1>1, <2>4, <3>1, <4>1 DEF Replaced
    <3> QED
      BY <1>1, <2>1, <2>2, <3>2, <3>3, <3>4 DEF LogInv
  <2> QED
    BY <1>8, <2>3, <2>4 DEF StartProgram
<1>9. CASE ClearLog
  <2>1. /\ running' = running /\ running /\ loaded' = loaded /\ logged' = logged /\ logDay' = logDay
        /\ events' = <<>> /\ logRows' = First(MaxRows, events') /\ (logEmpty' => events' = <<>>)
        /\ logFile' = <<>> \/ logFile' = logFile
        /\ ~adrift' => logFile' = <<>>
    BY <1>9 DEF ClearLog, Rerendered, Cleared
  <2> QED
    BY <1>1, <2>1, NoLines DEF LogInv
<1>10. CASE LogDayPasses
  <2>1. logDay' \in Nat
    BY <1>1, <1>10 DEF LogDayPasses
  <2> QED
    BY <1>10, <2>1 DEF LogDayPasses, LogInv
<1>11. CASE UNCHANGED logVars
  BY <1>11 DEF LogInv, logVars
<1> QED
  BY <1>5, <1>6, <1>7, <1>8, <1>9, <1>10, <1>11 DEF LogNext

\* The panel has the newest of what is in the file, and the timeline has them too.
LEMMA LogHolds == LogInv => LogIsTrue
<1> SUFFICES ASSUME LogInv, running PROVE LogIsTrue
  BY DEF LogIsTrue
<1>1. /\ logRows = First(MaxRows, events) /\ (logEmpty => events = <<>>)
      /\ LinesInOrder(logFile, logged) /\ InPanelOrder(events, logged)
      /\ ~adrift => AreNewest(events, logFile, loaded)
  BY DEF LogInv
<1>2. logEmpty => logRows = <<>>
  BY <1>1, LogConstants, FirstOfNone
<1>3. /\ logFile \in Seq(LogLine) /\ DOMAIN logFile = 1 .. Len(logFile)
      /\ events \in Seq(LogLine) /\ DOMAIN events = 1 .. Len(events)
  BY <1>1, LenProperties DEF LinesInOrder, InPanelOrder
<1>4. \A i, j \in DOMAIN events : i < j => events[i].n > events[j].n
  BY <1>1, <1>3 DEF InPanelOrder
<1>5. \A i, j \in DOMAIN logFile : i < j => logFile[i].n < logFile[j].n
  BY <1>1, <1>3 DEF LinesInOrder
<1> DEFINE inPanel == {events[i] : i \in DOMAIN events}
           inFile == {e \in ReadLog : e.pipe => e.n <= loaded}
<1>6. ASSUME ~adrift, NEW e \in inPanel PROVE e \in inFile
  BY <1>1, <1>3, <1>6 DEF AreNewest, IsShown, ReadLog
<1>7. ASSUME ~adrift, NEW e \in inFile \ inPanel
      PROVE  Len(events) = MaxEvents /\ \A o \in inPanel : e.n < o.n
  <2>1. PICK k \in 1 .. Len(logFile) : e = logFile[k] /\ IsShown(logFile[k], loaded)
    BY <1>3, <1>7 DEF ReadLog, IsShown
  <2>2. ~ \E i \in 1 .. Len(events) : events[i] = logFile[k]
    BY <1>3, <1>7, <2>1
  <2>3. Len(events) = MaxEvents /\ \A i \in 1 .. Len(events) : logFile[k].n < events[i].n
    BY <1>1, <1>7, <2>1, <2>2 DEF AreNewest
  <2> QED
    BY <1>3, <2>1, <2>3
<1>8. ASSUME ~adrift, NEW e \in inPanel PROVE e.pipe \/ e \in LogEventsOf(e.at, e.at)
  <2>1. e \in ReadLog
    BY <1>6, <1>8
  <2>2. e.at \in Nat
    <3>1. e \in LogLine
      BY <1>3, <1>8, ElementOfSeq
    <3> QED
      BY <3>1 DEF LogLine
  <2>3. e.at <= e.at
    BY <2>2
  <2> QED
    BY <2>1, <2>3, Zenon DEF LogEventsOf
<1> QED
  BY <1>1, <1>2, <1>4, <1>5, <1>6, <1>7, <1>8 DEF LogIsTrue

-----------------------------------------------------------------------------
\* THE SETTINGS OF THE AI

FormFields ==
    [provider : FormProviders, endpoint : Endpoints \cup {None}, model : {"m", None},
     remote : BOOLEAN, key : Keys \cup {None}]

\* A configuration that was on the form as it is, with no field of another provider.
IsSaved(config, all) ==
    /\ config \in FormFields /\ config \in all
    /\ Valid(config)
    /\ config.provider # "openai_compatible" => config.endpoint = None /\ config.key = None

SettingsInv ==
    /\ configFile # None => IsSaved(configFile.config, submitted)
    /\ aiConfig # None => aiConfig = LoadedConfig(configFile, account)
    /\ form # None => form \in FormFields /\ active = Shown(aiConfig)
    /\ contact # None => contact \in submitted /\ contact.endpoint # None /\ Valid(contact)

\* What is loaded is what is in the file.
LEMMA LoadedIsStored ==
    ASSUME NEW file, NEW by, LoadedConfig(file, by) # None
    PROVE  file # None /\ LoadedConfig(file, by) = file.config
BY DEF LoadedConfig

LEMMA SavedStays ==
    ASSUME NEW config, NEW all, NEW more, all \subseteq more, IsSaved(config, all)
    PROVE  IsSaved(config, more)
BY DEF IsSaved

LEMMA SettingsInitially == SettingsInit => SettingsInv
<1> SUFFICES ASSUME SettingsInit PROVE SettingsInv
  OBVIOUS
<1>1. ASSUME NEW given \in Earlier
      PROVE  IsSaved(given, {given})
  <2>1. PICK e \in {e \in Endpoints : EndpointKind[e] = "remote"}, k \in Keys :
            given = [provider |-> "openai_compatible", endpoint |-> e, model |-> "m",
                       remote |-> TRUE, key |-> k]
    BY <1>1 DEF Earlier
  <2>2. given \in FormFields
    BY <2>1 DEF FormFields, FormProviders
  <2>3. Valid(given)
    BY <2>1 DEF Valid
  <2>4. given.provider = "openai_compatible"
    BY <2>1
  <2> QED
    BY <2>2, <2>3, <2>4 DEF IsSaved
<1>2. PICK given \in Earlier \cup {None} :
          /\ configFile \in IF given = None THEN {None} ELSE {Sealed(given, a) : a \in Accounts}
          /\ submitted = IF given = None THEN {} ELSE {given}
  BY DEF SettingsInit
<1>3. ASSUME configFile # None PROVE IsSaved(configFile.config, submitted)
  <2>1. given # None /\ given \in Earlier /\ configFile.config = given /\ submitted = {given}
    BY <1>2, <1>3 DEF Sealed
  <2> QED
    BY <1>1, <2>1
<1> QED
  BY <1>3 DEF SettingsInit, SettingsInv

\* What is collected of the form has no field of another provider.
LEMMA CollectedIsClean ==
    ASSUME form \in FormFields
    PROVE  /\ CollectedFields \in FormFields
           /\ CollectedFields.provider # "openai_compatible" =>
                  CollectedFields.endpoint = None /\ CollectedFields.key = None
<1>1. CASE form.provider = "openai_compatible"
  BY <1>1 DEF CollectedFields
<1>2. CASE form.provider = "custom"
  <2>1. CollectedFields = [form EXCEPT !.endpoint = None, !.remote = FALSE, !.key = None]
    BY <1>2 DEF CollectedFields
  <2> QED
    BY <2>1 DEF FormFields
<1>3. CASE form.provider \notin {"openai_compatible", "custom"}
  <2>1. CollectedFields =
            [form EXCEPT !.endpoint = None, !.remote = FALSE, !.key = None, !.model = None]
    BY <1>3 DEF CollectedFields
  <2> QED
    BY <2>1 DEF FormFields
<1> QED
  BY <1>1, <1>2, <1>3

\* However writing and reading the file went.
LEMMA StoredIsSaved ==
    ASSUME NEW file, NEW fields, Stored(file, fields), UNCHANGED account, NEW all,
           file # None => IsSaved(file.config, all),
           configFile # None => IsSaved(configFile.config, all)
    PROVE  /\ configFile' # None => IsSaved(configFile'.config, all)
           /\ aiConfig' # None => aiConfig' = LoadedConfig(configFile', account')
BY DEF Stored, Reloaded

LEMMA SettingsNextInv == SettingsInv /\ [SettingsNext]_settingsVars => SettingsInv'
<1> SUFFICES ASSUME SettingsInv, [SettingsNext]_settingsVars PROVE SettingsInv'
  OBVIOUS
<1>1. ASSUME aiConfig # None PROVE IsSaved(aiConfig, submitted)
  BY <1>1, LoadedIsStored DEF SettingsInv
<1>2. ASSUME NEW config, config = None \/ config \in FormFields
      PROVE  FormOf(config) \in FormFields
  <2>1. CASE config = None
    BY <2>1 DEF FormOf, FormFields, FormProviders
  <2>2. CASE config # None
    BY <1>2, <2>2 DEF FormOf, FormFields
  <2> QED
    BY <2>1, <2>2
<1>3. CASE OpenSettings
  <2>1. aiConfig = None \/ aiConfig \in FormFields
    BY <1>1 DEF IsSaved
  <2> QED
    BY <1>2, <1>3, <2>1 DEF OpenSettings, SettingsInv
<1>4. CASE CloseSettings
  BY <1>4 DEF CloseSettings, SettingsInv
<1>5. CASE Edit
  <2>1. form # None /\ form \in FormFields
    BY <1>5 DEF Edit, SettingsInv
  <2>2. form' \in FormFields
    <3>1. CASE \E p \in FormProviders \ {form.provider} : form' = [form EXCEPT !.provider = p]
      BY <2>1, <3>1 DEF FormFields
    <3>2. CASE \E e \in Endpoints \cup {None} : form' = [form EXCEPT !.endpoint = e]
      BY <2>1, <3>2 DEF FormFields
    <3>3. CASE \E m \in {"m", None} : form' = [form EXCEPT !.model = m]
      BY <2>1, <3>3 DEF FormFields
    <3>4. CASE \E k \in Keys \cup {None} : form' = [form EXCEPT !.key = k]
      BY <2>1, <3>4 DEF FormFields
    <3>5. CASE form' = [form EXCEPT !.remote = ~@]
      BY <2>1, <3>5 DEF FormFields
    <3> QED
      BY <1>5, <3>1, <3>2, <3>3, <3>4, <3>5 DEF Edit
  <2> QED
    BY <1>5, <2>1, <2>2 DEF Edit, SettingsInv
<1>6. CASE SaveSettings
  <2> DEFINE fields == CollectedFields
  <2>1. /\ form # None /\ form \in FormFields /\ contact' = None /\ UNCHANGED account
        /\ fields \in FormFields
        /\ fields.provider # "openai_compatible" => fields.endpoint = None /\ fields.key = None
    BY <1>6, CollectedIsClean DEF SaveSettings, SettingsInv
  <2> HIDE DEF fields
  <2>2. CASE /\ Stored(None, None) /\ active' = Shown(aiConfig')
             /\ UNCHANGED <<form, submitted>>
    <3>1. /\ configFile' # None => IsSaved(configFile'.config, submitted)
          /\ aiConfig' # None => aiConfig' = LoadedConfig(configFile', account')
      BY <2>1, <2>2, StoredIsSaved DEF SettingsInv
    <3> QED
      BY <2>1, <2>2, <3>1 DEF SettingsInv
  <2>3. CASE UNCHANGED <<configFile, aiConfig, form, active, submitted, edits>>
    BY <2>1, <2>3 DEF SettingsInv
  <2>4. CASE /\ Valid(fields) /\ Stored(Sealed(ToSave(fields), account), fields)
             /\ active' = Shown(aiConfig') /\ form' = [form EXCEPT !.key = None]
             /\ submitted' = submitted \cup {fields}
    <3>1. IsSaved(fields, submitted')
      BY <2>1, <2>4 DEF IsSaved
    <3>2. Sealed(ToSave(fields), account).config = fields
      BY DEF Sealed, ToSave
    <3>3. configFile # None => IsSaved(configFile.config, submitted')
      BY <2>4, SavedStays DEF SettingsInv
    <3>4. /\ configFile' # None => IsSaved(configFile'.config, submitted')
          /\ aiConfig' # None => aiConfig' = LoadedConfig(configFile', account')
      BY <2>1, <2>4, <3>1, <3>2, <3>3, StoredIsSaved
    <3>5. form' \in FormFields
      BY <2>1, <2>4 DEF FormFields
    <3> QED
      BY <2>1, <2>4, <3>4, <3>5 DEF SettingsInv
  <2> QED
    BY <1>6, <2>2, <2>3, <2>4 DEF SaveSettings, fields
<1>7. CASE ResetSettings
  <2>1. /\ configFile' # None => IsSaved(configFile'.config, submitted)
        /\ aiConfig' # None => aiConfig' = LoadedConfig(configFile', account')
    BY <1>7, StoredIsSaved DEF ResetSettings, SettingsInv
  <2> QED
    BY <1>2, <1>7, <2>1 DEF ResetSettings, SettingsInv
<1>8. CASE TestConnection
  <2> DEFINE fields == CollectedFields
  <2>1. UNCHANGED <<account, configFile, aiConfig, form, active, edits>>
    BY <1>8 DEF TestConnection
  <2>2. \/ contact' = None /\ submitted' = submitted
        \/ /\ contact' = fields /\ submitted' = submitted \cup {fields}
           /\ Valid(fields) /\ fields.endpoint # None
    BY <1>8 DEF TestConnection, CanAsk
  <2> HIDE DEF fields
  <2>3. configFile # None => IsSaved(configFile.config, submitted')
    BY <2>2, SavedStays DEF SettingsInv
  <2>4. contact' # None => contact' \in submitted' /\ contact'.endpoint # None /\ Valid(contact')
    BY <2>2
  <2> QED
    BY <2>1, <2>3, <2>4 DEF SettingsInv
<1>9. CASE AskProvider
  BY <1>1, <1>9 DEF AskProvider, CanAsk, IsSaved, SettingsInv
<1>10. CASE RestartProgram
  BY <1>10 DEF RestartProgram, SettingsInv
<1>11. CASE UNCHANGED settingsVars
  BY <1>11 DEF settingsVars, SettingsInv
<1> QED
  BY <1>3, <1>4, <1>5, <1>6, <1>7, <1>8, <1>9, <1>10, <1>11 DEF SettingsNext

\* What is asked with is what is stored, and was meant by who typed it.
LEMMA SettingsHold == SettingsInv => SettingsAreTrue
<1> SUFFICES ASSUME SettingsInv PROVE SettingsAreTrue
  OBVIOUS
<1>1. MemoryIsStored
  BY DEF SettingsInv, MemoryIsStored
<1>2. ASSUME contact # None
      PROVE  \E fields \in submitted :
                 /\ fields.endpoint = contact.endpoint /\ fields.key = contact.key
                 /\ EndpointKind[contact.endpoint] = "remote" => fields.remote
  <2>1. contact \in submitted /\ contact.endpoint # None /\ Valid(contact)
    BY <1>2 DEF SettingsInv
  <2>2. ASSUME EndpointKind[contact.endpoint] = "remote" PROVE contact.remote
    BY <2>1, <2>2 DEF Valid
  <2> QED
    BY <2>1, <2>2
<1>3. ASSUME aiConfig # None, aiConfig.provider # "openai_compatible"
      PROVE  aiConfig.endpoint = None /\ aiConfig.key = None
  BY <1>3, LoadedIsStored DEF SettingsInv, IsSaved
<1> QED
  BY <1>1, <1>2, <1>3 DEF SettingsAreTrue, RequestsWereMeant

-----------------------------------------------------------------------------
\* THE WINDOWS THAT SHOW AN ANALYSIS

\* The fields of a window.
IsView(v) ==
    /\ v = [choice |-> v.choice, seen |-> v.seen, rows |-> v.rows, selected |-> v.selected,
            detail |-> v.detail, said |-> v.said, summary |-> v.summary, pending |-> v.pending]
    /\ v.pending \in BOOLEAN

\* A window with a menu of ranges has what is in its range, and says so.
IsOfItsRange(v) ==
    screen \in Ranged =>
        /\ v.said = [of |-> ScopeOf(v.choice), seen |-> v.seen]
        /\ \A f \in Present(v.seen) : AgeOf[f] <= ScopeOf(v.choice)

FileIsTrue(file) ==
    IF screen = "reports" THEN DOMAIN file.facts = {file.name}
    ELSE \A f \in Present(file.facts) : AgeOf[f] <= file.name

ViewsInv ==
    /\ view # None => IsView(view) /\ ViewIsTrue(view) /\ IsOfItsRange(view)
    /\ export # None => /\ screen \in {"reports", "sensor"}
                        /\ screen = "reports" => FileIsTrue(export)
                        /\ screen = "sensor" => IsOfItsRange(view)
    /\ written # None => FileIsTrue(written)
    /\ screen \in OwnedByApp => strays = 0

LEMMA ViewsInitially == ViewsInit => ViewsInv
BY DEF ViewsInit, ViewsInv

\* What fields of a window are when some of them are set.
LEMMA ViewWith ==
    ASSUME NEW v, IsView(v), NEW choice, NEW read, NEW w,
           w = [v EXCEPT !.choice = choice, !.seen = read]
    PROVE  w = [choice |-> choice, seen |-> read, rows |-> v.rows, selected |-> v.selected,
                detail |-> v.detail, said |-> v.said, summary |-> v.summary, pending |-> v.pending]
BY DEF IsView

LEMMA ChoiceWith ==
    ASSUME NEW v, IsView(v), NEW choice, NEW w, w = [v EXCEPT !.choice = choice]
    PROVE  w = [choice |-> choice, seen |-> v.seen, rows |-> v.rows, selected |-> v.selected,
                detail |-> v.detail, said |-> v.said, summary |-> v.summary, pending |-> v.pending]
BY DEF IsView

LEMMA SelectedWith ==
    ASSUME NEW v, IsView(v), NEW f, NEW w, w = [v EXCEPT !.selected = f, !.pending = TRUE]
    PROVE  w = [choice |-> v.choice, seen |-> v.seen, rows |-> v.rows, selected |-> f,
                detail |-> v.detail, said |-> v.said, summary |-> v.summary, pending |-> TRUE]
BY DEF IsView

LEMMA DetailWith ==
    ASSUME NEW v, IsView(v), NEW d, NEW w, w = [v EXCEPT !.pending = FALSE, !.detail = d]
    PROVE  w = [choice |-> v.choice, seen |-> v.seen, rows |-> v.rows, selected |-> v.selected,
                detail |-> d, said |-> v.said, summary |-> v.summary, pending |-> FALSE]
BY DEF IsView

\* Listing again what was read, for other boxes.
LEMMA RenderedIsTrue ==
    ASSUME screen = "timeline", NEW v, IsView(v), ViewIsTrue(v), IsOfItsRange(v),
           NEW choice, choice.range = v.choice.range, NEW w,
           w = [choice |-> choice, seen |-> v.seen, rows |-> v.rows, selected |-> v.selected,
                detail |-> v.detail, said |-> v.said, summary |-> v.summary, pending |-> v.pending]
    PROVE  IsView(Rendered(w)) /\ ViewIsTrue(Rendered(w)) /\ IsOfItsRange(Rendered(w))
<1> DEFINE listing == Rows(choice, v.seen)
           r == Rendered(w)
<1>1. w.choice = choice /\ w.seen = v.seen /\ w.detail = v.detail
  OBVIOUS
<1>2. r = [w EXCEPT !.rows = listing, !.selected = None, !.detail = IF listing = {} THEN None ELSE v.detail]
  BY <1>1 DEF Rendered
<1> HIDE DEF listing, r
<1>3. r = [choice |-> choice, seen |-> v.seen, rows |-> listing, selected |-> None,
           detail |-> IF listing = {} THEN None ELSE v.detail, said |-> v.said,
           summary |-> v.summary, pending |-> v.pending]
  BY <1>2
<1>4. IsView(r)
  BY <1>3 DEF IsView
<1>5. /\ r.choice = choice /\ r.seen = v.seen /\ r.rows = listing /\ r.selected = None
      /\ r.said = v.said /\ r.summary = v.summary
  BY <1>3
<1>6. r.rows = Rows(r.choice, r.seen)
  BY <1>5 DEF listing
<1>7. ViewIsTrue(r)
  <2>1. ScopeOf(r.choice) = ScopeOf(v.choice)
    BY <1>5 DEF ScopeOf
  <2> QED
    BY <1>5, <1>6, <2>1, Zenon DEF ViewIsTrue
<1>8. IsOfItsRange(r)
  BY <1>5 DEF IsOfItsRange, ScopeOf
<1> QED
  BY <1>4, <1>7, <1>8 DEF r

\* What is computed again is of one choice and one read, and its first row is one of its rows.
LEMMA RecomputedIsTrue ==
    ASSUME NEW v, IsView(v), NEW read,
           screen \in Ranged => \A f \in Present(read) : AgeOf[f] <= ScopeOf(v.choice)
    PROVE  /\ IsView(Recomputed(v, read))
           /\ ViewIsTrue(Recomputed(v, read))
           /\ Recomputed(v, read).choice = Picked(v.choice, read)
           /\ Recomputed(v, read).seen = read
           /\ Recomputed(v, read).said = Said(Picked(v.choice, read), read)
<1> DEFINE choice == Picked(v.choice, read)
           listing == Rows(choice, read)
           first == screen = "reports" /\ listing # {}
           listed == Rendered([v EXCEPT !.choice = choice, !.seen = read])
           r == Recomputed(v, read)
<1>1. listed = [choice |-> choice, seen |-> read, rows |-> listing, selected |-> None,
                detail |-> IF listing = {} THEN None ELSE v.detail, said |-> v.said,
                summary |-> v.summary, pending |-> v.pending]
  <2> HIDE DEF choice
  <2>1. [v EXCEPT !.choice = choice, !.seen = read] =
            [choice |-> choice, seen |-> read, rows |-> v.rows, selected |-> v.selected,
             detail |-> v.detail, said |-> v.said, summary |-> v.summary, pending |-> v.pending]
    BY ViewWith
  <2> DEFINE w == [v EXCEPT !.choice = choice, !.seen = read]
  <2>2. w.choice = choice /\ w.seen = read /\ w.detail = v.detail
    BY <2>1
  <2> HIDE DEF w
  <2>3. listed = [w EXCEPT !.rows = listing, !.selected = None,
                           !.detail = IF listing = {} THEN None ELSE v.detail]
    BY <2>2 DEF Rendered, w
  <2> QED
    BY <2>1, <2>3 DEF w
<1>2. listed.rows = listing
  <2> HIDE DEF choice, listing, listed
  <2> QED
    BY <1>1
<1>3. r = [listed EXCEPT !.said = Said(choice, read), !.summary = Summary(listing, read),
                         !.selected = IF first THEN Min(listing) ELSE None,
                         !.pending = first \/ v.pending]
  <2>1. r = [listed EXCEPT !.said = Said(choice, read), !.summary = Summary(listed.rows, read),
                    !.selected = IF screen = "reports" /\ listed.rows # {} THEN Min(listed.rows) ELSE None,
                    !.pending = (screen = "reports" /\ listed.rows # {}) \/ v.pending]
    BY DEF Recomputed
  <2> HIDE DEF choice, listing, listed, r
  <2> QED
    BY <1>2, <2>1, Zenon
<1> HIDE DEF choice, listing, listed, r
<1>4. r = [choice |-> choice, seen |-> read, rows |-> listing,
           selected |-> IF first THEN Min(listing) ELSE None,
           detail |-> IF listing = {} THEN None ELSE v.detail, said |-> Said(choice, read),
           summary |-> Summary(listing, read), pending |-> first \/ v.pending]
  <2> DEFINE p == first \/ v.pending
             s == IF first THEN Min(listing) ELSE None
  <2> HIDE DEF p, s
  <2>1. r = [listed EXCEPT !.said = Said(choice, read), !.summary = Summary(listing, read),
                           !.selected = s, !.pending = p]
    BY <1>3 DEF p, s
  <2>2. r = [choice |-> choice, seen |-> read, rows |-> listing, selected |-> s,
             detail |-> IF listing = {} THEN None ELSE v.detail, said |-> Said(choice, read),
             summary |-> Summary(listing, read), pending |-> p]
    BY <1>1, <2>1
  <2> QED
    BY <2>2 DEF p, s
<1>5. /\ r.choice = choice /\ r.seen = read /\ r.rows = listing
      /\ r.said = Said(choice, read) /\ r.summary = Present(read)
      /\ r.selected = IF first THEN Min(listing) ELSE None
      /\ IsView(r)
  <2> DEFINE p == first \/ v.pending
             s == IF first THEN Min(listing) ELSE None
  <2>1. p \in BOOLEAN
    OBVIOUS
  <2> HIDE DEF p, s
  <2>2. r = [choice |-> choice, seen |-> read, rows |-> listing, selected |-> s,
             detail |-> IF listing = {} THEN None ELSE v.detail, said |-> Said(choice, read),
             summary |-> Summary(listing, read), pending |-> p]
    BY <1>4 DEF p, s
  <2>3. IsView(r)
    BY <2>1, <2>2 DEF IsView
  <2>4. /\ r.choice = choice /\ r.seen = read /\ r.rows = listing
        /\ r.said = Said(choice, read) /\ r.summary = Present(read)
        /\ r.selected = s
    BY <2>2 DEF Summary
  <2> QED
    BY <2>3, <2>4 DEF s
<1>6. first => r.pending
  BY <1>4, Zenon
<1>7. first => Min(listing) \in listing
  <2>1. listing \in SUBSET Nat
    BY ViewConstants DEF listing, Rows, Present
  <2> QED
    BY <2>1, MinIsIn
<1>8. r.selected \in r.rows \cup {None}
  BY <1>5, <1>7
<1>9. r.selected # None /\ ~r.pending => r.detail = [of |-> r.selected, at |-> r.seen[r.selected]]
  BY <1>5, <1>6
<1>10. r.said # None => /\ r.said.of = ScopeOf(r.choice)
                        /\ screen # "trends" => r.said.seen = r.seen
  <2> DEFINE scope == ScopeOf(choice)
             told == [of |-> scope, seen |-> read]
  <2>1. told.of = scope /\ told.seen = read
    OBVIOUS
  <2>2. Said(choice, read) \in {None, told}
    BY DEF Said
  <2> HIDE DEF scope, told
  <2>3. r.said \in {None, told}
    BY <1>5, <2>2
  <2> QED
    BY <1>5, <2>1, <2>3 DEF scope
<1>11. r.rows = Rows(r.choice, r.seen)
  BY <1>5 DEF listing
<1>12. screen \in Ranged => \A f \in Present(r.seen) : AgeOf[f] <= r.said.of
  <2> SUFFICES ASSUME screen \in Ranged PROVE \A f \in Present(r.seen) : AgeOf[f] <= r.said.of
    OBVIOUS
  <2>1. choice = v.choice
    BY DEF choice, Picked, Ranged
  <2> DEFINE scope == ScopeOf(choice)
  <2>2. Said(choice, read) = [of |-> scope, seen |-> read]
    BY DEF Said, Ranged
  <2> HIDE DEF scope
  <2>3. r.said.of = scope
    BY <1>5, <2>2
  <2> QED
    BY <1>5, <2>1, <2>3 DEF scope
<1>13. ViewIsTrue(r)
  BY <1>5, <1>8, <1>9, <1>10, <1>11, <1>12 DEF ViewIsTrue
<1> QED
  BY <1>5, <1>13 DEF r, choice

\* What is asked for a range is in it.
LEMMA AskedIsInRange ==
    ASSUME screen \in Ranged, NEW choice, NEW read
    PROVE  \A f \in Present(Asked(choice, read)) : AgeOf[f] <= ScopeOf(choice)
<1>1. Asked(choice, read) = [f \in Facts |-> IF AgeOf[f] <= ScopeOf(choice) THEN read[f] ELSE 0]
  BY DEF Asked, Ranged
<1> QED
  BY <1>1 DEF Present

\* A window that asks for a range has it.
LEMMA AskedIsOfItsRange ==
    ASSUME NEW v, IsView(v), NEW read
    PROVE  IsOfItsRange(Recomputed(v, Asked(v.choice, read)))
<1> SUFFICES ASSUME screen \in Ranged PROVE IsOfItsRange(Recomputed(v, Asked(v.choice, read)))
  BY DEF IsOfItsRange
<1> DEFINE asked == Asked(v.choice, read)
           r == Recomputed(v, asked)
           scope == ScopeOf(v.choice)
<1>1. \A f \in Present(asked) : AgeOf[f] <= scope
  BY AskedIsInRange
<1>2. /\ r.choice = Picked(v.choice, asked) /\ r.seen = asked
      /\ r.said = Said(Picked(v.choice, asked), asked)
  <2> HIDE DEF asked
  <2> QED
    BY <1>1, RecomputedIsTrue
<1>3. Picked(v.choice, asked) = v.choice
  BY DEF Picked, Ranged
<1>4. Said(v.choice, asked) = [of |-> scope, seen |-> asked]
  BY DEF Said, Ranged
<1> HIDE DEF asked, r, scope
<1>5. IsOfItsRange(r)
  BY <1>1, <1>2, <1>3, <1>4 DEF IsOfItsRange, scope
<1> QED
  BY <1>5 DEF r, asked

\* A window that is computed again for what it is asked.
LEMMA ComputedAgain ==
    ASSUME NEW v, IsView(v), NEW read
    PROVE  LET r == Recomputed(v, Asked(v.choice, read))
           IN  IsView(r) /\ ViewIsTrue(r) /\ IsOfItsRange(r)
<1> DEFINE asked == Asked(v.choice, read)
<1>1. screen \in Ranged => \A f \in Present(asked) : AgeOf[f] <= ScopeOf(v.choice)
  BY AskedIsInRange
<1>2. IsOfItsRange(Recomputed(v, asked))
  BY AskedIsOfItsRange
<1> HIDE DEF asked
<1>3. IsView(Recomputed(v, asked)) /\ ViewIsTrue(Recomputed(v, asked))
  BY <1>1, RecomputedIsTrue
<1> QED
  BY <1>2, <1>3 DEF asked

LEMMA ViewsNextInv == ViewsInv /\ [ViewsNext]_viewVars => ViewsInv'
<1> SUFFICES ASSUME ViewsInv, [ViewsNext]_viewVars PROVE ViewsInv'
  OBVIOUS
<1>1. CASE UNCHANGED viewVars
  <2>1. /\ UNCHANGED <<screen, version, view, strays, export, written>>
    BY <1>1 DEF viewVars
  <2> QED
    BY <2>1 DEF ViewsInv, IsView, ViewIsTrue, IsOfItsRange, FileIsTrue, Rows, ScopeOf
<1> SUFFICES ASSUME ViewsNext PROVE ViewsInv'
  BY <1>1
<1>2. screen' = screen
  BY DEF ViewsNext, FactChanges, Open, Close, HistoryReopened, Refresh, Choose, Select, DetailIsShown,
         Regenerate, ViewExportBegins, ViewExportEnds, Step
\* What is said of a window and of a file, said of the next ones.
<1> DEFINE Good(v) == IsView(v) /\ ViewIsTrue(v) /\ IsOfItsRange(v)
<1>3. ASSUME view' # None => Good(view'),
             export' # None => /\ screen \in {"reports", "sensor"}
                               /\ screen = "reports" => FileIsTrue(export')
                               /\ screen = "sensor" => IsOfItsRange(view'),
             written' # None => FileIsTrue(written'),
             screen \in OwnedByApp => strays' = 0
      PROVE  ViewsInv'
  BY <1>2, <1>3 DEF ViewsInv, IsView, ViewIsTrue, IsOfItsRange, FileIsTrue, Rows, ScopeOf
<1>4. /\ view # None => Good(view)
      /\ export # None => /\ screen \in {"reports", "sensor"}
                          /\ screen = "reports" => FileIsTrue(export)
                          /\ screen = "sensor" => IsOfItsRange(view)
      /\ written # None => FileIsTrue(written)
      /\ screen \in OwnedByApp => strays = 0
  BY DEF ViewsInv
<1>5. CASE FactChanges
  BY <1>3, <1>4, <1>5 DEF FactChanges
<1>6. CASE Open
  <2>1. CASE view # None
    BY <1>3, <1>4, <1>6, <2>1 DEF Open, Unwritten
  <2>2. CASE view = None
    <3>1. PICK read \in Read : view' = Recomputed(Blank(FirstChoice), Asked(FirstChoice, read))
      BY <1>6, <2>2 DEF Open
    <3>2. IsView(Blank(FirstChoice)) /\ Blank(FirstChoice).choice = FirstChoice
      <4> DEFINE c == FirstChoice
      <4> HIDE DEF c
      <4>1. IsView(Blank(c)) /\ Blank(c).choice = c
        BY DEF IsView, Blank
      <4> QED
        BY <4>1 DEF c
    <3>3. Good(view')
      <4> DEFINE b == Blank(FirstChoice)
      <4>1. view' = Recomputed(b, Asked(b.choice, read)) /\ IsView(b)
        BY <3>1, <3>2
      <4> HIDE DEF b
      <4> QED
        BY <4>1, ComputedAgain
    <3>4. export' = export /\ written' = None /\ strays' = strays
      BY <1>6 DEF Open, Unwritten
    <3> HIDE DEF Good
    <3>5. export' # None => /\ screen \in {"reports", "sensor"}
                            /\ screen = "reports" => FileIsTrue(export')
                            /\ screen = "sensor" => IsOfItsRange(view')
      BY <1>4, <3>3, <3>4 DEF Good
    <3> QED
      BY <1>3, <1>4, <3>3, <3>4, <3>5
  <2> QED
    BY <2>1, <2>2
<1>7. CASE Close
  BY <1>3, <1>4, <1>7 DEF Close, Unwritten, OwnedByApp
<1>8. CASE HistoryReopened
  <2>1. screen \in OwnedByApp => view' = view /\ strays' = strays
    BY <1>8 DEF HistoryReopened, Orphaned
  <2>2. view' = None \/ view' = view
    BY <1>8 DEF HistoryReopened
  <2>3. export' = export /\ written' = None
    BY <1>8 DEF HistoryReopened, Unwritten
  <2>4. "sensor" \in OwnedByApp
    BY DEF OwnedByApp
  <2>5. ASSUME screen = "sensor", IsOfItsRange(view) PROVE IsOfItsRange(view')
    <3>1. view' = view
      BY <2>1, <2>4, <2>5
    <3> QED
      BY <2>5, <3>1
  <2> HIDE DEF Good
  <2> QED
    BY <1>3, <1>4, <2>1, <2>2, <2>3, <2>5
<1>9. CASE Refresh
  <2>1. PICK read \in Read : view' = Recomputed(view, Asked(view.choice, read))
    BY <1>9 DEF Refresh
  <2>2. view # None /\ export' = export /\ written' = None /\ strays' = strays
    BY <1>9 DEF Refresh, Unwritten
  <2>3. Good(view')
    BY <1>4, <2>1, <2>2, ComputedAgain
  <2>4. export' # None => /\ screen \in {"reports", "sensor"}
                          /\ screen = "reports" => FileIsTrue(export')
                          /\ screen = "sensor" => IsOfItsRange(view')
    <3> HIDE DEF Good
    <3> QED
      BY <1>4, <2>2, <2>3 DEF Good
  <2> QED
    BY <1>3, <1>4, <2>2, <2>3, <2>4
<1>10. CASE Choose
  <2>1. view # None /\ export' = export /\ written' = None /\ strays' = strays
    BY <1>10 DEF Choose, Unwritten
  <2>2. PICK choice \in Options \ {view.choice} :
            LET chosen == [view EXCEPT !.choice = choice]
            IN CASE screen = "timeline" /\ choice.range = view.choice.range -> view' = Rendered(chosen)
                 [] screen = "timeline" /\ choice.range # view.choice.range ->
                        /\ choice.kinds = view.choice.kinds
                        /\ \E read \in Read : view' = Recomputed(chosen, Asked(choice, read))
                 [] screen = "trends" ->
                        /\ choice \in Present(view.seen)
                        /\ \E read \in Read :
                               view' = [chosen EXCEPT !.said = [of |-> choice, seen |-> read]]
                 [] OTHER -> \E read \in Read : view' = Recomputed(chosen, Asked(choice, read))
    BY <1>10 DEF Choose
  <2> DEFINE chosen == [view EXCEPT !.choice = choice]
  <2>3. IsView(view) /\ ViewIsTrue(view) /\ IsOfItsRange(view)
    BY <1>4, <2>1
  <2>4. chosen = [choice |-> choice, seen |-> view.seen, rows |-> view.rows,
                  selected |-> view.selected, detail |-> view.detail, said |-> view.said,
                  summary |-> view.summary, pending |-> view.pending]
    <3> HIDE DEF Good
    <3> QED
      BY <2>3, ChoiceWith
  <2>5. IsView(chosen) /\ chosen.choice = choice /\ chosen.seen = view.seen
    <3>1. IsView(view)
      BY <2>3
    <3> HIDE DEF Good, chosen
    <3> QED
      BY <2>4, <3>1 DEF IsView
  <2>6. Good(view')
    <3>1. CASE screen = "timeline" /\ choice.range = view.choice.range
      <4>1. view' = Rendered(chosen)
        BY <2>2, <3>1
      <4> HIDE DEF Good, chosen
      <4> QED
        BY <2>3, <2>4, <2>5, <3>1, <4>1, RenderedIsTrue DEF Good
    <3>2. CASE screen = "trends"
      <4>1. PICK read \in Read : view' = [chosen EXCEPT !.said = [of |-> choice, seen |-> read]]
        BY <2>2, <3>2
      <4> DEFINE told == [of |-> choice, seen |-> read]
      <4>2. told.of = choice
        OBVIOUS
      <4>3. view' = [chosen EXCEPT !.said = told]
        BY <4>1
      <4> HIDE DEF Good, chosen, told
      <4>4. view' = [choice |-> choice, seen |-> view.seen, rows |-> view.rows,
                     selected |-> view.selected, detail |-> view.detail, said |-> told,
                     summary |-> view.summary, pending |-> view.pending]
        BY <2>4, <4>3
      <4>5. IsView(view')
        BY <2>3, <4>4 DEF IsView
      <4>6. ViewIsTrue(view')
        <5>1. /\ view'.choice = choice /\ view'.seen = view.seen /\ view'.rows = view.rows
              /\ view'.selected = view.selected /\ view'.detail = view.detail
              /\ view'.said = told /\ view'.summary = view.summary
              /\ view'.pending = view.pending
          BY <4>4
        <5>2. Rows(view'.choice, view'.seen) = Rows(view.choice, view.seen)
          BY <3>2, <5>1 DEF Rows
        <5>3. screen \notin Ranged /\ ScopeOf(choice) = choice
          BY <3>2 DEF Ranged, ScopeOf
        <5> QED
          BY <2>3, <3>2, <4>2, <5>1, <5>2, <5>3, Zenon DEF ViewIsTrue
      <4>7. IsOfItsRange(view')
        BY <3>2 DEF IsOfItsRange, Ranged
      <4> QED
        BY <4>5, <4>6, <4>7 DEF Good
    <3>3. CASE ~(screen = "timeline" /\ choice.range = view.choice.range) /\ screen # "trends"
      <4>1. PICK read \in Read : view' = Recomputed(chosen, Asked(choice, read))
        BY <2>2, <3>3
      <4>2. view' = Recomputed(chosen, Asked(chosen.choice, read))
        BY <2>5, <4>1
      <4> HIDE DEF Good, chosen
      <4> QED
        BY <2>5, <4>2, ComputedAgain DEF Good
    <3> QED
      BY <3>1, <3>2, <3>3
  <2>7. export' # None => /\ screen \in {"reports", "sensor"}
                          /\ screen = "reports" => FileIsTrue(export')
                          /\ screen = "sensor" => IsOfItsRange(view')
    <3>1. IsOfItsRange(view')
      BY <2>6
    <3> HIDE DEF Good
    <3> QED
      BY <1>4, <2>1, <3>1
  <2> QED
    BY <1>3, <1>4, <2>1, <2>6, <2>7
<1>11. CASE Select
  <2>1. /\ view # None /\ export' = export /\ written' = None /\ strays' = strays
        /\ screen \in {"timeline", "reports"}
    BY <1>11 DEF Select, Unwritten
  <2>2. PICK f \in view.rows : view' = [view EXCEPT !.selected = f, !.pending = TRUE]
    BY <1>11 DEF Select
  <2>3. IsView(view) /\ ViewIsTrue(view) /\ IsOfItsRange(view)
    BY <1>4, <2>1
  <2> HIDE DEF Good
  <2>4. view' = [choice |-> view.choice, seen |-> view.seen, rows |-> view.rows, selected |-> f,
                 detail |-> view.detail, said |-> view.said, summary |-> view.summary,
                 pending |-> TRUE]
    BY <2>2, <2>3, SelectedWith
  <2>5. IsView(view')
    BY <2>4 DEF IsView
  <2>6. /\ view'.choice = view.choice /\ view'.seen = view.seen /\ view'.rows = view.rows
        /\ view'.selected = f /\ view'.said = view.said /\ view'.summary = view.summary
        /\ view'.pending
    BY <2>4
  <2>7. ViewIsTrue(view')
    BY <2>2, <2>3, <2>6, Zenon DEF ViewIsTrue
  <2>8. IsOfItsRange(view')
    BY <2>3, <2>6 DEF IsOfItsRange
  <2> QED
    BY <1>3, <1>4, <2>1, <2>5, <2>7, <2>8 DEF Good
<1>12. CASE DetailIsShown
  <2>1. /\ view # None /\ export' = export /\ written' = None /\ strays' = strays
    BY <1>12 DEF DetailIsShown, Unwritten
  <2> DEFINE detail == IF view.selected = None THEN view.detail
                       ELSE [of |-> view.selected, at |-> view.seen[view.selected]]
  <2>2. view' = [view EXCEPT !.pending = FALSE, !.detail = detail]
    BY <1>12 DEF DetailIsShown
  <2>3. IsView(view) /\ ViewIsTrue(view) /\ IsOfItsRange(view)
    BY <1>4, <2>1
  <2> HIDE DEF Good, detail
  <2>4. view' = [choice |-> view.choice, seen |-> view.seen, rows |-> view.rows,
                 selected |-> view.selected, detail |-> detail, said |-> view.said,
                 summary |-> view.summary, pending |-> FALSE]
    BY <2>2, <2>3, DetailWith
  <2>5. IsView(view')
    BY <2>4 DEF IsView
  <2>6. /\ view'.choice = view.choice /\ view'.seen = view.seen /\ view'.rows = view.rows
        /\ view'.selected = view.selected /\ view'.said = view.said
        /\ view'.summary = view.summary /\ view'.detail = detail
    BY <2>4
  <2>7. ViewIsTrue(view')
    <3>1. view'.selected # None => view'.detail = [of |-> view'.selected, at |-> view'.seen[view'.selected]]
      BY <2>6 DEF detail
    <3> QED
      BY <2>3, <2>6, <3>1, Zenon DEF ViewIsTrue
  <2>8. IsOfItsRange(view')
    BY <2>3, <2>6 DEF IsOfItsRange
  <2> QED
    BY <1>3, <1>4, <2>1, <2>5, <2>7, <2>8 DEF Good
<1>13. CASE Regenerate
  <2>1. /\ view # None /\ export' = export /\ written' = None /\ strays' = strays
        /\ screen = "reports"
    BY <1>13 DEF Regenerate
  <2>2. view' = view \/ \E read \in {version', NoFacts} : view' = Recomputed(view, Asked(view.choice, read))
    BY <1>13 DEF Regenerate
  <2>3. Good(view')
    BY <1>4, <2>1, <2>2, ComputedAgain
  <2>4. IsOfItsRange(view')
    BY <2>1 DEF IsOfItsRange, Ranged
  <2> HIDE DEF Good
  <2> QED
    BY <1>3, <1>4, <2>1, <2>3, <2>4
<1>14. CASE ViewExportBegins
  <2>1. /\ view # None /\ view' = view /\ strays' = strays /\ written' = None
        /\ export' = Exporting(view) /\ screen \in {"reports", "sensor"}
    BY <1>14 DEF ViewExportBegins
  <2>2. ASSUME screen = "reports" PROVE FileIsTrue(export')
    <3>1. export' = [name |-> view.selected,
                     facts |-> [f \in {view.selected} |-> view.seen[f]]]
      BY <2>1, <2>2 DEF Exporting
    <3>2. DOMAIN export'.facts = {export'.name}
      BY <3>1
    <3> QED
      BY <2>2, <3>2 DEF FileIsTrue
  <2>3. screen = "sensor" => IsOfItsRange(view')
    BY <1>4, <2>1
  <2>4. view' # None => Good(view')
    BY <1>4, <2>1
  <2> HIDE DEF Good
  <2> QED
    BY <1>3, <1>4, <2>1, <2>2, <2>3, <2>4
<1>15. CASE ViewExportEnds
  <2>1. /\ export # None /\ export' = None /\ view' = view /\ strays' = strays
        /\ written' \in {None, IF screen = "reports" THEN export
                               ELSE [name |-> view.said.of, facts |-> view.seen]}
    BY <1>15 DEF ViewExportEnds
  <2>2. /\ screen \in {"reports", "sensor"}
        /\ screen = "reports" => FileIsTrue(export)
        /\ screen = "sensor" => IsOfItsRange(view)
    BY <1>4, <2>1
  <2>3. ASSUME written' # None PROVE FileIsTrue(written')
    <3>1. CASE screen = "reports"
      BY <2>1, <2>2, <2>3, <3>1
    <3>2. CASE screen = "sensor"
      <4>1. written' = [name |-> view.said.of, facts |-> view.seen]
        BY <2>1, <2>3, <3>2
      <4>2. /\ view.said = [of |-> view.choice, seen |-> view.seen]
            /\ \A f \in Present(view.seen) : AgeOf[f] <= view.choice
        BY <2>2, <3>2 DEF IsOfItsRange, Ranged, ScopeOf
      <4>3. written'.name = view.choice /\ written'.facts = view.seen
        <5>1. view.said.of = view.choice
          BY <4>2
        <5> QED
          BY <4>1, <5>1
      <4> QED
        BY <2>2, <3>2, <4>2, <4>3 DEF FileIsTrue
    <3> QED
      BY <2>2, <3>1, <3>2
  <2>4. view' # None => Good(view')
    BY <1>4, <2>1
  <2> HIDE DEF Good
  <2> QED
    BY <1>3, <1>4, <2>1, <2>3, <2>4
<1> QED
  BY <1>5, <1>6, <1>7, <1>8, <1>9, <1>10, <1>11, <1>12, <1>13, <1>14, <1>15 DEF ViewsNext

\* A window is of one choice and one read, and so is a file.
LEMMA ViewsHold == ViewsInv => ViewsAreTrue
BY DEF ViewsInv, ViewsAreTrue, FileIsTrue

-----------------------------------------------------------------------------
\* THE WINDOWS OF WHAT WAS RECORDED

IsFilter(f) == f = [range |-> f.range, component |-> f.component, workload |-> f.workload]

\* The fields of a table.
IsTable(t) ==
    /\ t = [loaded |-> t.loaded, rows |-> t.rows, filter |-> t.filter, selected |-> t.selected,
            detail |-> t.detail, pending |-> t.pending, owns |-> t.owns]
    /\ IsFilter(t.filter)
    /\ t.pending \in BOOLEAN

\* A true table of records that are stored.  One that is not shown is not fresh, and will
\* not be.
TrueTable(t, fresh, all) ==
    /\ IsTable(t)
    /\ t.loaded \subseteq all
    /\ \A r \in t.rows : r \in t.loaded /\ Matches(t.filter, r)
    /\ \A r \in t.loaded \ t.rows : ~Matches(t.filter, r) \/ (t.filter.range # "All" /\ r \notin fresh)
    /\ t.selected \in t.rows \cup {None}
    /\ t.selected # None /\ ~t.pending => t.detail = t.selected

\* Counts of what was stored.
CountsAreOf(counts, all) ==
    \A w \in DOMAIN counts :
        \E S \in SUBSET {r \in all \cap Incidents : WorkloadOf[r] = w} :
            counts[w].incidents = Cardinality(S)

TrueCounts(a, all) ==
    /\ a = [range |-> a.range, counts |-> a.counts, selected |-> a.selected, owns |-> a.owns]
    /\ CountsAreOf(a.counts, all)

OutcomeIsTrue ==
    outcome # None =>
        CASE "record" \in DOMAIN outcome -> Arrived(outcome.record)
          [] "viewed" \in DOMAIN outcome -> WorkloadIsViewed(outcome.viewed)
          [] OTHER -> ExportIsTrue(outcome)

WindowsInv ==
    /\ history # None => TrueTable(history, recent, stored)
    /\ sessionsWin # None => TrueTable(sessionsWin, recent, stored)
    /\ analytics # None => TrueCounts(analytics, stored)
    /\ dialog # None => TrueTable(history, recent, stored)
    /\ OutcomeIsTrue

LEMMA WindowsInitially == WindowsInit => WindowsInv
BY DEF WindowsInit, WindowsInv, OutcomeIsTrue

LEMMA TrueTableIsTrue == \A t : TrueTable(t, recent, stored) => TableIsTrue(t)
BY DEF TrueTable, TableIsTrue, Within

\* Tables and counts stay true while records are added and grow old.
LEMMA TableStaysTrue ==
    ASSUME NEW t, NEW fresh, NEW all, TrueTable(t, fresh, all),
           NEW fresher, NEW more, all \subseteq more, fresher \cap all \subseteq fresh
    PROVE  TrueTable(t, fresher, more)
BY DEF TrueTable

LEMMA CountsStayTrue ==
    ASSUME NEW a, NEW all, TrueCounts(a, all), NEW more, all \subseteq more
    PROVE  TrueCounts(a, more)
<1>1. ASSUME NEW w \in DOMAIN a.counts
      PROVE  \E S \in SUBSET {r \in more \cap Incidents : WorkloadOf[r] = w} :
                 a.counts[w].incidents = Cardinality(S)
  <2>1. PICK S \in SUBSET {r \in all \cap Incidents : WorkloadOf[r] = w} :
            a.counts[w].incidents = Cardinality(S)
    BY DEF TrueCounts, CountsAreOf
  <2>2. S \in SUBSET {r \in more \cap Incidents : WorkloadOf[r] = w}
    OBVIOUS
  <2> QED
    BY <2>1, <2>2
<1> QED
  BY <1>1 DEF TrueCounts, CountsAreOf

\* What fields of a table are when some of them are set.
LEMMA TableWithFilter ==
    ASSUME NEW t, IsTable(t), NEW f, NEW x, x = [t EXCEPT !.filter = f]
    PROVE  x = [loaded |-> t.loaded, rows |-> t.rows, filter |-> f, selected |-> t.selected,
                detail |-> t.detail, pending |-> t.pending, owns |-> t.owns]
BY DEF IsTable

LEMMA TableWithLoaded ==
    ASSUME NEW t, IsTable(t), NEW l, NEW x, x = [t EXCEPT !.loaded = l]
    PROVE  x = [loaded |-> l, rows |-> t.rows, filter |-> t.filter, selected |-> t.selected,
                detail |-> t.detail, pending |-> t.pending, owns |-> t.owns]
BY DEF IsTable

LEMMA TableWithRows ==
    ASSUME NEW t, IsTable(t), NEW s, NEW x, x = [t EXCEPT !.rows = s, !.selected = None]
    PROVE  x = [loaded |-> t.loaded, rows |-> s, filter |-> t.filter, selected |-> None,
                detail |-> t.detail, pending |-> t.pending, owns |-> t.owns]
BY DEF IsTable

LEMMA TableWithSelected ==
    ASSUME NEW t, IsTable(t), NEW r, NEW x, x = [t EXCEPT !.selected = r, !.pending = TRUE]
    PROVE  x = [loaded |-> t.loaded, rows |-> t.rows, filter |-> t.filter, selected |-> r,
                detail |-> t.detail, pending |-> TRUE, owns |-> t.owns]
BY DEF IsTable

LEMMA TableWithDetail ==
    ASSUME NEW t, IsTable(t), NEW d, NEW x, x = [t EXCEPT !.detail = d, !.pending = FALSE]
    PROVE  x = [loaded |-> t.loaded, rows |-> t.rows, filter |-> t.filter, selected |-> t.selected,
                detail |-> d, pending |-> FALSE, owns |-> t.owns]
BY DEF IsTable

LEMMA TableWithBoth ==
    ASSUME NEW t, IsTable(t), NEW r, NEW x,
           x = [t EXCEPT !.selected = r, !.detail = r, !.pending = TRUE]
    PROVE  x = [loaded |-> t.loaded, rows |-> t.rows, filter |-> t.filter, selected |-> r,
                detail |-> r, pending |-> TRUE, owns |-> t.owns]
BY DEF IsTable

LEMMA TableWithOwns ==
    ASSUME NEW t, IsTable(t), NEW o, NEW x, x = [t EXCEPT !.owns = o]
    PROVE  x = [loaded |-> t.loaded, rows |-> t.rows, filter |-> t.filter, selected |-> t.selected,
                detail |-> t.detail, pending |-> t.pending, owns |-> o]
BY DEF IsTable

\* The rows of what a filter is applied to.
LEMMA AppliedIsTrue ==
    ASSUME NEW t, IsTable(t), t.loaded \subseteq stored, NEW a, a = Applied(t)
    PROVE  /\ TrueTable(a, recent, stored)
           /\ a.loaded = t.loaded /\ a.filter = t.filter
           /\ a.rows = {r \in t.loaded : Matches(t.filter, r) /\ Within(t.filter.range, r)}
<1> DEFINE s == {r \in t.loaded : Matches(t.filter, r) /\ Within(t.filter.range, r)}
<1>1. a = [t EXCEPT !.rows = s, !.selected = None]
  BY DEF Applied
<1> HIDE DEF s
<1>2. a = [loaded |-> t.loaded, rows |-> s, filter |-> t.filter, selected |-> None,
           detail |-> t.detail, pending |-> t.pending, owns |-> t.owns]
  BY <1>1, TableWithRows
<1>3. IsTable(a)
  BY <1>2 DEF IsTable
<1>4. /\ a.loaded = t.loaded /\ a.filter = t.filter /\ a.rows = s /\ a.selected = None
  BY <1>2
<1>5. ASSUME NEW r \in t.loaded \ s
      PROVE  ~Matches(t.filter, r) \/ (t.filter.range # "All" /\ r \notin recent)
  <2>1. ~(Matches(t.filter, r) /\ Within(t.filter.range, r))
    BY <1>5 DEF s
  <2>2. Within(t.filter.range, r) \/ (t.filter.range # "All" /\ r \notin recent)
    BY DEF Within
  <2> QED
    BY <2>1, <2>2
<1>6. TrueTable(a, recent, stored)
  <2>1. \A r \in s : r \in t.loaded /\ Matches(t.filter, r)
    BY DEF s
  <2> QED
    BY <1>3, <1>4, <1>5, <2>1 DEF TrueTable
<1> QED
  BY <1>4, <1>6 DEF s

LEMMA ReloadedIsTrue ==
    ASSUME NEW t, IsTable(t), NEW read \in SUBSET stored, NEW a, a = TableReloaded(t, read)
    PROVE  /\ TrueTable(a, recent, stored)
           /\ a.loaded = read /\ a.filter = t.filter
           /\ a.rows = {r \in read : Matches(t.filter, r) /\ Within(t.filter.range, r)}
<1> DEFINE x == [t EXCEPT !.loaded = read]
<1>1. x = [loaded |-> read, rows |-> t.rows, filter |-> t.filter, selected |-> t.selected,
           detail |-> t.detail, pending |-> t.pending, owns |-> t.owns]
  BY TableWithLoaded
<1>2. a = Applied(x)
  BY DEF TableReloaded
<1> HIDE DEF x
<1>3. x.loaded = read /\ x.filter = t.filter
  BY <1>1
<1>4. IsTable(x)
  BY <1>1, <1>3 DEF IsTable
<1> QED
  BY <1>2, <1>3, <1>4, AppliedIsTrue

\* Every record is found under no filter.
LEMMA NoFilterHidesNothing ==
    /\ IsFilter(NoFilter) /\ NoFilter.range = "All"
    /\ \A r : Matches(NoFilter, r) /\ Within(NoFilter.range, r)
BY DEF IsFilter, NoFilter, Matches, Within

\* A record that is drilled down to is selected if it was read.
LEMMA DrilledDownIsTrue ==
    ASSUME NEW t, IsTable(t), NEW read \in SUBSET stored, NEW r, NEW d, d = DrilledDown(t, read, r)
    PROVE  /\ TrueTable(d, recent, stored)
           /\ d.rows = d.loaded
           /\ r \in d.loaded => d.selected = r /\ d.detail = r
<1> DEFINE x == [t EXCEPT !.filter = NoFilter]
           a == TableReloaded(x, read)
<1>1. x = [loaded |-> t.loaded, rows |-> t.rows, filter |-> NoFilter, selected |-> t.selected,
           detail |-> t.detail, pending |-> t.pending, owns |-> t.owns]
  BY TableWithFilter
<1>2. d = IF r \in a.rows THEN [a EXCEPT !.selected = r, !.detail = r, !.pending = TRUE] ELSE a
  BY DEF DrilledDown
<1> HIDE DEF x
<1>3. x.filter = NoFilter /\ x.pending = t.pending
  BY <1>1
<1>4. IsTable(x)
  BY <1>1, <1>3, NoFilterHidesNothing DEF IsTable
<1>5. /\ TrueTable(a, recent, stored) /\ a.loaded = read
      /\ a.rows = {o \in read : Matches(NoFilter, o) /\ Within(NoFilter.range, o)}
  BY <1>3, <1>4, ReloadedIsTrue
<1>6. a.rows = a.loaded
  BY <1>5, NoFilterHidesNothing
<1> HIDE DEF a
<1>7. CASE r \in a.rows
  <2>1. d = [a EXCEPT !.selected = r, !.detail = r, !.pending = TRUE]
    BY <1>2, <1>7
  <2>2. d = [loaded |-> a.loaded, rows |-> a.rows, filter |-> a.filter, selected |-> r,
             detail |-> r, pending |-> TRUE, owns |-> a.owns]
    BY <1>5, <2>1, TableWithBoth DEF TrueTable
  <2>3. /\ d.loaded = a.loaded /\ d.rows = a.rows /\ d.filter = a.filter
        /\ d.selected = r /\ d.detail = r
    BY <2>2
  <2>4. IsTable(d)
    BY <1>5, <2>2, <2>3 DEF IsTable, TrueTable
  <2>5. TrueTable(d, recent, stored)
    BY <1>5, <1>7, <2>3, <2>4 DEF TrueTable
  <2> QED
    BY <1>6, <2>3, <2>5
<1>8. CASE r \notin a.rows
  BY <1>2, <1>5, <1>6, <1>8
<1> QED
  BY <1>7, <1>8

\* A new table, or the one that is there.
LEMMA OpenedIsTable ==
    ASSUME NEW f, IsFilter(f)
    PROVE  IsTable(Opened(f)) /\ Opened(f).filter = f
<1>1. /\ Opened(f).filter = f /\ Opened(f).pending = FALSE
      /\ Opened(f) = [loaded |-> Opened(f).loaded, rows |-> Opened(f).rows,
                      filter |-> Opened(f).filter, selected |-> Opened(f).selected,
                      detail |-> Opened(f).detail, pending |-> Opened(f).pending,
                      owns |-> Opened(f).owns]
  BY DEF Opened
<1> QED
  BY <1>1 DEF IsTable

LEMMA OpenedHistoryIsTrue ==
    ASSUME history # None => TrueTable(history, recent, stored), NEW read \in SUBSET stored
    PROVE  /\ TrueTable(OpenedHistory(read), recent, stored)
           /\ OpenedHistory(read).loaded = read
<1>1. IsFilter(NoFilter)
  BY NoFilterHidesNothing
<1> QED
  BY <1>1, OpenedIsTable, ReloadedIsTrue DEF OpenedHistory, TrueTable

\* A text that is set.
LEMMA FilterWithWorkload ==
    ASSUME NEW f, IsFilter(f), NEW w, NEW g, g = [f EXCEPT !.workload = w]
    PROVE  IsFilter(g) /\ g = [range |-> f.range, component |-> f.component, workload |-> w]
<1>1. g = [range |-> f.range, component |-> f.component, workload |-> w]
  BY DEF IsFilter
<1> QED
  BY <1>1 DEF IsFilter

WithWorkload(t, w) == [t EXCEPT !.filter.workload = w]

LEMMA TableWithWorkload ==
    ASSUME NEW t, IsTable(t), NEW w
    PROVE  LET x == WithWorkload(t, w)
           IN IsTable(x) /\ x.loaded = t.loaded /\ x.filter.workload = w
<1> DEFINE f == [t.filter EXCEPT !.workload = w]
           x == WithWorkload(t, w)
<1>1. IsFilter(f) /\ f = [range |-> t.filter.range, component |-> t.filter.component, workload |-> w]
  BY FilterWithWorkload DEF IsTable
<1>2. x = [t EXCEPT !.filter = f]
  BY DEF WithWorkload
<1> HIDE DEF f, x
<1>3. x = [loaded |-> t.loaded, rows |-> t.rows, filter |-> f, selected |-> t.selected,
           detail |-> t.detail, pending |-> t.pending, owns |-> t.owns]
  BY <1>2, TableWithFilter
<1>4. x.filter = f /\ x.pending = t.pending /\ x.loaded = t.loaded
  BY <1>3
<1>5. IsTable(x)
  BY <1>1, <1>3, <1>4 DEF IsTable
<1>6. x.filter.workload = w
  BY <1>1, <1>4
<1> QED
  BY <1>4, <1>5, <1>6 DEF x

LEMMA OpenedSessionsIsTrue ==
    ASSUME sessionsWin # None => TrueTable(sessionsWin, recent, stored),
           NEW own, NEW w, NEW read \in SUBSET stored
    PROVE  TrueTable(OpenedSessions(own, w, read), recent, stored)
<1>1. CASE own /\ sessionsWin # None /\ w = None
  BY <1>1 DEF OpenedSessions
<1>2. CASE own /\ sessionsWin # None /\ w # None
  <2> DEFINE x == WithWorkload(sessionsWin, w)
  <2>1. IsTable(x)
    BY <1>2, TableWithWorkload DEF TrueTable
  <2>2. OpenedSessions(own, w, read) = TableReloaded(x, read)
    BY <1>2 DEF OpenedSessions, WithWorkload
  <2> HIDE DEF x
  <2> QED
    BY <2>1, <2>2, ReloadedIsTrue
<1>3. CASE ~(own /\ sessionsWin # None)
  <2> DEFINE f == [NoFilter EXCEPT !.workload = w]
  <2>1. IsFilter(f)
    BY NoFilterHidesNothing, FilterWithWorkload
  <2>2. OpenedSessions(own, w, read) = TableReloaded(Opened(f), read)
    BY <1>3 DEF OpenedSessions
  <2> HIDE DEF f
  <2> QED
    BY <2>1, <2>2, OpenedIsTable, ReloadedIsTrue
<1> QED
  BY <1>1, <1>2, <1>3

LEMMA TableOwns ==
    ASSUME NEW t, TrueTable(t, recent, stored), NEW o, NEW x, x = [t EXCEPT !.owns = o]
    PROVE  TrueTable(x, recent, stored)
<1>1. x = [loaded |-> t.loaded, rows |-> t.rows, filter |-> t.filter, selected |-> t.selected,
           detail |-> t.detail, pending |-> t.pending, owns |-> o]
  BY TableWithOwns DEF TrueTable
<1>2. /\ x.loaded = t.loaded /\ x.rows = t.rows /\ x.filter = t.filter
      /\ x.selected = t.selected /\ x.detail = t.detail /\ x.pending = t.pending
  BY <1>1
<1>3. IsTable(x)
  BY <1>1, <1>2 DEF IsTable, TrueTable
<1> QED
  BY <1>2, <1>3, Zenon DEF TrueTable

LEMMA RefilteredIsTrue ==
    ASSUME NEW t, TrueTable(t, recent, stored), NEW x \in Refiltered(t)
    PROVE  TrueTable(x, recent, stored)
<1>1. PICK f \in Filters : x = Applied([t EXCEPT !.filter = f])
  BY DEF Refiltered
<1> DEFINE y == [t EXCEPT !.filter = f]
<1>2. IsFilter(f)
  BY DEF Filters, IsFilter
<1>3. y = [loaded |-> t.loaded, rows |-> t.rows, filter |-> f, selected |-> t.selected,
           detail |-> t.detail, pending |-> t.pending, owns |-> t.owns]
  BY TableWithFilter DEF TrueTable
<1>4. x = Applied(y)
  BY <1>1
<1> HIDE DEF y
<1>5. y.loaded = t.loaded /\ y.filter = f /\ y.pending = t.pending
  BY <1>3
<1>6. IsTable(y)
  BY <1>2, <1>3, <1>5 DEF IsTable, TrueTable
<1> QED
  BY <1>4, <1>5, <1>6, AppliedIsTrue DEF TrueTable

LEMMA SelectedIsTrue ==
    ASSUME NEW t, TrueTable(t, recent, stored), NEW x \in Selected(t)
    PROVE  TrueTable(x, recent, stored)
<1>1. PICK r \in t.rows : x = [t EXCEPT !.selected = r, !.pending = TRUE]
  BY DEF Selected
<1>2. x = [loaded |-> t.loaded, rows |-> t.rows, filter |-> t.filter, selected |-> r,
           detail |-> t.detail, pending |-> TRUE, owns |-> t.owns]
  BY <1>1, TableWithSelected DEF TrueTable
<1>3. /\ x.loaded = t.loaded /\ x.rows = t.rows /\ x.filter = t.filter
      /\ x.selected = r /\ x.pending
  BY <1>2
<1>4. IsTable(x)
  BY <1>2, <1>3 DEF IsTable, TrueTable
<1> QED
  BY <1>3, <1>4, Zenon DEF TrueTable

LEMMA DetailIsTrue ==
    ASSUME NEW t, TrueTable(t, recent, stored), NEW x, x = DetailOf(t)
    PROVE  TrueTable(x, recent, stored)
<1> DEFINE d == IF t.selected = None THEN t.detail ELSE t.selected
<1>1. x = [t EXCEPT !.detail = d, !.pending = FALSE]
  BY DEF DetailOf
<1> HIDE DEF d
<1>2. x = [loaded |-> t.loaded, rows |-> t.rows, filter |-> t.filter, selected |-> t.selected,
           detail |-> d, pending |-> FALSE, owns |-> t.owns]
  BY <1>1, TableWithDetail DEF TrueTable
<1>3. /\ x.loaded = t.loaded /\ x.rows = t.rows /\ x.filter = t.filter
      /\ x.selected = t.selected /\ x.detail = d
  BY <1>2
<1>4. IsTable(x)
  BY <1>2, <1>3 DEF IsTable, TrueTable
<1>5. x.selected # None => x.detail = x.selected
  BY <1>3 DEF d
<1> QED
  BY <1>3, <1>4, <1>5, Zenon DEF TrueTable

\* What Analytics counts is stored.
LEMMA CountsAreTrue ==
    ASSUME NEW incidents \in SUBSET stored, NEW sessions \in SUBSET stored, NEW range
    PROVE  CountsAreOf(Computed(range, incidents, sessions), stored)
<1> DEFINE these == {r \in incidents \cup sessions : Within(range, r)}
           S(w) == {r \in these \cap Incidents : WorkloadOf[r] = w}
           c == Computed(range, incidents, sessions)
<1>1. c = [v \in {WorkloadOf[r] : r \in these} |-> WorkloadStats(v, these)]
  BY DEF Computed
<1>2. \A w : WorkloadStats(w, these).incidents = Cardinality(S(w))
  BY DEF WorkloadStats
<1>3. \A w : S(w) \in SUBSET {r \in stored \cap Incidents : WorkloadOf[r] = w}
  OBVIOUS
<1> HIDE DEF these, S, c
<1>4. \A w \in DOMAIN c : c[w] = WorkloadStats(w, these)
  BY <1>1
<1>5. \A w \in DOMAIN c : c[w].incidents = Cardinality(S(w))
  BY <1>2, <1>4
<1>6. CountsAreOf(c, stored)
  BY <1>3, <1>5 DEF CountsAreOf
<1> QED
  BY <1>6 DEF c

LEMMA NewAnalyticsIsTrue ==
    ASSUME NEW incidents \in SUBSET stored, NEW sessions \in SUBSET stored,
           NEW a, a = NewAnalytics(incidents, sessions)
    PROVE  TrueCounts(a, stored)
<1> DEFINE c == Computed("All", incidents, sessions)
<1>1. a = [range |-> "All", counts |-> c, selected |-> None, owns |-> FALSE]
  BY DEF NewAnalytics
<1>2. CountsAreOf(c, stored)
  BY CountsAreTrue
<1> HIDE DEF c
<1>3. a.counts = c /\ a.range = "All" /\ a.selected = None /\ a.owns = FALSE
  BY <1>1
<1> QED
  BY <1>1, <1>2, <1>3 DEF TrueCounts

LEMMA CountsKept ==
    ASSUME NEW a, TrueCounts(a, stored), NEW x, NEW s, NEW o,
           x = [a EXCEPT !.selected = s] \/ x = [a EXCEPT !.owns = o]
    PROVE  TrueCounts(x, stored)
<1>1. a = [range |-> a.range, counts |-> a.counts, selected |-> a.selected, owns |-> a.owns]
  BY DEF TrueCounts
<1>2. CASE x = [a EXCEPT !.selected = s]
  <2>1. x = [range |-> a.range, counts |-> a.counts, selected |-> s, owns |-> a.owns]
    BY <1>1, <1>2
  <2>2. x.counts = a.counts /\ x.range = a.range /\ x.selected = s /\ x.owns = a.owns
    BY <2>1
  <2> QED
    BY <2>1, <2>2 DEF TrueCounts
<1>3. CASE x = [a EXCEPT !.owns = o]
  <2>1. x = [range |-> a.range, counts |-> a.counts, selected |-> a.selected, owns |-> o]
    BY <1>1, <1>3
  <2>2. x.counts = a.counts /\ x.range = a.range /\ x.selected = a.selected /\ x.owns = o
    BY <2>1
  <2> QED
    BY <2>1, <2>2 DEF TrueCounts
<1> QED
  BY <1>2, <1>3

\* A table with the incidents of a workload, and as many as were counted of it.
ShowsAllCounted(h, w, counts) ==
    /\ \A i \in h.rows : WorkloadOf[i] = w \/ <<w, i>> \in FoundIn
    /\ \/ h.filter # [NoFilter EXCEPT !.workload = w]
       \/ h.loaded = {} \/ w \notin DOMAIN counts
       \/ Cardinality({i \in h.rows : WorkloadOf[i] = w}) >= counts[w].incidents

\* What VIEW INCIDENTS shows: all there is of the workload, under no filter but it.
LEMMA ViewedIsTrue ==
    ASSUME WindowsInv, analytics # None, NEW w, w # None, NEW read \in {stored \cap Incidents, {}},
           NEW h, h = Applied(WithWorkload(OpenedHistory(read), w))
    PROVE  TrueTable(h, recent, stored) /\ ShowsAllCounted(h, w, analytics.counts)
<1> DEFINE o == OpenedHistory(read)
           x == WithWorkload(o, w)
<1>1. TrueTable(o, recent, stored) /\ o.loaded = read
  BY OpenedHistoryIsTrue DEF WindowsInv
<1> HIDE DEF o
<1>2. IsTable(x) /\ x.loaded = read /\ x.filter.workload = w
  <2>1. IsTable(o)
    BY <1>1 DEF TrueTable
  <2> QED
    BY <1>1, <2>1, TableWithWorkload
<1>3. h = Applied(x)
  BY DEF o
<1> HIDE DEF x
<1>4. /\ TrueTable(h, recent, stored) /\ h.loaded = read /\ h.filter = x.filter
      /\ h.rows = {r \in read : Matches(x.filter, r) /\ Within(x.filter.range, r)}
  BY <1>2, <1>3, AppliedIsTrue
<1>5. \A i \in h.rows : <<w, i>> \in FoundIn
  BY <1>2, <1>4 DEF Matches
<1>6. ASSUME h.filter = [NoFilter EXCEPT !.workload = w], h.loaded # {},
             w \in DOMAIN analytics.counts
      PROVE  Cardinality({i \in h.rows : WorkloadOf[i] = w}) >= analytics.counts[w].incidents
  <2> DEFINE those == {r \in stored \cap Incidents : WorkloadOf[r] = w}
             viewed == {i \in h.rows : WorkloadOf[i] = w}
  <2>1. PICK S \in SUBSET those : analytics.counts[w].incidents = Cardinality(S)
    BY <1>6 DEF WindowsInv, TrueCounts, CountsAreOf
  <2>2. x.filter.range = "All" /\ x.filter.component = "All"
    BY <1>4, <1>6, NoFilterHidesNothing, FilterWithWorkload DEF NoFilter
  <2>3. read = stored \cap Incidents
    BY <1>4, <1>6
  <2>4. viewed = those
    <3>1. ASSUME NEW i \in those PROVE i \in h.rows
      <4>1. <<w, i>> \in FoundIn
        BY WindowConstants
      <4> QED
        BY <1>2, <1>4, <2>2, <2>3, <4>1 DEF Matches, Within
    <3>2. \A i \in h.rows : i \in stored \cap Incidents
      BY <1>4, <2>3
    <3> QED
      BY <3>1, <3>2
  <2>5. IsFiniteSet(those)
    BY WindowConstants, FS_Subset
  <2>6. Cardinality(S) \in Nat /\ Cardinality(those) \in Nat /\ Cardinality(S) <= Cardinality(those)
    BY <2>5, FS_Subset, FS_CardinalityType
  <2> QED
    BY <2>1, <2>4, <2>6
<1> QED
  BY <1>4, <1>5, <1>6 DEF ShowsAllCounted

\* A range that is chosen, and the counts of what was read of it.
LEMMA CountsRecomputed ==
    ASSUME NEW a, TrueCounts(a, stored), NEW range, NEW c, CountsAreOf(c, stored),
           NEW x, x = [a EXCEPT !.range = range, !.counts = c]
    PROVE  TrueCounts(x, stored)
<1>1. a = [range |-> a.range, counts |-> a.counts, selected |-> a.selected, owns |-> a.owns]
  BY DEF TrueCounts
<1>2. x = [range |-> range, counts |-> c, selected |-> a.selected, owns |-> a.owns]
  BY <1>1
<1>3. x.range = range /\ x.counts = c /\ x.selected = a.selected /\ x.owns = a.owns
  BY <1>2
<1> QED
  BY <1>2, <1>3 DEF TrueCounts

\* What is done to one table, or to none, leaves what is true of the others alone.
LEMMA SameRecords ==
    ASSUME WindowsInv, UNCHANGED <<stored, recent>>, OutcomeIsTrue',
           history' = history \/ (history' # None => TrueTable(history', recent, stored)),
           sessionsWin' = sessionsWin \/ (sessionsWin' # None => TrueTable(sessionsWin', recent, stored)),
           analytics' = analytics \/ (analytics' # None => TrueCounts(analytics', stored)),
           dialog' # None => TrueTable(history', recent, stored)
    PROVE  WindowsInv'
<1>1. (history # None => TrueTable(history, recent, stored))'
  BY DEF WindowsInv
<1>2. (sessionsWin # None => TrueTable(sessionsWin, recent, stored))'
  BY DEF WindowsInv
<1>3. (analytics # None => TrueCounts(analytics, stored))'
  BY DEF WindowsInv
<1>4. (dialog # None => TrueTable(history, recent, stored))'
  OBVIOUS
<1> QED
  BY <1>1, <1>2, <1>3, <1>4 DEF WindowsInv

\* A record is added to those that are stored, or is no longer a fresh one.
LEMMA RecordsComeAndAge ==
    ASSUME WindowsInv, RecordCompleted \/ RecordAges
    PROVE  WindowsInv'
<1>1. /\ stored \subseteq stored' /\ recent' \cap stored \subseteq recent
      /\ UNCHANGED <<history, sessionsWin, analytics, dialog>> /\ outcome' = None
  BY DEF RecordCompleted, RecordAges, NoOutcome
<1>2. (history # None => TrueTable(history, recent, stored))'
  BY <1>1, TableStaysTrue DEF WindowsInv
<1>3. (sessionsWin # None => TrueTable(sessionsWin, recent, stored))'
  BY <1>1, TableStaysTrue DEF WindowsInv
<1>4. (analytics # None => TrueCounts(analytics, stored))'
  BY <1>1, CountsStayTrue DEF WindowsInv
<1>5. (dialog # None => TrueTable(history, recent, stored))'
  BY <1>1, TableStaysTrue DEF WindowsInv
<1>6. OutcomeIsTrue'
  BY <1>1 DEF OutcomeIsTrue
<1> QED
  BY <1>2, <1>3, <1>4, <1>5, <1>6 DEF WindowsInv

\* An outcome of each kind.
LEMMA OutcomesAreTrue ==
    /\ outcome' = None => OutcomeIsTrue'
    /\ \A r : outcome' = [record |-> r] /\ Arrived(r)' => OutcomeIsTrue'
    /\ \A w : outcome' = [viewed |-> w] /\ WorkloadIsViewed(w)' => OutcomeIsTrue'
    /\ \A n, f, s : outcome' = [file |-> n, filter |-> f, records |-> s] /\ (\A r \in s : Matches(f, r))
                        => OutcomeIsTrue'
<1>1. outcome' = None => OutcomeIsTrue'
  BY DEF OutcomeIsTrue
<1>2. ASSUME NEW r, outcome' = [record |-> r], Arrived(r)'
      PROVE  OutcomeIsTrue'
  <2>1. "record" \in DOMAIN outcome' /\ "viewed" \notin DOMAIN outcome' /\ outcome'.record = r
    BY <1>2
  <2>2. Arrived(outcome.record)'
    BY <1>2, <2>1 DEF Arrived
  <2> QED
    BY <2>1, <2>2 DEF OutcomeIsTrue
<1>3. ASSUME NEW w, outcome' = [viewed |-> w], WorkloadIsViewed(w)'
      PROVE  OutcomeIsTrue'
  <2>1. "record" \notin DOMAIN outcome' /\ "viewed" \in DOMAIN outcome' /\ outcome'.viewed = w
    BY <1>3
  <2>2. WorkloadIsViewed(outcome.viewed)'
    BY <1>3, <2>1 DEF WorkloadIsViewed
  <2> QED
    BY <2>1, <2>2 DEF OutcomeIsTrue
<1>4. ASSUME NEW n, NEW f, NEW s, outcome' = [file |-> n, filter |-> f, records |-> s],
             \A r \in s : Matches(f, r)
      PROVE  OutcomeIsTrue'
  <2>1. /\ "record" \notin DOMAIN outcome' /\ "viewed" \notin DOMAIN outcome'
        /\ outcome'.filter = f /\ outcome'.records = s
    BY <1>4
  <2>2. ExportIsTrue(outcome)'
    BY <1>4, <2>1 DEF ExportIsTrue
  <2> QED
    BY <2>1, <2>2 DEF OutcomeIsTrue
<1> QED
  BY <1>1, <1>2, <1>3, <1>4

\* What is done in the History window, and to it.
HistoryIsUsed ==
    \/ OpenHistory \/ CloseHistory \/ FilterHistory \/ SelectIncident \/ IncidentIsShown
    \/ IncidentExportBegins \/ IncidentExportEnds \/ IncidentMarker

LEMMA HistoryStaysTrue ==
    ASSUME WindowsInv, HistoryIsUsed
    PROVE  WindowsInv'
<1>1. /\ history # None => TrueTable(history, recent, stored)
      /\ dialog # None => TrueTable(history, recent, stored)
  BY DEF WindowsInv
<1>2. \A read \in Reads(Incidents) :
          /\ read \in SUBSET stored
          /\ TrueTable(OpenedHistory(read), recent, stored)
  <2>1. \A read \in Reads(Incidents) : read \in SUBSET stored
    BY DEF Reads
  <2> QED
    BY <1>1, <2>1, OpenedHistoryIsTrue
<1>3. CASE OpenHistory
  <2>1. /\ TrueTable(history', recent, stored) /\ outcome' = None
        /\ UNCHANGED <<stored, recent, sessionsWin, analytics>>
    BY <1>2, <1>3 DEF OpenHistory, UsesHistory, NoOutcome
  <2> QED
    BY <2>1, SameRecords, OutcomesAreTrue
<1>4. CASE CloseHistory
  <2>1. /\ history' = None /\ dialog' = None /\ outcome' = None
        /\ UNCHANGED <<stored, recent, sessionsWin, analytics>>
    BY <1>4 DEF CloseHistory, UsesHistory, NoOutcome
  <2> QED
    BY <2>1, SameRecords, OutcomesAreTrue
<1>5. CASE FilterHistory
  <2>1. /\ history # None /\ history' \in Refiltered(history) /\ outcome' = None
        /\ UNCHANGED <<stored, recent, sessionsWin, analytics>>
    BY <1>5 DEF FilterHistory, UsesHistory, NoOutcome
  <2>2. TrueTable(history', recent, stored)
    BY <1>1, <2>1, RefilteredIsTrue
  <2> QED
    BY <2>1, <2>2, SameRecords, OutcomesAreTrue
<1>6. CASE SelectIncident
  <2>1. /\ history # None /\ history' \in Selected(history) /\ outcome' = None
        /\ UNCHANGED <<stored, recent, sessionsWin, analytics>>
    BY <1>6 DEF SelectIncident, UsesHistory, NoOutcome
  <2>2. TrueTable(history', recent, stored)
    BY <1>1, <2>1, SelectedIsTrue
  <2> QED
    BY <2>1, <2>2, SameRecords, OutcomesAreTrue
<1>7. CASE IncidentIsShown
  <2>1. /\ history # None /\ history' = DetailOf(history) /\ outcome' = None
        /\ UNCHANGED <<stored, recent, sessionsWin, analytics>>
    BY <1>7 DEF IncidentIsShown, NoOutcome
  <2>2. TrueTable(history', recent, stored)
    BY <1>1, <2>1, DetailIsTrue
  <2> QED
    BY <2>1, <2>2, SameRecords, OutcomesAreTrue
<1>8. CASE IncidentExportBegins
  <2>1. /\ history # None /\ history' = history /\ outcome' = None
        /\ UNCHANGED <<stored, recent, sessionsWin, analytics>>
    BY <1>8 DEF IncidentExportBegins, UsesHistory, NoOutcome
  <2> QED
    BY <1>1, <2>1, SameRecords, OutcomesAreTrue
<1>9. CASE IncidentExportEnds
  <2>1. /\ history' = history /\ dialog # None /\ dialog' = None
        /\ outcome' = None \/ outcome' = Payload
        /\ UNCHANGED <<stored, recent, sessionsWin, analytics>>
    BY <1>9 DEF IncidentExportEnds, UsesHistory
  <2>2. \A r \in history.rows : Matches(history.filter, r)
    BY <1>1, <2>1 DEF TrueTable
  <2>3. \A r \in {dialog} : Matches(NoFilter, r)
    BY NoFilterHidesNothing
  <2>4. OutcomeIsTrue'
    <3>1. CASE outcome' = None
      BY <3>1, OutcomesAreTrue
    <3>2. CASE outcome' = Payload /\ dialog = "filtered"
      <4>1. outcome' = [file |-> "filtered", filter |-> history.filter, records |-> history.rows]
        BY <3>2 DEF Payload
      <4> QED
        BY <2>2, <4>1, OutcomesAreTrue
    <3>3. CASE outcome' = Payload /\ dialog # "filtered"
      <4>1. outcome' = [file |-> "selected", filter |-> NoFilter, records |-> {dialog}]
        BY <3>3 DEF Payload
      <4> QED
        BY <2>3, <4>1, OutcomesAreTrue
    <3> QED
      BY <2>1, <3>1, <3>2, <3>3
  <2> QED
    BY <2>1, <2>4, SameRecords
<1>10. CASE IncidentMarker
  <2>1. PICK i \in stored \cap Incidents, first \in Reads(Incidents), second \in Reads(Incidents) :
            /\ history' = DrilledDown(OpenedHistory(first), second, i)
            /\ outcome' = [record |-> i]
            /\ UNCHANGED <<stored, recent, sessionsWin, analytics, dialog>>
    BY <1>10 DEF IncidentMarker
  <2>2. /\ TrueTable(history', recent, stored)
        /\ history'.rows = history'.loaded
        /\ i \in history'.loaded => history'.selected = i /\ history'.detail = i
    <3> DEFINE o == OpenedHistory(first)
    <3>1. IsTable(o)
      BY <1>2 DEF TrueTable
    <3>2. second \in SUBSET stored
      BY <1>2
    <3>3. history' = DrilledDown(o, second, i)
      BY <2>1
    <3> HIDE DEF o
    <3> QED
      BY <3>1, <3>2, <3>3, DrilledDownIsTrue
  <2>3. Arrived(i)'
    BY <2>2 DEF Arrived
  <2>4. OutcomeIsTrue'
    BY <2>1, <2>3, OutcomesAreTrue
  <2> QED
    BY <2>1, <2>2, <2>4, SameRecords
<1> QED
  BY <1>3, <1>4, <1>5, <1>6, <1>7, <1>8, <1>9, <1>10 DEF HistoryIsUsed

\* What is done in the Sessions window.
SessionsIsUsed ==
    CloseSessions \/ FilterSessions \/ SelectSession \/ SessionIsShown \/ RefreshSessions

LEMMA SessionsStaysTrue ==
    ASSUME WindowsInv, SessionsIsUsed
    PROVE  WindowsInv'
<1>1. /\ sessionsWin # None => TrueTable(sessionsWin, recent, stored)
      /\ dialog # None => TrueTable(history, recent, stored)
  BY DEF WindowsInv
<1>2. /\ outcome' = None
      /\ UNCHANGED <<stored, recent, history, analytics, dialog>>
  BY DEF SessionsIsUsed, CloseSessions, FilterSessions, SelectSession, SessionIsShown, RefreshSessions,
         UsesSessions, NoOutcome
<1>3. sessionsWin' # None => TrueTable(sessionsWin', recent, stored)
  <2>1. CASE CloseSessions
    BY <2>1 DEF CloseSessions
  <2>2. CASE FilterSessions
    BY <1>1, <2>2, RefilteredIsTrue DEF FilterSessions
  <2>3. CASE SelectSession
    BY <1>1, <2>3, SelectedIsTrue DEF SelectSession
  <2>4. CASE SessionIsShown
    BY <1>1, <2>4, DetailIsTrue DEF SessionIsShown
  <2>5. CASE RefreshSessions
    <3>1. PICK read \in Reads(Sessions) : sessionsWin # None /\ sessionsWin' = TableReloaded(sessionsWin, read)
      BY <2>5 DEF RefreshSessions
    <3>2. read \in SUBSET stored
      BY DEF Reads
    <3> QED
      BY <1>1, <3>1, <3>2, ReloadedIsTrue DEF TrueTable
  <2> QED
    BY <2>1, <2>2, <2>3, <2>4, <2>5 DEF SessionsIsUsed
<1> QED
  BY <1>1, <1>2, <1>3, SameRecords, OutcomesAreTrue

\* What is done in the Analytics window, and to the others from there.
AnalyticsIsUsed ==
    OpenAnalytics \/ CloseAnalytics \/ Recompute \/ SelectWorkload \/ ViewIncidents \/ OpenSessions

LEMMA AnalyticsStaysTrue ==
    ASSUME WindowsInv, AnalyticsIsUsed
    PROVE  WindowsInv'
<1>1. /\ history # None => TrueTable(history, recent, stored)
      /\ sessionsWin # None => TrueTable(sessionsWin, recent, stored)
      /\ analytics # None => TrueCounts(analytics, stored)
      /\ dialog # None => TrueTable(history, recent, stored)
  BY DEF WindowsInv
<1>2. /\ \A read \in Reads(Incidents) : read \in SUBSET stored
      /\ \A read \in Reads(Sessions) : read \in SUBSET stored
  BY DEF Reads
<1>3. CASE OpenAnalytics
  <2>1. PICK incidents \in Reads(Incidents), sessions \in Reads(Sessions) :
            analytics' = NewAnalytics(incidents, sessions)
    BY <1>3 DEF OpenAnalytics
  <2>2. /\ history # None /\ history' = [history EXCEPT !.owns = TRUE] /\ outcome' = None
        /\ UNCHANGED <<stored, recent, sessionsWin, dialog>>
    BY <1>3 DEF OpenAnalytics, NoOutcome
  <2>3. TrueTable(history', recent, stored)
    BY <1>1, <2>2, TableOwns
  <2>4. TrueCounts(analytics', stored)
    BY <1>2, <2>1, NewAnalyticsIsTrue
  <2> QED
    BY <2>2, <2>3, <2>4, SameRecords, OutcomesAreTrue
<1>4. CASE CloseAnalytics
  <2>1. /\ analytics' = None /\ outcome' = None
        /\ UNCHANGED <<stored, recent, history, sessionsWin, dialog>>
    BY <1>4 DEF CloseAnalytics, UsesAnalytics, NoOutcome
  <2> QED
    BY <1>1, <2>1, SameRecords, OutcomesAreTrue
<1>5. CASE Recompute
  <2>1. PICK range \in {"All", "24h"}, incidents \in Reads(Incidents), sessions \in Reads(Sessions) :
            analytics' = [analytics EXCEPT !.range = range, !.counts = Computed(range, incidents, sessions)]
    BY <1>5 DEF Recompute
  <2>2. /\ analytics # None /\ outcome' = None
        /\ UNCHANGED <<stored, recent, history, sessionsWin, dialog>>
    BY <1>5 DEF Recompute, UsesAnalytics, NoOutcome
  <2> DEFINE c == Computed(range, incidents, sessions)
  <2>3. CountsAreOf(c, stored)
    <3>1. incidents \in SUBSET stored /\ sessions \in SUBSET stored
      BY <1>2
    <3> QED
      BY <3>1, CountsAreTrue
  <2>4. analytics' = [analytics EXCEPT !.range = range, !.counts = c]
    BY <2>1
  <2> HIDE DEF c
  <2>5. TrueCounts(analytics', stored)
    BY <1>1, <2>2, <2>3, <2>4, CountsRecomputed
  <2> QED
    BY <1>1, <2>2, <2>5, SameRecords, OutcomesAreTrue
<1>6. CASE SelectWorkload
  <2>1. PICK w : analytics' = [analytics EXCEPT !.selected = w]
    BY <1>6 DEF SelectWorkload
  <2>2. /\ analytics # None /\ outcome' = None
        /\ UNCHANGED <<stored, recent, history, sessionsWin, dialog>>
    BY <1>6 DEF SelectWorkload, UsesAnalytics, NoOutcome
  <2>3. TrueCounts(analytics', stored)
    BY <1>1, <2>1, <2>2, CountsKept
  <2> QED
    BY <1>1, <2>2, <2>3, SameRecords, OutcomesAreTrue
<1>7. CASE ViewIncidents
  <2>1. PICK read \in Reads(Incidents) :
            history' = Applied([OpenedHistory(read) EXCEPT !.filter.workload = analytics.selected])
    BY <1>7 DEF ViewIncidents
  <2>2. /\ analytics # None /\ analytics.selected # None /\ outcome' = [viewed |-> analytics.selected]
        /\ UNCHANGED <<stored, recent, sessionsWin, analytics, dialog>>
    BY <1>7 DEF ViewIncidents, UsesAnalytics
  <2>3. read \in {stored \cap Incidents, {}}
    BY DEF Reads
  <2> PICK w : w = analytics.selected
    OBVIOUS
  <2>4. history' = Applied(WithWorkload(OpenedHistory(read), w))
    BY <2>1 DEF WithWorkload
  <2>5. TrueTable(history', recent, stored) /\ ShowsAllCounted(history', w, analytics.counts)
    <3>1. w # None /\ analytics # None /\ WindowsInv
      BY <1>7, <2>2
    <3> QED
      BY <2>3, <2>4, <3>1, ViewedIsTrue
  <2>6. WorkloadIsViewed(w)'
    BY <2>2, <2>5 DEF WorkloadIsViewed, ShowsAllCounted
  <2>7. OutcomeIsTrue'
    BY <2>2, <2>6, OutcomesAreTrue
  <2> QED
    BY <2>2, <2>5, <2>7, SameRecords
<1>8. CASE OpenSessions
  <2>1. PICK read \in Reads(Sessions) :
            sessionsWin' = OpenedSessions(analytics.owns, analytics.selected, read)
    BY <1>8 DEF OpenSessions
  <2>2. /\ analytics # None /\ analytics' = [analytics EXCEPT !.owns = TRUE] /\ outcome' = None
        /\ UNCHANGED <<stored, recent, history, dialog>>
    BY <1>8 DEF OpenSessions, UsesAnalytics, NoOutcome
  <2>3. TrueTable(sessionsWin', recent, stored)
    BY <1>1, <1>2, <2>1, OpenedSessionsIsTrue
  <2>4. TrueCounts(analytics', stored)
    BY <1>1, <2>2, CountsKept
  <2> QED
    BY <1>1, <2>2, <2>3, <2>4, SameRecords, OutcomesAreTrue
<1> QED
  BY <1>3, <1>4, <1>5, <1>6, <1>7, <1>8 DEF AnalyticsIsUsed

\* A marker of a session: the three windows are reached, one from the other.
LEMMA SessionMarkerStaysTrue ==
    ASSUME WindowsInv, SessionMarker
    PROVE  WindowsInv'
<1>1. /\ history # None => TrueTable(history, recent, stored)
      /\ sessionsWin # None => TrueTable(sessionsWin, recent, stored)
      /\ analytics # None => TrueCounts(analytics, stored)
  BY DEF WindowsInv
<1>2. PICK s \in stored \cap Sessions, incidents \in Reads(Incidents), sessions \in Reads(Sessions) :
          LET known == history # None /\ history.owns /\ analytics # None
              window == IF known THEN analytics ELSE NewAnalytics(incidents, sessions)
          IN /\ history' = [OpenedHistory(incidents) EXCEPT !.owns = TRUE]
             /\ analytics' = [window EXCEPT !.owns = TRUE]
             /\ sessionsWin' = DrilledDown(OpenedSessions(window.owns, window.selected, sessions), sessions, s)
             /\ outcome' = [record |-> s]
  BY DEF SessionMarker
<1> DEFINE known == history # None /\ history.owns /\ analytics # None
           window == IF known THEN analytics ELSE NewAnalytics(incidents, sessions)
           h == OpenedHistory(incidents)
           o == OpenedSessions(window.owns, window.selected, sessions)
<1>3. incidents \in SUBSET stored /\ sessions \in SUBSET stored /\ s \notin Incidents
  BY WindowConstants DEF Reads
<1>4. TrueTable(h, recent, stored)
  BY <1>1, <1>3, OpenedHistoryIsTrue
<1>5. TrueTable(o, recent, stored)
  BY <1>1, <1>3, OpenedSessionsIsTrue
<1>6. TrueCounts(window, stored)
  <2>1. CASE known
    BY <1>1, <2>1
  <2>2. CASE ~known
    BY <1>3, <2>2, NewAnalyticsIsTrue
  <2> QED
    BY <2>1, <2>2
<1>7. /\ history' = [h EXCEPT !.owns = TRUE]
      /\ analytics' = [window EXCEPT !.owns = TRUE]
      /\ sessionsWin' = DrilledDown(o, sessions, s)
      /\ outcome' = [record |-> s]
  BY <1>2
<1> HIDE DEF known, window, h, o
<1>8. UNCHANGED <<stored, recent, dialog>>
  BY DEF SessionMarker
<1>9. TrueTable(history', recent, stored)
  BY <1>4, <1>7, TableOwns
<1>10. TrueCounts(analytics', stored)
  BY <1>6, <1>7, CountsKept
<1>11. /\ TrueTable(sessionsWin', recent, stored)
       /\ sessionsWin'.rows = sessionsWin'.loaded
       /\ s \in sessionsWin'.loaded => sessionsWin'.selected = s /\ sessionsWin'.detail = s
  <2>1. IsTable(o)
    BY <1>5 DEF TrueTable
  <2> QED
    BY <1>3, <1>7, <2>1, DrilledDownIsTrue
<1>12. Arrived(s)'
  BY <1>3, <1>11 DEF Arrived
<1>13. OutcomeIsTrue'
  BY <1>7, <1>12, OutcomesAreTrue
<1> QED
  BY <1>8, <1>9, <1>10, <1>11, <1>13, SameRecords

\* Each step of the windows keeps what is true of them.
LEMMA WindowsNextInv == WindowsInv /\ [WindowsNext]_windowVars => WindowsInv'
<1>1. ASSUME WindowsInv, UNCHANGED windowVars
      PROVE  WindowsInv'
  <2>1. OutcomeIsTrue'
    BY <1>1 DEF windowVars, WindowsInv, OutcomeIsTrue, Arrived, WorkloadIsViewed, ExportIsTrue
  <2>2. /\ UNCHANGED <<stored, recent, history, sessionsWin, analytics, dialog>>
        /\ dialog # None => TrueTable(history, recent, stored)
    BY <1>1 DEF windowVars, WindowsInv
  <2> QED
    BY <1>1, <2>1, <2>2, SameRecords
<1>2. ASSUME WindowsInv, WindowsNext
      PROVE  WindowsInv'
  <2>1. \/ RecordCompleted \/ RecordAges
        \/ HistoryIsUsed \/ SessionsIsUsed \/ AnalyticsIsUsed \/ SessionMarker
    BY <1>2 DEF WindowsNext, HistoryIsUsed, SessionsIsUsed, AnalyticsIsUsed
  <2> QED
    BY <1>2, <2>1, RecordsComeAndAge, HistoryStaysTrue, SessionsStaysTrue, AnalyticsStaysTrue,
       SessionMarkerStaysTrue
<1> QED
  BY <1>1, <1>2

LEMMA WindowsHold == WindowsInv => WindowsAreTrue
BY TrueTableIsTrue DEF WindowsInv, WindowsAreTrue, OutcomeIsTrue

\* THE SAMPLERS THAT HOLD HANDLES

\* The fields of a sampler.
IsSampler(s) ==
    /\ s = [ok |-> s.ok, query |-> s.query, since |-> s.since, known |-> s.known, primed |-> s.primed]
    /\ s.ok \in BOOLEAN /\ s.query \in BOOLEAN /\ s.primed \in BOOLEAN
    /\ s.since \in Nat
    /\ s.known = [i \in DOMAIN s.known |-> s.known[i]]
    /\ DOMAIN s.known \subseteq Instances
    /\ \A i \in DOMAIN s.known : s.known[i] \in Nat

\* A sampler of a kind.  Counters that were primed are one collection from a value.
SoundSampler(s, k) ==
    /\ IsSampler(s)
    /\ s.since <= ReexpandEvery
    /\ k \notin {"gpu", "disk"} => s.since = 0
    /\ k = "intel" => ~s.query /\ ~s.primed
    /\ s.primed => \A i \in DOMAIN s.known : s.known[i] >= (IF k = "memory" THEN 1 ELSE 2) - 1

\* No instance waits without a counter for more polls than there were since the last
\* expansion, which is due when there is no counter at all.
WaitsInTurn(s, w) ==
    /\ s.known = NoCounters => s.since >= ReexpandEvery
    /\ \A i \in Instances \cap DOMAIN s.known : w[i] <= ReexpandEvery /\ (s.since > 0 => w[i] = 0)
    /\ \A i \in Instances \ DOMAIN s.known : w[i] <= s.since

\* How long instances have waited, unless the sampler was left without a counter.
InTime(s, w, k, all, left) ==
    /\ w \in [Instances -> Nat]
    /\ \A i \in Instances \ all : w[i] = 0
    /\ k \notin {"gpu", "disk"} => \A i \in Instances : w[i] = 0
    /\ left => k \in {"gpu", "disk"} /\ s.since = 0 /\ s.known = NoCounters
    /\ k \in {"gpu", "disk"} /\ s.ok /\ ~left => WaitsInTurn(s, w)

SamplersInv ==
    /\ kind \in Kinds /\ there \in SUBSET Instances
    /\ SoundSampler(sampler, kind)
    /\ held = Own(sampler)
    /\ (polled # None /\ sampler.primed) => polled = DOMAIN sampler.known \cap there
    /\ InTime(sampler, waited, kind, there, stranded)

LEMMA SamplersHold == SamplersInv => HandlesAreHeld
<1> SUFFICES ASSUME SamplersInv PROVE HandlesAreHeld
  OBVIOUS
<1>1. ASSUME Reexpands, sampler.ok, ~stranded
      PROVE  /\ sampler.known = NoCounters => sampler.since >= ReexpandEvery
             /\ \A i \in Instances : waited[i] <= ReexpandEvery
  <2>1. WaitsInTurn(sampler, waited)
    BY <1>1 DEF SamplersInv, InTime, Reexpands
  <2>2. ASSUME NEW i \in Instances
        PROVE  waited[i] <= ReexpandEvery
    <3>1. /\ waited[i] \in Nat /\ ReexpandEvery \in Nat
          /\ sampler.since \in Nat /\ sampler.since <= ReexpandEvery
      BY SamplerConstants DEF SamplersInv, InTime, SoundSampler, IsSampler
    <3>2. CASE i \in DOMAIN sampler.known
      BY <2>1, <3>2 DEF WaitsInTurn
    <3>3. CASE i \notin DOMAIN sampler.known
      <4>1. waited[i] <= sampler.since
        BY <2>1, <3>3 DEF WaitsInTurn
      <4> QED
        BY <3>1, <4>1
    <3> QED
      BY <3>2, <3>3
  <2> QED
    BY <2>1, <2>2 DEF WaitsInTurn
<1> QED
  BY <1>1 DEF SamplersInv, HandlesAreHeld

\* The counters and the query are so many.
LEMMA OwnIsNumber ==
    ASSUME NEW s, IsSampler(s)
    PROVE  Own(s) \in Nat
<1>1. IsFiniteSet(DOMAIN s.known)
  <2>1. DOMAIN s.known \in SUBSET Instances /\ IsFiniteSet(Instances)
    BY SamplerConstants DEF IsSampler
  <2> QED
    BY <2>1, FS_Subset
<1>2. Cardinality(DOMAIN s.known) \in Nat
  BY <1>1, FS_CardinalityType
<1> DEFINE a == IF s.query THEN 1 ELSE 0
           c == Cardinality(DOMAIN s.known)
<1>3. Own(s) = a + c
  BY DEF Own
<1>4. a \in {0, 1}
  OBVIOUS
<1> HIDE DEF a, c
<1>5. a + c \in Nat
  BY <1>2, <1>4 DEF c
<1> QED
  BY <1>3, <1>5

\* Without counters only the query is held.
LEMMA NothingHeld ==
    /\ DOMAIN NoCounters = {} /\ NoCounters = [i \in DOMAIN NoCounters |-> NoCounters[i]]
    /\ Cardinality(DOMAIN NoCounters) = 0
    /\ IsSampler(Empty) /\ Empty.known = NoCounters /\ ~Empty.query /\ ~Empty.primed
    /\ ~Empty.ok /\ Empty.since = 0
    /\ Own(Empty) = 0
<1>1. DOMAIN NoCounters = {} /\ NoCounters = [i \in DOMAIN NoCounters |-> NoCounters[i]]
  BY DEF NoCounters
<1>2. Cardinality(DOMAIN NoCounters) = 0
  BY <1>1, FS_EmptySet
<1>3. /\ Empty = [ok |-> Empty.ok, query |-> Empty.query, since |-> Empty.since,
                  known |-> Empty.known, primed |-> Empty.primed]
      /\ Empty.known = NoCounters /\ Empty.query = FALSE /\ Empty.primed = FALSE
      /\ Empty.ok = FALSE /\ Empty.since = 0
  BY DEF Empty
<1>4. IsSampler(Empty)
  <2>1. /\ Empty.known = [i \in DOMAIN Empty.known |-> Empty.known[i]]
        /\ DOMAIN Empty.known = {}
    BY <1>1, <1>3
  <2>2. Empty.ok \in BOOLEAN /\ Empty.query \in BOOLEAN /\ Empty.primed \in BOOLEAN
    BY <1>3, Zenon
  <2>3. Empty.since \in Nat
    BY <1>3
  <2> QED
    BY <1>3, <2>1, <2>2, <2>3 DEF IsSampler
<1>5. Own(Empty) = 0
  <2>1. Own(Empty) = 0 + Cardinality(DOMAIN NoCounters)
    BY <1>3 DEF Own
  <2> QED
    BY <1>2, <2>1
<1> QED
  BY <1>1, <1>2, <1>3, <1>4, <1>5

\* Fields that are set.
LEMMA RebuiltFields ==
    ASSUME NEW s, IsSampler(s), NEW got, NEW works \in BOOLEAN, NEW r, r = Rebuilt(s, got, works)
    PROVE  r = [ok |-> s.ok, query |-> TRUE, since |-> 0, known |-> Primed(got, works), primed |-> works]
<1> DEFINE k == Primed(got, works)
<1>1. r = [s EXCEPT !.query = TRUE, !.known = k, !.since = 0, !.primed = works]
  BY DEF Rebuilt
<1> HIDE DEF k
<1>2. s = [ok |-> s.ok, query |-> s.query, since |-> s.since, known |-> s.known, primed |-> s.primed]
  BY DEF IsSampler
<1>3. r = [ok |-> s.ok, query |-> TRUE, since |-> 0, known |-> k, primed |-> works]
  BY <1>1, <1>2
<1> QED
  BY <1>3 DEF k

LEMMA PrimedCounters ==
    ASSUME NEW all \in SUBSET Instances, NEW works \in BOOLEAN, NEW p, p = Primed(all, works)
    PROVE  /\ p = [i \in DOMAIN p |-> p[i]] /\ DOMAIN p = all
           /\ \A i \in all : p[i] = (IF works /\ kind # "memory" THEN 1 ELSE 0)
           /\ \A i \in all : p[i] \in Nat
<1>1. p = [i \in all |-> IF works /\ kind # "memory" THEN 1 ELSE 0]
  BY DEF Primed
<1>2. DOMAIN p = all /\ \A i \in all : p[i] = (IF works /\ kind # "memory" THEN 1 ELSE 0)
  BY <1>1
<1>3. p = [i \in DOMAIN p |-> p[i]]
  BY <1>1
<1> QED
  BY <1>2, <1>3

\* A query that is made anew is sound, with the counters that could be added.
SoundRebuilt(r, s, got, works) ==
    /\ SoundSampler(r, kind) /\ DOMAIN r.known = got /\ r.since = 0
    /\ r.query = TRUE /\ r.primed = works /\ r.ok = s.ok

LEMMA RebuiltIsSound ==
    ASSUME NEW s, IsSampler(s), NEW got \in SUBSET Instances, NEW works \in BOOLEAN,
           NEW r, r = Rebuilt(s, got, works), kind \in Kinds, kind # "intel"
    PROVE  SoundRebuilt(r, s, got, works)
<1> DEFINE p == Primed(got, works)
<1>1. r = [ok |-> s.ok, query |-> TRUE, since |-> 0, known |-> p, primed |-> works]
  BY RebuiltFields
<1>2. /\ p = [i \in DOMAIN p |-> p[i]] /\ DOMAIN p = got
      /\ \A i \in got : p[i] = (IF works /\ kind # "memory" THEN 1 ELSE 0)
      /\ \A i \in got : p[i] \in Nat
  BY PrimedCounters
<1> HIDE DEF p
<1>3. r.ok = s.ok /\ r.query = TRUE /\ r.since = 0 /\ r.known = p /\ r.primed = works
  BY <1>1
<1>4. IsSampler(r)
  BY <1>1, <1>2, <1>3 DEF IsSampler
<1>5. ReexpandEvery \in Nat /\ r.since <= ReexpandEvery
  BY <1>3, SamplerConstants
<1>6. r.primed => \A i \in DOMAIN r.known : r.known[i] >= (IF kind = "memory" THEN 1 ELSE 2) - 1
  <2> SUFFICES ASSUME r.primed, NEW i \in got
               PROVE  p[i] >= (IF kind = "memory" THEN 1 ELSE 2) - 1
    BY <1>2, <1>3
  <2>1. CASE kind = "memory"
    BY <1>2, <2>1
  <2>2. CASE kind # "memory"
    <3>1. works
      BY <1>3
    <3>2. p[i] = 1
      BY <1>2, <2>2, <3>1
    <3> QED
      BY <2>2, <3>2
  <2> QED
    BY <2>1, <2>2
<1> QED
  BY <1>2, <1>3, <1>4, <1>5, <1>6 DEF SoundRebuilt, SoundSampler

\* The constructors make one of these.
LEMMA WhatIsBuilt ==
    ASSUME NEW s \in Built, kind # "intel"
    PROVE  \/ s = Empty
           \/ s = [Empty EXCEPT !.query = TRUE]
           \/ \E got \in SUBSET there : \E works \in MayPrime(got) :
                  s = [Rebuilt(Empty, got, works) EXCEPT !.ok = Usable(got)]
           \/ \E query \in {x \in BOOLEAN : Reexpands} :
                  s = [Empty EXCEPT !.ok = TRUE, !.query = query]
<1> DEFINE open == [Empty EXCEPT !.query = TRUE]
           all == UNION {{[Rebuilt(Empty, got, works) EXCEPT !.ok = Usable(got)] : works \in MayPrime(got)} :
                            got \in SUBSET there}
           empty == {[Empty EXCEPT !.ok = TRUE, !.query = query] : query \in {x \in BOOLEAN : Reexpands}}
<1>1. Built = {Empty, open} \cup all \cup empty
  <2>1. Built = IF kind = "intel" THEN AdapterBuilt ELSE {Empty, open} \cup all \cup empty
    BY DEF Built
  <2> HIDE DEF all, empty
  <2> QED
    BY <2>1
<1> HIDE DEF open, all, empty
<1>5. s = Empty \/ s = open \/ s \in all \/ s \in empty
  BY <1>1
<1>2. CASE s \in all
  <2>1. PICK got \in SUBSET there :
            s \in {[Rebuilt(Empty, got, works) EXCEPT !.ok = Usable(got)] : works \in MayPrime(got)}
    BY <1>2 DEF all
  <2> QED
    BY <2>1
<1>3. CASE s \in empty
  BY <1>3 DEF empty
<1>4. CASE s = Empty \/ s = open
  BY <1>4 DEF open
<1> QED
  BY <1>5, <1>2, <1>3, <1>4

\* The constructors.
LEMMA BuiltIsSound ==
    ASSUME kind \in Kinds, there \in SUBSET Instances, NEW s \in Built
    PROVE  SoundSampler(s, kind)
<1>1. /\ IsSampler(Empty) /\ Empty.known = NoCounters /\ ~Empty.query /\ ~Empty.primed
      /\ ~Empty.ok /\ Empty.since = 0
  BY NothingHeld
<1>2. /\ DOMAIN NoCounters = {} /\ NoCounters = [i \in DOMAIN NoCounters |-> NoCounters[i]]
      /\ ReexpandEvery \in Nat /\ 0 <= ReexpandEvery
  BY NothingHeld, SamplerConstants
\* Such as these have no counters, or the selected adapter.
<1>3. ASSUME NEW ok \in BOOLEAN, NEW query \in BOOLEAN, NEW known,
             s = [ok |-> ok, query |-> query, since |-> 0, known |-> known, primed |-> FALSE],
             known = [i \in DOMAIN known |-> known[i]], DOMAIN known \subseteq Instances,
             \A i \in DOMAIN known : known[i] \in Nat,
             kind = "intel" => ~query
      PROVE  SoundSampler(s, kind)
  <2>1. s.ok = ok /\ s.query = query /\ s.since = 0 /\ s.known = known /\ s.primed = FALSE
    BY <1>3
  <2>2. s.ok \in BOOLEAN /\ s.query \in BOOLEAN /\ s.primed \in BOOLEAN
    BY <2>1, Zenon
  <2>5. s.since \in Nat
    BY <2>1
  <2>3. IsSampler(s)
    BY <1>3, <2>1, <2>2, <2>5 DEF IsSampler
  <2>4. s.since <= ReexpandEvery
    BY <1>2, <2>1
  <2> QED
    BY <1>3, <2>1, <2>3, <2>4, Zenon DEF SoundSampler
<1>4. ASSUME s = Empty
      PROVE  SoundSampler(s, kind)
  <2>1. s = [ok |-> FALSE, query |-> FALSE, since |-> 0, known |-> NoCounters, primed |-> FALSE]
    BY <1>4 DEF Empty
  <2> QED
    BY <1>2, <1>3, <2>1
<1>5. CASE kind = "intel"
  <2>1. CASE s = Empty
    BY <1>4, <2>1
  <2>2. CASE \E k \in Connected : s = [Empty EXCEPT !.ok = TRUE, !.known = k]
    <3>1. PICK k \in Connected : s = [Empty EXCEPT !.ok = TRUE, !.known = k]
      BY <2>2
    <3>2. s = [ok |-> TRUE, query |-> FALSE, since |-> 0, known |-> k, primed |-> FALSE]
      BY <3>1 DEF Empty
    <3>3. /\ k = [i \in DOMAIN k |-> k[i]] /\ DOMAIN k \subseteq Instances
          /\ \A i \in DOMAIN k : k[i] \in Nat
      <4>1. CASE k = NoCounters
        BY <1>2, <4>1
      <4>2. CASE k # NoCounters
        <5>1. PICK selected \in there : k = [i \in {selected} |-> 2]
          BY <4>2 DEF Connected
        <5> QED
          BY <5>1
      <4> QED
        BY <4>1, <4>2
    <3> QED
      BY <1>3, <1>5, <3>2, <3>3
  <2> QED
    BY <1>5, <2>1, <2>2 DEF Built, AdapterBuilt
<1>6. CASE kind # "intel"
  <2>1. CASE s = Empty
    BY <1>4, <2>1
  <2>2. CASE s = [Empty EXCEPT !.query = TRUE]
    <3>1. s = [ok |-> FALSE, query |-> TRUE, since |-> 0, known |-> NoCounters, primed |-> FALSE]
      BY <2>2 DEF Empty
    <3> QED
      BY <1>2, <1>3, <1>6, <3>1
  <2>3. CASE \E got \in SUBSET there : \E works \in MayPrime(got) :
                 s = [Rebuilt(Empty, got, works) EXCEPT !.ok = Usable(got)]
    <3>1. PICK got \in SUBSET there : \E works \in MayPrime(got) :
              s = [Rebuilt(Empty, got, works) EXCEPT !.ok = Usable(got)]
      BY <2>3
    <3>10. PICK works \in MayPrime(got) : s = [Rebuilt(Empty, got, works) EXCEPT !.ok = Usable(got)]
      BY <3>1
    <3> DEFINE r == Rebuilt(Empty, got, works)
               ok == Usable(got)
    <3>2. works \in BOOLEAN /\ ok \in BOOLEAN
      BY <1>6 DEF MayPrime, Usable, Kinds, Reexpands
    <3>12. got \in SUBSET Instances /\ r = Rebuilt(Empty, got, works)
      OBVIOUS
    <3> HIDE DEF r, ok
    <3>3. /\ SoundSampler(r, kind) /\ DOMAIN r.known = got /\ r.since = 0
          /\ r.query = TRUE /\ r.primed = works
      <4>1. SoundRebuilt(r, Empty, got, works)
        BY <1>1, <1>6, <3>2, <3>12, RebuiltIsSound
      <4> QED
        BY <4>1, Zenon DEF SoundRebuilt
    <3>4. r = [ok |-> r.ok, query |-> r.query, since |-> r.since, known |-> r.known, primed |-> r.primed]
      BY <3>3 DEF SoundSampler, IsSampler
    <3>5. s = [r EXCEPT !.ok = ok]
      BY <3>10 DEF r, ok
    <3>6. s = [ok |-> ok, query |-> r.query, since |-> r.since, known |-> r.known, primed |-> r.primed]
      BY <3>4, <3>5
    <3>7. /\ s.ok = ok /\ s.query = r.query /\ s.since = r.since /\ s.known = r.known
          /\ s.primed = r.primed
      BY <3>6
    <3>8. s.ok \in BOOLEAN /\ s.query \in BOOLEAN /\ s.primed \in BOOLEAN
      BY <3>2, <3>3, <3>7, Zenon
    <3>9. IsSampler(s)
      BY <3>3, <3>6, <3>7, <3>8 DEF SoundSampler, IsSampler
    <3> QED
      BY <1>6, <3>3, <3>7, <3>9, Zenon DEF SoundSampler
  <2>4. CASE \E query \in {x \in BOOLEAN : Reexpands} : s = [Empty EXCEPT !.ok = TRUE, !.query = query]
    <3>1. PICK query \in BOOLEAN : Reexpands /\ s = [Empty EXCEPT !.ok = TRUE, !.query = query]
      BY <2>4
    <3>2. s = [ok |-> TRUE, query |-> query, since |-> 0, known |-> NoCounters, primed |-> FALSE]
      BY <3>1 DEF Empty
    <3> QED
      BY <1>2, <1>3, <1>6, <3>2
  <2> QED
    BY <1>6, <2>1, <2>2, <2>3, <2>4, WhatIsBuilt
<1> QED
  BY <1>5, <1>6

\* No polls are counted yet.
LEMMA BuiltIsFresh ==
    ASSUME NEW s \in Built
    PROVE  s.since = 0
<1>1. Empty = [ok |-> FALSE, query |-> FALSE, since |-> 0, known |-> NoCounters, primed |-> FALSE]
  BY DEF Empty
<1>2. CASE kind = "intel"
  <2>1. s = Empty \/ \E k \in Connected : s = [Empty EXCEPT !.ok = TRUE, !.known = k]
    BY <1>2 DEF Built, AdapterBuilt
  <2>2. ASSUME NEW k, s = [Empty EXCEPT !.ok = TRUE, !.known = k] PROVE s.since = 0
    BY <1>1, <2>2
  <2>3. Empty.since = 0
    BY <1>1
  <2> QED
    BY <2>1, <2>2, <2>3, Zenon
<1>3. CASE kind # "intel"
  <2>1. ASSUME NEW got, NEW works, s = [Rebuilt(Empty, got, works) EXCEPT !.ok = Usable(got)]
        PROVE  s.since = 0
    <3> DEFINE ok == Usable(got)
               k == Primed(got, works)
               e == Empty
    <3>1. Rebuilt(e, got, works) = [e EXCEPT !.query = TRUE, !.known = k, !.since = 0, !.primed = works]
      BY DEF Rebuilt
    <3> HIDE DEF ok, k
    <3>2. Rebuilt(Empty, got, works) =
              [ok |-> FALSE, query |-> TRUE, since |-> 0, known |-> k, primed |-> works]
      BY <1>1, <3>1
    <3> HIDE DEF e
    <3> PICK m : m = Rebuilt(Empty, got, works)
      OBVIOUS
    <3>3. s = [m EXCEPT !.ok = ok]
      BY <2>1 DEF ok
    <3>4. m = [ok |-> FALSE, query |-> TRUE, since |-> 0, known |-> k, primed |-> works]
      BY <3>2
    <3> QED
      BY <3>3, <3>4
  <2>2. ASSUME s = [Empty EXCEPT !.query = TRUE] PROVE s.since = 0
    BY <1>1, <2>2
  <2>3. ASSUME NEW handle, s = [Empty EXCEPT !.ok = TRUE, !.query = handle] PROVE s.since = 0
    BY <1>1, <2>3
  <2>4. Empty.since = 0
    BY <1>1
  <2> QED
    BY <1>3, <2>1, <2>2, <2>3, <2>4, WhatIsBuilt, Zenon
<1> QED
  BY <1>2, <1>3

LEMMA SamplersInitially == SamplersInit => SamplersInv
<1> SUFFICES ASSUME SamplersInit PROVE SamplersInv
  OBVIOUS
<1>1. /\ kind \in Kinds /\ there \in SUBSET Instances /\ sampler \in Built
      /\ held = Own(sampler) /\ polled = None /\ waited = [i \in Instances |-> 0]
  BY DEF SamplersInit
<1>2. SoundSampler(sampler, kind)
  BY <1>1, BuiltIsSound
<1>3. InTime(sampler, waited, kind, there, stranded)
  <2>1. waited \in [Instances -> Nat] /\ \A i \in Instances : waited[i] = 0
    BY <1>1
  <2>2. sampler.since \in Nat /\ ReexpandEvery \in Nat
    BY <1>2, SamplerConstants DEF SoundSampler, IsSampler
  <2>3. stranded = (kind \in {"gpu", "disk"} /\ sampler.ok /\ sampler.known = NoCounters)
    BY DEF SamplersInit, Reexpands
  <2>4. sampler.known = NoCounters => sampler.since = 0
    BY <1>1, BuiltIsFresh
  <2>5. sampler.known # NoCounters => WaitsInTurn(sampler, waited)
    BY <2>1, <2>2 DEF WaitsInTurn
  <2> QED
    BY <2>1, <2>3, <2>4, <2>5 DEF InTime
<1> QED
  BY <1>1, <1>2, <1>3 DEF SamplersInv

\* A collection: each counter is one nearer to its value, or has one.
LEMMA CollectedIsSound ==
    ASSUME kind \in Kinds, kind # "intel", NEW s, SoundSampler(s, kind),
           Reexpands => s.since < ReexpandEvery, NEW c, c = Collected(s)
    PROVE  /\ SoundSampler(c, kind)
           /\ DOMAIN c.known = DOMAIN s.known /\ c.query = s.query /\ c.primed = s.primed
           /\ c.ok = s.ok
           /\ c.since = (IF Reexpands THEN s.since + 1 ELSE 0)
           /\ c.primed => \A i \in DOMAIN c.known : c.known[i] >= Needs
           /\ Own(c) = Own(s)
<1> DEFINE since == IF Reexpands THEN s.since + 1 ELSE 0
           known == [i \in DOMAIN s.known |-> IF s.known[i] < 2 THEN s.known[i] + 1 ELSE 2]
<1>1. IsSampler(s)
  BY DEF SoundSampler
<1>2. c = [s EXCEPT !.since = since, !.known = known]
  BY DEF Collected
<1>3. /\ DOMAIN known = DOMAIN s.known /\ known = [i \in DOMAIN known |-> known[i]]
      /\ \A i \in DOMAIN s.known : known[i] = IF s.known[i] < 2 THEN s.known[i] + 1 ELSE 2
  OBVIOUS
<1>4. since \in Nat /\ since <= ReexpandEvery /\ (kind \notin {"gpu", "disk"} => since = 0)
  <2>1. s.since \in Nat /\ ReexpandEvery \in Nat
    BY <1>1, SamplerConstants DEF IsSampler
  <2>2. CASE Reexpands
    <3>1. s.since < ReexpandEvery /\ since = s.since + 1 /\ kind \in {"gpu", "disk"}
      BY <2>2 DEF Reexpands
    <3> HIDE DEF since
    <3> QED
      BY <2>1, <3>1
  <2>3. CASE ~Reexpands
    <3>1. since = 0
      BY <2>3
    <3> HIDE DEF since
    <3> QED
      BY <2>1, <3>1
  <2> QED
    BY <2>2, <2>3
<1>5. \A i \in DOMAIN s.known : known[i] \in Nat /\ (s.known[i] >= Needs - 1 => known[i] >= Needs)
  <2> SUFFICES ASSUME NEW i \in DOMAIN s.known
               PROVE  known[i] \in Nat /\ (s.known[i] >= Needs - 1 => known[i] >= Needs)
    OBVIOUS
  <2> HIDE DEF known
  <2>1. s.known[i] \in Nat /\ Needs \in {1, 2}
    BY <1>1 DEF IsSampler, Needs
  <2>2. CASE s.known[i] < 2
    <3>1. known[i] = s.known[i] + 1
      BY <1>3, <2>2
    <3> QED
      BY <2>1, <3>1
  <2>3. CASE ~(s.known[i] < 2)
    <3>1. known[i] = 2
      BY <1>3, <2>3
    <3> QED
      BY <2>1, <3>1
  <2> QED
    BY <2>2, <2>3
<1> HIDE DEF since, known
<1>6. c = [ok |-> s.ok, query |-> s.query, since |-> since, known |-> known, primed |-> s.primed]
  BY <1>1, <1>2 DEF IsSampler
<1>7. /\ c.ok = s.ok /\ c.query = s.query /\ c.since = since /\ c.known = known
      /\ c.primed = s.primed
  BY <1>6
<1>8. IsSampler(c)
  <2>1. c.ok \in BOOLEAN /\ c.query \in BOOLEAN /\ c.primed \in BOOLEAN
    BY <1>1, <1>7, Zenon DEF IsSampler
  <2>2. c.since \in Nat /\ DOMAIN c.known \subseteq Instances
    BY <1>1, <1>3, <1>4, <1>7 DEF IsSampler
  <2>3. c = [ok |-> c.ok, query |-> c.query, since |-> c.since, known |-> c.known, primed |-> c.primed]
    BY <1>6, <1>7
  <2>4. c.known = [i \in DOMAIN c.known |-> c.known[i]] /\ \A i \in DOMAIN c.known : c.known[i] \in Nat
    BY <1>3, <1>5, <1>7
  <2> QED
    BY <2>1, <2>2, <2>3, <2>4 DEF IsSampler
<1>9. Needs = IF kind = "memory" THEN 1 ELSE 2
  BY DEF Needs
<1>10. c.primed => \A i \in DOMAIN c.known : c.known[i] >= Needs
  <2> SUFFICES ASSUME c.primed, NEW i \in DOMAIN c.known PROVE c.known[i] >= Needs
    OBVIOUS
  <2>1. i \in DOMAIN s.known /\ c.known[i] = known[i] /\ s.primed
    BY <1>3, <1>7
  <2>2. s.known[i] >= Needs - 1
    BY <1>9, <2>1 DEF SoundSampler
  <2> QED
    BY <1>5, <2>1, <2>2
<1>11. c.primed => \A i \in DOMAIN c.known : c.known[i] >= (IF kind = "memory" THEN 1 ELSE 2) - 1
  <2> SUFFICES ASSUME c.primed, NEW i \in DOMAIN c.known PROVE c.known[i] >= Needs - 1
    BY <1>9
  <2>1. c.known[i] \in Nat /\ Needs \in {1, 2} /\ c.known[i] >= Needs
    BY <1>8, <1>10 DEF IsSampler, Needs
  <2> QED
    BY <2>1
<1>12. SoundSampler(c, kind)
  <2>1. c.since <= ReexpandEvery /\ (kind \notin {"gpu", "disk"} => c.since = 0)
    BY <1>4, <1>7
  <2> QED
    BY <1>8, <1>11, <2>1, Zenon DEF SoundSampler
<1>13. Own(c) = Own(s)
  BY <1>3, <1>7 DEF Own
<1> QED
  BY <1>3, <1>7, <1>10, <1>12, <1>13 DEF since

\* What a poll starts from, and what was waited without what Windows has just refused.
SoundReady(r) ==
    /\ SoundSampler(r.state, kind)
    /\ InTime(r.state, [i \in Instances |-> Waited(r, i)], kind, there, r.bare)
    /\ r.state.ok
    /\ r.state.known # NoCounters /\ Reexpands => r.state.since < ReexpandEvery
    /\ (r.state = sampler /\ r.freed = 0) \/ r.freed = Own(sampler)
    /\ ~Due => r.state = sampler /\ r.bare = stranded

\* The sampler, or one that was expanded, or was lost in trying to.
LEMMA ReadyIsSound ==
    ASSUME SamplersInv, kind # "intel", sampler.ok, NEW r \in Ready
    PROVE  SoundReady(r)
<1> DEFINE w == [i \in Instances |-> Waited(r, i)]
<1>1. /\ SoundSampler(sampler, kind) /\ InTime(sampler, waited, kind, there, stranded)
      /\ kind \in Kinds /\ there \in SUBSET Instances /\ IsSampler(sampler)
      /\ sampler.since \in Nat /\ ReexpandEvery \in Nat \ {0} /\ waited \in [Instances -> Nat]
  BY SamplerConstants DEF SamplersInv, SoundSampler, IsSampler, InTime
<1>2. w \in [Instances -> Nat] /\ \A i \in Instances : w[i] = waited[i] \/ w[i] = 0
  BY <1>1 DEF Waited
<1>3. r.refused = {} => w = waited
  <2> SUFFICES ASSUME r.refused = {} PROVE w = waited
    OBVIOUS
  <2>1. \A i \in Instances : w[i] = waited[i]
    BY DEF Waited
  <2> HIDE DEF w
  <2> QED
    BY <1>1, <1>2, <2>1
<1>4. \A i \in Instances : i \in r.refused => w[i] = 0
  BY DEF Waited
<1> HIDE DEF w
<1>5. CASE ~Due
  <2>1. r = [state |-> sampler, freed |-> 0, bare |-> stranded, refused |-> {}]
    BY <1>5 DEF Ready
  <2>2. r.state = sampler /\ r.freed = 0 /\ r.bare = stranded /\ r.refused = {}
    BY <2>1
  <2>3. Reexpands => sampler.since < ReexpandEvery
    BY <1>1, <1>5 DEF Due
  <2>4. InTime(r.state, w, kind, there, r.bare)
    BY <1>1, <1>3, <2>2
  <2> QED
    BY <1>1, <2>2, <2>3, <2>4 DEF SoundReady, w
<1>6. CASE Due
  <2>1. /\ sampler.since > 0 /\ sampler.since >= ReexpandEvery /\ kind \in {"gpu", "disk"} /\ ~stranded
        /\ WaitsInTurn(sampler, waited)
        /\ \A i \in Instances : waited[i] <= sampler.since /\ waited[i] <= ReexpandEvery
    <3>1. sampler.since > 0 /\ sampler.since >= ReexpandEvery /\ kind \in {"gpu", "disk"}
      BY <1>1, <1>6 DEF Reexpands, Due
    <3>2. ~stranded
      BY <1>1, <3>1 DEF InTime
    <3>3. WaitsInTurn(sampler, waited)
      BY <1>1, <3>1, <3>2 DEF InTime
    <3>4. ASSUME NEW i \in Instances PROVE waited[i] <= sampler.since /\ waited[i] <= ReexpandEvery
      <4>1. sampler.since <= ReexpandEvery /\ waited[i] \in Nat
        BY <1>1 DEF SoundSampler
      <4>2. waited[i] <= sampler.since
        BY <1>1, <3>1, <3>3 DEF WaitsInTurn
      <4> QED
        BY <1>1, <4>1, <4>2
    <3> QED
      BY <3>1, <3>2, <3>3, <3>4
  <2>2. CASE \E reopened \in BOOLEAN :
                 r = [state |-> Unexpanded(sampler, reopened), freed |-> Own(sampler),
                      bare |-> FALSE, refused |-> {}]
    <3>1. PICK reopened \in BOOLEAN :
              r = [state |-> Unexpanded(sampler, reopened), freed |-> Own(sampler),
                   bare |-> FALSE, refused |-> {}]
      BY <2>2
    <3> PICK s : s = Unexpanded(sampler, reopened)
      OBVIOUS
    <3>2. r.state = s /\ r.freed = Own(sampler) /\ r.bare = FALSE /\ r.refused = {}
      BY <3>1
    <3>3. s = [ok |-> sampler.ok, query |-> reopened, since |-> sampler.since, known |-> NoCounters,
               primed |-> FALSE]
      BY <1>1 DEF IsSampler, Unexpanded
    <3>4. /\ s.ok = sampler.ok /\ s.query = reopened /\ s.since = sampler.since
          /\ s.known = NoCounters /\ s.primed = FALSE
      BY <3>3
    <3>5. IsSampler(s)
      <4>1. s.ok \in BOOLEAN /\ s.query \in BOOLEAN /\ s.primed \in BOOLEAN
        BY <1>1, <3>4, Zenon DEF IsSampler
      <4>2. s = [ok |-> s.ok, query |-> s.query, since |-> s.since, known |-> s.known, primed |-> s.primed]
        BY <3>3, <3>4
      <4>3. s.since \in Nat
        BY <1>1, <3>4
      <4>4. DOMAIN s.known = {} /\ s.known = [i \in DOMAIN s.known |-> s.known[i]]
        BY <3>4, NothingHeld
      <4> QED
        BY <4>1, <4>2, <4>3, <4>4 DEF IsSampler
    <3>6. s.since <= ReexpandEvery
      BY <1>1, <3>4 DEF SoundSampler
    <3>7. SoundSampler(s, kind)
      BY <2>1, <3>4, <3>5, <3>6 DEF SoundSampler
    <3>8. InTime(s, waited, kind, there, r.bare)
      <4>1. DOMAIN s.known = {}
        BY <3>4, NothingHeld
      <4>2. WaitsInTurn(s, waited)
        BY <2>1, <3>4, <4>1 DEF WaitsInTurn
      <4> QED
        BY <1>1, <2>1, <3>2, <4>2 DEF InTime
    <3>9. InTime(r.state, w, kind, there, r.bare)
      BY <1>3, <3>2, <3>8
    <3> QED
      BY <1>6, <3>2, <3>4, <3>7, <3>9 DEF SoundReady, w
  <2>3. CASE \E got \in SUBSET there : \E works \in MayPrime(got) :
                 r = [state |-> Rebuilt(sampler, got, works), freed |-> Own(sampler),
                      bare |-> got = {}, refused |-> there \ got]
    <3>1. PICK got \in SUBSET there : \E works \in MayPrime(got) :
                 r = [state |-> Rebuilt(sampler, got, works), freed |-> Own(sampler),
                      bare |-> got = {}, refused |-> there \ got]
      BY <2>3
    <3>2. PICK works \in MayPrime(got) :
                 r = [state |-> Rebuilt(sampler, got, works), freed |-> Own(sampler),
                      bare |-> got = {}, refused |-> there \ got]
      BY <3>1
    <3>3. works \in BOOLEAN /\ got \in SUBSET Instances /\ kind # "intel"
      BY <1>1 DEF MayPrime
    <3> PICK s : s = Rebuilt(sampler, got, works)
      OBVIOUS
    <3> DEFINE bare == got = {}
    <3>4. r.state = s /\ r.freed = Own(sampler) /\ r.bare = bare /\ r.refused = there \ got
      BY <3>2
    <3>5. /\ SoundSampler(s, kind) /\ DOMAIN s.known = got /\ s.since = 0 /\ s.ok = sampler.ok
      <4>1. SoundRebuilt(s, sampler, got, works)
        BY <1>1, <3>3, RebuiltIsSound
      <4> QED
        BY <4>1, Zenon DEF SoundRebuilt
    <3>6. s.known = [i \in DOMAIN s.known |-> s.known[i]]
      BY <3>5 DEF SoundSampler, IsSampler
    <3>7. bare <=> s.known = NoCounters
      <4>1. bare => s.known = NoCounters
        BY <3>5, <3>6 DEF NoCounters
      <4>2. s.known = NoCounters => bare
        BY <3>5, NothingHeld
      <4> QED
        BY <4>1, <4>2
    <3>8. ASSUME ~bare PROVE WaitsInTurn(s, w)
      <4>1. \A i \in Instances : w[i] \in Nat /\ w[i] <= ReexpandEvery
        BY <1>1, <1>2, <2>1
      <4>2. ASSUME NEW i \in Instances \ DOMAIN s.known PROVE w[i] <= s.since
        <5>1. CASE i \in there
          BY <1>4, <3>4, <3>5, <4>2, <5>1
        <5>2. CASE i \notin there
          <6>1. waited[i] = 0
            BY <1>1, <5>2 DEF InTime
          <6> QED
            BY <1>2, <3>5, <6>1
        <5> QED
          BY <5>1, <5>2
      <4> QED
        BY <3>5, <3>7, <3>8, <4>1, <4>2 DEF WaitsInTurn
    <3> HIDE DEF bare
    <3>9. InTime(s, w, kind, there, bare)
      <4>1. \A i \in Instances \ there : w[i] = 0
        BY <1>1, <1>2 DEF InTime
      <4> QED
        BY <1>2, <2>1, <3>5, <3>7, <3>8, <4>1 DEF InTime
    <3>10. InTime(r.state, w, kind, there, r.bare)
      BY <3>4, <3>9
    <3>11. r.state.since < ReexpandEvery
      BY <1>1, <3>4, <3>5
    <3> QED
      BY <1>6, <3>4, <3>5, <3>10, <3>11 DEF SoundReady, w
  <2> QED
    BY <1>6, <2>2, <2>3 DEF Ready, Expanded
<1> QED
  BY <1>5, <1>6

\* A poll that fails: nobody waits longer, but without a counter and without an attempt.
LEMMA PollFailsInTime ==
    ASSUME kind \in Kinds, there \in SUBSET Instances, NEW r, SoundReady(r), SamplersInv,
           NEW w, w = [i \in Instances |->
                          IF Reexpands /\ i \in there /\ r.state.known = NoCounters /\ ~Due
                          THEN OneMore(waited[i]) ELSE Waited(r, i)]
    PROVE  InTime(r.state, w, kind, there, r.bare)
<1> DEFINE old == [i \in Instances |-> Waited(r, i)]
<1>1. InTime(r.state, old, kind, there, r.bare) /\ waited \in [Instances -> Nat]
  BY DEF SoundReady, SamplersInv, InTime
<1>2. \A i \in Instances : old[i] = Waited(r, i)
  OBVIOUS
<1> HIDE DEF old
<1>3. CASE Reexpands /\ r.state.known = NoCounters /\ ~Due
  <2>1. r.bare
    <3>1. r.state = sampler /\ r.bare = stranded /\ sampler.ok
      BY <1>3 DEF SoundReady
    <3>2. SUFFICES ASSUME ~stranded PROVE FALSE
      BY <3>1
    <3>3. WaitsInTurn(sampler, waited)
      BY <1>3, <3>1, <3>2 DEF SamplersInv, InTime, Reexpands
    <3> QED
      BY <1>3, <3>1, <3>3 DEF WaitsInTurn, Due
  <2>2. ASSUME NEW i \in Instances PROVE w[i] \in Nat /\ (i \notin there => w[i] = 0)
    <3>1. CASE i \in there
      <4>1. w[i] = OneMore(waited[i]) /\ waited[i] \in Nat
        BY <1>1, <1>3, <3>1
      <4>2. OneMore(waited[i]) \in Nat
        BY <4>1 DEF OneMore
      <4> QED
        BY <3>1, <4>1, <4>2
    <3>2. CASE i \notin there
      BY <1>1, <1>2, <3>2 DEF InTime
    <3> QED
      BY <3>1, <3>2
  <2>3. w \in [Instances -> Nat]
    BY <2>2
  <2> QED
    BY <1>1, <1>3, <2>1, <2>2, <2>3 DEF InTime, Reexpands
<1>4. CASE ~(Reexpands /\ r.state.known = NoCounters /\ ~Due)
  <2>1. w = old
    BY <1>4 DEF old
  <2> QED
    BY <1>1, <2>1
<1> QED
  BY <1>3, <1>4

\* A poll that works: who has a counter is no longer waiting, who has not waits one more.
LEMMA PollWorksInTime ==
    ASSUME kind # "intel", kind \in Kinds, there \in SUBSET Instances, NEW r, SoundReady(r),
           r.state.known # NoCounters, NEW c, c = Collected(r.state),
           NEW w, w = [i \in Instances |->
                          IF Reexpands /\ i \in there \ DOMAIN c.known
                          THEN OneMore(Waited(r, i)) ELSE 0]
    PROVE  InTime(c, w, kind, there, r.bare)
<1> DEFINE old == [i \in Instances |-> Waited(r, i)]
<1> PICK s : s = r.state
  OBVIOUS
<1>1. /\ SoundSampler(s, kind) /\ InTime(s, old, kind, there, r.bare) /\ s.ok
      /\ Reexpands => s.since < ReexpandEvery
  BY DEF SoundReady
<1>2. /\ SoundSampler(c, kind) /\ DOMAIN c.known = DOMAIN s.known
      /\ c.since = (IF Reexpands THEN s.since + 1 ELSE 0)
  BY <1>1, CollectedIsSound
<1>3. \A i \in Instances : old[i] = Waited(r, i)
  OBVIOUS
<1> HIDE DEF old
<1>4. old \in [Instances -> Nat] /\ s.since \in Nat /\ c.since \in Nat /\ ReexpandEvery \in Nat
  BY <1>1, <1>2, SamplerConstants DEF InTime, SoundSampler, IsSampler
<1>5. ~r.bare /\ c.known # NoCounters
  <2>1. ~r.bare
    BY <1>1 DEF InTime
  <2>2. s.known = [i \in DOMAIN s.known |-> s.known[i]] /\ s.known # NoCounters
    BY <1>1 DEF SoundSampler, IsSampler
  <2>3. DOMAIN s.known # {}
    BY <2>2 DEF NoCounters
  <2> QED
    BY <1>2, <2>1, <2>3, NothingHeld
<1>6. ASSUME NEW i \in Instances
      PROVE  /\ w[i] \in Nat
             /\ i \notin there \/ i \in DOMAIN c.known \/ ~Reexpands => w[i] = 0
             /\ w[i] = 0 \/ w[i] <= old[i] + 1
  <2>1. OneMore(old[i]) \in Nat /\ OneMore(old[i]) <= old[i] + 1
    BY <1>4 DEF OneMore
  <2>2. CASE Reexpands /\ i \in there \ DOMAIN c.known
    BY <1>3, <2>1, <2>2
  <2>3. CASE ~(Reexpands /\ i \in there \ DOMAIN c.known)
    BY <2>3
  <2> QED
    BY <2>2, <2>3
<1>7. ASSUME kind \in {"gpu", "disk"} PROVE WaitsInTurn(c, w)
  <2>1. WaitsInTurn(s, old) /\ Reexpands
    BY <1>1, <1>5, <1>7 DEF InTime, Reexpands
  <2>2. ASSUME NEW i \in Instances \ DOMAIN c.known
        PROVE  w[i] <= c.since
    <3>1. old[i] <= s.since /\ old[i] \in Nat /\ c.since = s.since + 1
      BY <1>2, <1>4, <2>1 DEF WaitsInTurn
    <3> QED
      BY <1>4, <1>6, <3>1
  <2>3. \A i \in Instances \cap DOMAIN c.known : w[i] = 0
    BY <1>6
  <2> QED
    BY <1>4, <1>5, <2>2, <2>3 DEF WaitsInTurn
<1>8. w \in [Instances -> Nat]
  BY <1>6
<1> QED
  BY <1>5, <1>6, <1>7, <1>8 DEF InTime, Reexpands

LEMMA CollectStaysTrue ==
    ASSUME SamplersInv, CollectCounters
    PROVE  SamplersInv'
<1>1. /\ kind # "intel" /\ sampler.ok /\ kind \in Kinds /\ there \in SUBSET Instances
      /\ UNCHANGED <<kind, there>>
      /\ IsSampler(sampler) /\ held = Own(sampler)
  BY DEF CollectCounters, SamplersInv, SoundSampler
<1>2. PICK r \in Ready :
          /\ PollFails(r) \/ PollWorks(r)
          /\ held' = IF r.state = sampler /\ r.freed = 0 THEN held
                     ELSE held - r.freed + Own(r.state)
          /\ stranded' = r.bare
  BY DEF CollectCounters
<1> PICK s : s = r.state
  OBVIOUS
<1>9. SoundReady(r)
  BY <1>1, ReadyIsSound
<1>3. /\ SoundSampler(s, kind)
      /\ s.known # NoCounters /\ Reexpands => s.since < ReexpandEvery
      /\ (s = sampler /\ r.freed = 0) \/ r.freed = Own(sampler)
  BY <1>9 DEF SoundReady
<1>4. held' = Own(s)
  <2>1. Own(s) \in Nat /\ Own(sampler) \in Nat
    BY <1>1, <1>3, OwnIsNumber DEF SoundSampler
  <2>2. CASE s = sampler /\ r.freed = 0
    BY <1>1, <1>2, <2>2
  <2>3. CASE ~(s = sampler /\ r.freed = 0)
    <3>1. held' = held - r.freed + Own(s) /\ r.freed = Own(sampler)
      BY <1>2, <1>3, <2>3
    <3> QED
      BY <1>1, <2>1, <3>1
  <2> QED
    BY <2>2, <2>3
<1>5. CASE PollFails(r)
  <2> DEFINE w == [i \in Instances |->
                      IF Reexpands /\ i \in there /\ r.state.known = NoCounters /\ ~Due
                      THEN OneMore(waited[i]) ELSE Waited(r, i)]
  <2>1. sampler' = s /\ polled' = None /\ waited' = w
    BY <1>5 DEF PollFails
  <2>2. InTime(s, w, kind, there, r.bare)
    BY <1>1, <1>9, PollFailsInTime
  <2> HIDE DEF w
  <2>3. SoundSampler(sampler', kind') /\ InTime(sampler', waited', kind', there', stranded')
    BY <1>1, <1>2, <1>3, <2>1, <2>2
  <2>4. Own(s) = Own(sampler)'
    BY <2>1 DEF Own
  <2> QED
    BY <1>1, <1>4, <2>1, <2>3, <2>4 DEF SamplersInv
<1>6. CASE PollWorks(r)
  <2> PICK c : c = Collected(s)
    OBVIOUS
  <2> DEFINE w == [i \in Instances |->
                      IF Reexpands /\ i \in there \ DOMAIN c.known
                      THEN OneMore(Waited(r, i)) ELSE 0]
  <2>1. /\ s.query /\ s.known # NoCounters /\ sampler' = c
        /\ polled' = {i \in DOMAIN c.known : i \in there /\ c.known[i] >= Needs}
        /\ waited' = w
    BY <1>6 DEF PollWorks
  <2>2. Reexpands => s.since < ReexpandEvery
    BY <1>3, <2>1
  <2>3. /\ SoundSampler(c, kind)
        /\ c.primed => \A i \in DOMAIN c.known : c.known[i] >= Needs
        /\ Own(c) = Own(s)
    BY <1>1, <1>3, <2>2, CollectedIsSound
  <2>5. InTime(c, w, kind, there, r.bare)
    BY <1>1, <1>9, <2>1, PollWorksInTime
  <2> HIDE DEF w
  <2>6. (polled' # None /\ c.primed) => polled' = DOMAIN c.known \cap there
    BY <2>1, <2>3
  <2>7. Own(sampler)' = Own(c)
    BY <2>1 DEF Own
  <2>8. SoundSampler(sampler', kind') /\ InTime(sampler', waited', kind', there', stranded')
    BY <1>1, <1>2, <2>1, <2>3, <2>5
  <2> QED
    BY <1>1, <1>4, <2>1, <2>3, <2>6, <2>7, <2>8 DEF SamplersInv
<1> QED
  BY <1>2, <1>5, <1>6

LEMMA AdapterStaysTrue ==
    ASSUME SamplersInv, SampleAdapter \/ CloseAdapter
    PROVE  SamplersInv'
<1>1. /\ kind = "intel" /\ kind \in Kinds /\ there \in SUBSET Instances
      /\ UNCHANGED <<kind, there, waited, stranded>>
      /\ IsSampler(sampler) /\ held = Own(sampler) /\ sampler.since = 0
      /\ ~sampler.query /\ ~sampler.primed
      /\ waited \in [Instances -> Nat] /\ \A i \in Instances : waited[i] = 0
      /\ ReexpandEvery \in Nat
  BY SamplerConstants DEF SampleAdapter, CloseAdapter, SamplersInv, SoundSampler, InTime
<1>8. ~stranded
  BY <1>1 DEF SamplersInv, InTime
<1>2. ASSUME NEW s, IsSampler(s), s.since = 0, ~s.query, ~s.primed,
             sampler' = s, held' = Own(s)
      PROVE  SamplersInv'
  <2>1. SoundSampler(s, kind)
    <3>1. s.since <= ReexpandEvery
      BY <1>1, <1>2
    <3> QED
      BY <1>1, <1>2, <3>1 DEF SoundSampler
  <2>2. InTime(s, waited, kind, there, stranded)
    BY <1>1, <1>2, <1>8 DEF InTime
  <2>3. Own(sampler)' = Own(s)
    BY <1>2 DEF Own
  <2>4. SoundSampler(sampler', kind') /\ InTime(sampler', waited', kind', there', stranded')
    BY <1>1, <1>2, <2>1, <2>2
  <2> QED
    BY <1>1, <1>2, <2>3, <2>4 DEF SamplersInv
<1>3. Own(sampler) \in Nat /\ IsSampler(Empty) /\ Own(Empty) = 0 /\ Empty.since = 0
      /\ ~Empty.query /\ ~Empty.primed
  BY <1>1, OwnIsNumber, NothingHeld
<1>4. CASE CloseAdapter
  <2>1. sampler' = Empty /\ held' = held - Own(sampler)
    BY <1>4 DEF CloseAdapter
  <2>2. held' = Own(Empty)
    BY <1>1, <1>3, <2>1
  <2> QED
    BY <1>2, <1>3, <2>1, <2>2
<1>5. CASE SampleAdapter /\ UNCHANGED <<sampler, held>>
  BY <1>1, <1>2, <1>5
<1>6. CASE \E selected \in Connected :
               /\ sampler' = [sampler EXCEPT !.known = selected]
               /\ held' = held - Own(sampler) + Cardinality(DOMAIN selected)
  <2>1. PICK selected \in Connected :
            /\ sampler' = [sampler EXCEPT !.known = selected]
            /\ held' = held - Own(sampler) + Cardinality(DOMAIN selected)
    BY <1>6
  <2>2. /\ selected = [i \in DOMAIN selected |-> selected[i]] /\ DOMAIN selected \subseteq Instances
        /\ \A i \in DOMAIN selected : selected[i] \in Nat
    <3>1. CASE selected = NoCounters
      BY <3>1, NothingHeld
    <3>2. CASE selected # NoCounters
      <4>1. PICK a \in there : selected = [i \in {a} |-> 2]
        BY <3>2 DEF Connected
      <4> QED
        BY <1>1, <4>1
    <3> QED
      BY <3>1, <3>2
  <2> PICK s : s = [sampler EXCEPT !.known = selected]
    OBVIOUS
  <2>3. s = [ok |-> sampler.ok, query |-> sampler.query, since |-> sampler.since, known |-> selected,
             primed |-> sampler.primed]
    BY <1>1 DEF IsSampler
  <2>4. /\ s.ok = sampler.ok /\ s.query = sampler.query /\ s.since = sampler.since
        /\ s.known = selected /\ s.primed = sampler.primed
    BY <2>3
  <2>5. IsSampler(s)
    <3>1. s.ok \in BOOLEAN /\ s.query \in BOOLEAN /\ s.primed \in BOOLEAN
      BY <1>1, <2>4, Zenon DEF IsSampler
    <3>2. s = [ok |-> s.ok, query |-> s.query, since |-> s.since, known |-> s.known, primed |-> s.primed]
      BY <2>3, <2>4
    <3>3. s.since \in Nat
      BY <1>1, <2>4
    <3> QED
      BY <2>2, <2>4, <3>1, <3>2, <3>3 DEF IsSampler
  <2>6. Own(s) = Cardinality(DOMAIN selected)
    <3>1. Own(s) = 0 + Cardinality(DOMAIN selected)
      BY <1>1, <2>4 DEF Own
    <3>2. Own(s) \in Nat
      BY <2>5, OwnIsNumber
    <3>3. IsFiniteSet(DOMAIN selected)
      BY <2>2, SamplerConstants, FS_Subset
    <3>4. Cardinality(DOMAIN selected) \in Nat
      BY <3>3, FS_CardinalityType
    <3> QED
      BY <3>1, <3>4
  <2>7. held' = Own(s)
    <3>1. Own(s) \in Nat
      BY <2>5, OwnIsNumber
    <3> QED
      BY <1>1, <1>3, <2>1, <2>6, <3>1
  <2>8. s.since = 0 /\ ~s.query /\ ~s.primed
    BY <1>1, <2>4
  <2> QED
    BY <1>2, <2>1, <2>5, <2>7, <2>8
<1>7. \/ CloseAdapter
      \/ SampleAdapter /\ UNCHANGED <<sampler, held>>
      \/ \E selected \in Connected :
             /\ sampler' = [sampler EXCEPT !.known = selected]
             /\ held' = held - Own(sampler) + Cardinality(DOMAIN selected)
  BY DEF SampleAdapter
<1> QED
  BY <1>4, <1>5, <1>6, <1>7

\* Whatever comes, goes or fails, the handles stay counted and nothing waits too long.
LEMMA SamplersNextInv == SamplersInv /\ [SamplersNext]_samplerVars => SamplersInv'
<1>1. ASSUME SamplersInv, Hotplug
      PROVE  SamplersInv'
  <2>1. /\ there' \in SUBSET Instances /\ polled' = None
        /\ waited' = [i \in Instances |-> IF i \in there \cap there' THEN waited[i] ELSE 0]
        /\ UNCHANGED <<kind, sampler, held, stranded>>
        /\ kind \in Kinds /\ held = Own(sampler)
    BY <1>1 DEF Hotplug, SamplersInv
  <2>2. /\ SoundSampler(sampler, kind) /\ InTime(sampler, waited, kind, there, stranded)
        /\ waited \in [Instances -> Nat] /\ sampler.since \in Nat /\ ReexpandEvery \in Nat
    BY <1>1, SamplerConstants DEF SamplersInv, InTime, SoundSampler, IsSampler
  <2>4. InTime(sampler, waited', kind, there', stranded)
    <3>1. waited' \in [Instances -> Nat]
      BY <2>1, <2>2
    <3>2. \A i \in Instances : waited'[i] = waited[i] \/ waited'[i] = 0
      BY <2>1
    <3>3. \A i \in Instances \ there' : waited'[i] = 0
      BY <2>1
    <3>4. ASSUME WaitsInTurn(sampler, waited) PROVE WaitsInTurn(sampler, waited')
      <4>1. ASSUME NEW i \in Instances \cap DOMAIN sampler.known
            PROVE  waited'[i] <= ReexpandEvery /\ (sampler.since > 0 => waited'[i] = 0)
        <5>1. waited[i] <= ReexpandEvery /\ (sampler.since > 0 => waited[i] = 0)
          BY <3>4 DEF WaitsInTurn
        <5> QED
          BY <2>2, <3>2, <5>1
      <4>2. ASSUME NEW i \in Instances \ DOMAIN sampler.known
            PROVE  waited'[i] <= sampler.since
        <5>1. waited[i] <= sampler.since
          BY <3>4 DEF WaitsInTurn
        <5> QED
          BY <2>2, <3>2, <5>1
      <4> QED
        BY <3>4, <4>1, <4>2 DEF WaitsInTurn
    <3>6. kind \notin {"gpu", "disk"} => \A i \in Instances : waited'[i] = 0
      BY <2>2, <3>2 DEF InTime
    <3> QED
      BY <2>2, <3>1, <3>3, <3>4, <3>6 DEF InTime
  <2>5. SoundSampler(sampler', kind') /\ InTime(sampler', waited', kind', there', stranded')
    BY <2>1, <2>2, <2>4
  <2>6. Own(sampler)' = Own(sampler)
    BY <2>1 DEF Own
  <2> QED
    BY <2>1, <2>5, <2>6 DEF SamplersInv
<1>2. ASSUME SamplersInv, UNCHANGED samplerVars
      PROVE  SamplersInv'
  <2>1. UNCHANGED <<kind, there, sampler, held, polled, waited, stranded>>
    BY <1>2 DEF samplerVars
  <2>2. Own(sampler)' = Own(sampler)
    BY <2>1 DEF Own
  <2> QED
    BY <1>2, <2>1, <2>2 DEF SamplersInv
<1> QED
  BY <1>1, <1>2, CollectStaysTrue, AdapterStaysTrue DEF SamplersNext

-----------------------------------------------------------------------------
\* THE ROWS OF A PANEL

ByIdentity(u) == <<"id", u>>

\* What a row is made of, and rows with a frame each.
IsRow(r) == r = [frame |-> r.frame, text |-> r.text, opens |-> r.opens]

SoundRows(s) ==
    /\ s = [rows |-> s.rows, frames |-> s.frames]
    /\ IsFiniteSet(s.frames)
    /\ s.frames = {s.rows[k].frame : k \in DOMAIN s.rows}
    /\ \A k \in DOMAIN s.rows : IsRow(s.rows[k])
    /\ \A k, l \in DOMAIN s.rows : s.rows[k].frame = s.rows[l].frame => k = l

LEMMA UnitsAreNumbers == Units = 1 .. Len(NameOf) /\ Len(NameOf) \in Nat /\ IsFiniteSet(Units)
<1>1. Units = 1 .. Len(NameOf) /\ Len(NameOf) \in Nat
  BY PanelConstants DEF Units
<1> HIDE DEF Units
<1>2. 1 \in Int /\ Len(NameOf) \in Int
  BY <1>1
<1> QED
  BY <1>1, <1>2, FS_Interval

\* A key is one of a name or of an identifier, and says whose.
LEMMA KeysTell ==
    ASSUME NEW report
    PROVE  /\ \A u \in Units : IdentityOf(report, u) = Legacy(u) \/ IdentityOf(report, u) = ByIdentity(u)
           /\ \A u, v \in Units : ByIdentity(u) # Legacy(v)
           /\ \A u, v \in Units : ByIdentity(u) = ByIdentity(v) => u = v
           /\ \A u, v \in Units : Legacy(u) = Legacy(v) => NameOf[u] = NameOf[v]
           /\ \A u, v \in Units : NameOf[u] = NameOf[v] => Legacy(u) = Legacy(v)
BY DEF IdentityOf, Legacy, ByIdentity

LEMMA ListedAreUnits ==
    ASSUME NEW report PROVE Listed(report) \subseteq {u \in Units : report[u] # None}
BY DEF Listed

\* There are more numbers than frames to take them.
LEMMA FrameIsFree ==
    ASSUME NEW taken, IsFiniteSet(taken)
    PROVE  FreeFrame(taken) \notin taken
<1> DEFINE c == Cardinality(taken)
           S == (1 .. c + 1) \ taken
<1>1. c \in Nat
  BY FS_CardinalityType
<1>2. ASSUME S = {} PROVE FALSE
  <2>1. 1 .. c + 1 \in SUBSET taken
    BY <1>2
  <2>2. 1 \in Int /\ c + 1 \in Int /\ c + 1 >= 1
    BY <1>1
  <2> HIDE DEF c
  <2>3. Cardinality(1 .. c + 1) = c + 1
    BY <2>2, FS_Interval
  <2>4. Cardinality(1 .. c + 1) <= Cardinality(taken)
    BY <2>1, FS_Subset
  <2> QED
    BY <1>1, <2>3, <2>4 DEF c
<1>3. S \in SUBSET Nat
  BY <1>1
<1>4. Min(S) \in S
  <2> HIDE DEF S
  <2> QED
    BY <1>2, <1>3, MinIsIn
<1>5. FreeFrame(taken) = Min(S)
  BY DEF FreeFrame
<1> HIDE DEF S
<1>6. Min(S) \notin taken
  BY <1>4 DEF S
<1> QED
  BY <1>5, <1>6

LEMMA TextOfRow ==
    ASSUME NEW r, IsRow(r), NEW text
    PROVE  LET new == [r EXCEPT !.text = text]
           IN IsRow(new) /\ new.frame = r.frame /\ new.text = text
<1>1. PICK f, t, o : r = [frame |-> f, text |-> t, opens |-> o]
  BY DEF IsRow
<1>2. [r EXCEPT !.text = text] = [frame |-> f, text |-> text, opens |-> o]
  BY <1>1
<1> QED
  BY <1>1, <1>2 DEF IsRow

LEMMA NewIsRow ==
    ASSUME NEW s, NEW key
    PROVE  IsRow(NewRow(s, key)) /\ NewRow(s, key).frame = FreeFrame(s.frames)
BY DEF NewRow, IsRow

\* An update leaves the other rows alone, and the row updated in its frame.
LEMMA UpdatedIsSound ==
    ASSUME NEW s, SoundRows(s), NEW key, NEW text
    PROVE  LET t == Updated(s, key, text)
           IN /\ SoundRows(t)
              /\ DOMAIN t.rows = DOMAIN s.rows \cup {key}
              /\ t.rows[key].text = text
              /\ \A k \in DOMAIN s.rows : k # key => t.rows[k] = s.rows[k]
              /\ key \in DOMAIN s.rows => t.rows[key].frame = s.rows[key].frame
<1> DEFINE row == IF key \in DOMAIN s.rows THEN s.rows[key] ELSE NewRow(s, key)
           new == [row EXCEPT !.text = text]
           all == [k \in DOMAIN s.rows \cup {key} |-> IF k = key THEN new ELSE s.rows[k]]
           taken == s.frames \cup {row.frame}
           t == Updated(s, key, text)
<1>1. IsRow(row)
  BY NewIsRow DEF SoundRows
<1>2. IsRow(new) /\ new.frame = row.frame /\ new.text = text
  <2> HIDE DEF row
  <2> QED
    BY <1>1, TextOfRow
<1>3. t = [rows |-> all, frames |-> taken]
  BY DEF Updated
<1>4. IF key \in DOMAIN s.rows THEN row = s.rows[key] ELSE row.frame \notin s.frames
  BY NewIsRow, FrameIsFree DEF SoundRows
<1> HIDE DEF row, new, t
<1>5. t.rows = all /\ t.frames = taken /\ t = [rows |-> t.rows, frames |-> t.frames]
  BY <1>3
<1>6. DOMAIN all = DOMAIN s.rows \cup {key} /\ all[key] = new /\ \A k \in DOMAIN s.rows : k # key => all[k] = s.rows[k]
  OBVIOUS
<1>7. IsFiniteSet(taken)
  BY FS_AddElement DEF SoundRows
<1> HIDE DEF all
<1>8. taken = {all[k].frame : k \in DOMAIN all}
  BY <1>2, <1>4, <1>6 DEF SoundRows
<1> HIDE DEF taken
<1>9. \A k \in DOMAIN all : IsRow(all[k])
  BY <1>2, <1>6 DEF SoundRows
<1>10. \A k, l \in DOMAIN all : all[k].frame = all[l].frame => k = l
  <2> SUFFICES ASSUME NEW k \in DOMAIN all, NEW l \in DOMAIN all, all[k].frame = all[l].frame, k # l
               PROVE  FALSE
    OBVIOUS
  <2>1. CASE k # key /\ l # key
    BY <1>6, <2>1 DEF SoundRows
  <2>2. ASSUME NEW j \in DOMAIN s.rows, j # key, all[j].frame = new.frame PROVE FALSE
    <3>1. s.rows[j].frame = row.frame /\ s.rows[j].frame \in s.frames
      BY <1>2, <1>6, <2>2 DEF SoundRows
    <3> QED
      BY <1>4, <2>2, <3>1 DEF SoundRows
  <2> QED
    BY <1>6, <2>1, <2>2
<1>11. SoundRows(t)
  BY <1>5, <1>7, <1>8, <1>9, <1>10 DEF SoundRows
<1>12. t.rows[key].text = text /\ (key \in DOMAIN s.rows => t.rows[key].frame = s.rows[key].frame)
  BY <1>2, <1>4, <1>5, <1>6
<1> QED
  BY <1>5, <1>6, <1>11, <1>12 DEF t

\* A row that takes a new key stays what it is, and the others too.
LEMMA FoundIsSound ==
    ASSUME NEW s, SoundRows(s), NEW key, NEW legacy
    PROVE  LET t == [s EXCEPT !.rows = Found(@, key, legacy)]
               handed == panel \in OfSensors /\ key \notin DOMAIN s.rows /\ legacy \in DOMAIN s.rows
           IN /\ SoundRows(t)
              /\ ~handed => t.rows = s.rows
              /\ handed => /\ DOMAIN t.rows = (DOMAIN s.rows \ {legacy}) \cup {key}
                           /\ t.rows[key] = s.rows[legacy]
                           /\ \A k \in DOMAIN s.rows \ {legacy} : t.rows[k] = s.rows[k]
<1> DEFINE t == [s EXCEPT !.rows = Found(@, key, legacy)]
           handed == panel \in OfSensors /\ key \notin DOMAIN s.rows /\ legacy \in DOMAIN s.rows
           moved == [k \in (DOMAIN s.rows \ {legacy}) \cup {key} |-> IF k = key THEN s.rows[legacy] ELSE s.rows[k]]
<1>1. t = [rows |-> Found(s.rows, key, legacy), frames |-> s.frames]
  <2>1. PICK r, f : s = [rows |-> r, frames |-> f]
    BY DEF SoundRows
  <2> DEFINE g == Found(r, key, legacy)
  <2>2. t = [s EXCEPT !.rows = g]
    BY <2>1
  <2>3. g = Found(s.rows, key, legacy)
    BY <2>1
  <2> HIDE DEF g, t
  <2> QED
    BY <2>1, <2>2, <2>3
<1>2. ~handed => Found(s.rows, key, legacy) = s.rows
  BY DEF Found
<1>3. handed => Found(s.rows, key, legacy) = moved
  BY DEF Found
<1> HIDE DEF t
<1>4. CASE ~handed
  <2>1. t.rows = s.rows /\ t = s
    BY <1>1, <1>2, <1>4 DEF SoundRows
  <2> QED
    BY <1>4, <2>1 DEF t
<1>5. CASE handed
  <2>1. t.rows = moved /\ t.frames = s.frames /\ t = [rows |-> t.rows, frames |-> t.frames]
    BY <1>1, <1>3, <1>5
  <2>2. /\ DOMAIN moved = (DOMAIN s.rows \ {legacy}) \cup {key}
        /\ moved[key] = s.rows[legacy]
        /\ \A k \in DOMAIN s.rows \ {legacy} : moved[k] = s.rows[k]
    BY <1>5
  <2> HIDE DEF moved
  <2>3. key \notin DOMAIN s.rows /\ legacy \in DOMAIN s.rows
    BY <1>5
  <2>4. t.frames = {moved[k].frame : k \in DOMAIN moved}
    BY <2>1, <2>2, <2>3 DEF SoundRows
  <2>5. \A k \in DOMAIN moved : IsRow(moved[k])
    BY <2>2, <2>3 DEF SoundRows
  <2>6. \A k, l \in DOMAIN moved : moved[k].frame = moved[l].frame => k = l
    BY <2>2, <2>3 DEF SoundRows
  <2>7. SoundRows(t)
    <3>1. IsFiniteSet(t.frames)
      BY <2>1 DEF SoundRows
    <3>2. /\ t.frames = {t.rows[k].frame : k \in DOMAIN t.rows}
          /\ \A k \in DOMAIN t.rows : IsRow(t.rows[k])
          /\ \A k, l \in DOMAIN t.rows : t.rows[k].frame = t.rows[l].frame => k = l
      BY <2>1, <2>4, <2>5, <2>6
    <3> QED
      BY <2>1, <3>1, <3>2 DEF SoundRows
  <2> QED
    BY <1>5, <2>1, <2>2, <2>7 DEF t
<1> QED
  BY <1>4, <1>5

\* A spec of _sync_rows gives its key a row with its text, in the frame it had or, when it
\* has none, in that of the sensor's name, which then has none; and it changes no other row.
IsSynced(after, s, key, legacy, text) ==
    LET handed == panel \in OfSensors /\ key \notin DOMAIN s.rows /\ legacy \in DOMAIN s.rows
    IN /\ SoundRows(after)
       /\ after.rows[key].text = text
       /\ key \in DOMAIN after.rows
       /\ key \in DOMAIN s.rows => after.rows[key].frame = s.rows[key].frame
       /\ handed => after.rows[key].frame = s.rows[legacy].frame /\ legacy \notin DOMAIN after.rows
       /\ DOMAIN after.rows \subseteq DOMAIN s.rows \cup {key}
       /\ \A k \in DOMAIN s.rows \ {key} :
             ~(handed /\ k = legacy) => k \in DOMAIN after.rows /\ after.rows[k] = s.rows[k]

LEMMA SyncedIsSound ==
    ASSUME NEW report, NEW s, SoundRows(s), NEW u \in Units
    PROVE  IsSynced(Synced(report, s, u), s, IdentityOf(report, u), Legacy(u), Text(report[u].value))
<1> DEFINE t == Synced(report, s, u)
           key == IdentityOf(report, u)
           legacy == Legacy(u)
           text == Text(report[u].value)
           found == [s EXCEPT !.rows = Found(@, key, legacy)]
           handed == panel \in OfSensors /\ key \notin DOMAIN s.rows /\ legacy \in DOMAIN s.rows
<1>1. t = Updated(found, key, text)
  BY DEF Synced
<1>2. /\ SoundRows(found)
      /\ ~handed => found.rows = s.rows
      /\ handed => /\ DOMAIN found.rows = (DOMAIN s.rows \ {legacy}) \cup {key}
                   /\ found.rows[key] = s.rows[legacy]
                   /\ \A k \in DOMAIN s.rows \ {legacy} : found.rows[k] = s.rows[k]
  <2> HIDE DEF key, legacy
  <2> QED
    BY FoundIsSound, ZenonT(40)
<1> SUFFICES IsSynced(t, s, key, legacy, text)
  OBVIOUS
<1> HIDE DEF t, key, legacy, text, found
<1>3. /\ SoundRows(t)
      /\ DOMAIN t.rows = DOMAIN found.rows \cup {key}
      /\ t.rows[key].text = text
      /\ \A k \in DOMAIN found.rows : k # key => t.rows[k] = found.rows[k]
      /\ key \in DOMAIN found.rows => t.rows[key].frame = found.rows[key].frame
  BY <1>1, <1>2, UpdatedIsSound
<1>4. CASE handed
  BY <1>2, <1>3, <1>4 DEF IsSynced
<1>5. CASE ~handed
  BY <1>2, <1>3, <1>5 DEF IsSynced
<1> QED
  BY <1>4, <1>5

\* Of the rows when the units up to n have been gone through.  A row belongs to one of
\* these or was there before; the one of a unit is only missing when a sensor of the same
\* name that is new under its identifier has taken it; and each is in the frame it had.
NamedAlike(report, u, n) == {v \in Listed(report) : v <= n /\ NameOf[v] = NameOf[u]}

UpTo(report, s, n) ==
    /\ SoundRows(s)
    /\ \A k \in DOMAIN s.rows \ DOMAIN rows : \E u \in Listed(report) : u <= n /\ k = IdentityOf(report, u)
    /\ \A u \in Listed(report) :
          u <= n /\ IdentityOf(report, u) \notin DOMAIN s.rows =>
              \E x \in Listed(report) :
                  /\ IdentityOf(report, u) = Legacy(x)
                  /\ panel \in OfSensors /\ IdentityOf(report, x) \notin DOMAIN rows
    /\ \A u \in Listed(report) :
          /\ u <= n /\ IdentityOf(report, u) \in DOMAIN s.rows
          /\ \A v \in Listed(report) : v <= n /\ IdentityOf(report, v) = IdentityOf(report, u) => v <= u
          => s.rows[IdentityOf(report, u)].text = Text(report[u].value)
    /\ \A u \in Units :
          ByIdentity(u) \in DOMAIN rows =>
              ByIdentity(u) \in DOMAIN s.rows /\ s.rows[ByIdentity(u)].frame = rows[ByIdentity(u)].frame
    /\ \A u \in Units :
          /\ Legacy(u) \in DOMAIN rows
          /\ \A v \in NamedAlike(report, u, n) : IdentityOf(report, v) = Legacy(u)
          => Legacy(u) \in DOMAIN s.rows /\ s.rows[Legacy(u)].frame = rows[Legacy(u)].frame
    /\ \A u \in Listed(report) :
          /\ u <= n /\ panel \in OfSensors /\ Legacy(u) \in DOMAIN rows
          /\ IdentityOf(report, u) = ByIdentity(u) /\ ByIdentity(u) \notin DOMAIN rows
          /\ \A v \in NamedAlike(report, u, n) : v = u
          => ByIdentity(u) \in DOMAIN s.rows /\ s.rows[ByIdentity(u)].frame = rows[Legacy(u)].frame

LEMMA NoneGoneThrough ==
    ASSUME NEW report, SoundRows([rows |-> rows, frames |-> frames])
    PROVE  UpTo(report, [rows |-> rows, frames |-> frames], 0)
<1>1. \A u \in Listed(report) : ~(u <= 0)
  BY UnitsAreNumbers, ListedAreUnits
<1> QED
  BY <1>1 DEF UpTo

LEMMA OneGoneThrough ==
    ASSUME NEW report, NEW n \in Listed(report), NEW s, UpTo(report, s, n - 1)
    PROVE  UpTo(report, Synced(report, s, n), n)
<1> DEFINE t == Synced(report, s, n)
           key == IdentityOf(report, n)
           legacy == Legacy(n)
           handed == panel \in OfSensors /\ key \notin DOMAIN s.rows /\ legacy \in DOMAIN s.rows
           L == Listed(report)
           Id(u) == IdentityOf(report, u)
<1>0. n \in Units
  BY ListedAreUnits
<1>1. n \in Nat /\ n \in Units /\ L \subseteq Units /\ \A u \in Units : u \in Nat /\ (u <= n => u = n \/ u <= n - 1)
  BY UnitsAreNumbers, ListedAreUnits
<1>2. \A u \in L : u <= n - 1 => u <= n /\ u # n
  BY <1>1, UnitsAreNumbers
<1>3. SoundRows(s)
  BY DEF UpTo
<1> DEFINE text == Text(report[n].value)
<1>3a. IsSynced(t, s, key, legacy, text)
  BY <1>0, <1>3, SyncedIsSound
<1> HIDE DEF t, key, legacy, text
<1>4. /\ SoundRows(t)
      /\ t.rows[key].text = text
      /\ key \in DOMAIN t.rows
      /\ key \in DOMAIN s.rows => t.rows[key].frame = s.rows[key].frame
      /\ handed => t.rows[key].frame = s.rows[legacy].frame /\ legacy \notin DOMAIN t.rows
      /\ DOMAIN t.rows \subseteq DOMAIN s.rows \cup {key}
      /\ \A k \in DOMAIN s.rows \ {key} : ~(handed /\ k = legacy) => k \in DOMAIN t.rows /\ t.rows[k] = s.rows[k]
  BY <1>3a DEF IsSynced
<1>5. /\ \A u \in Units : Id(u) = Legacy(u) \/ Id(u) = ByIdentity(u)
      /\ \A u, v \in Units : ByIdentity(u) # Legacy(v)
      /\ \A u, v \in Units : ByIdentity(u) = ByIdentity(v) => u = v
      /\ \A u, v \in Units : Legacy(u) = Legacy(v) => NameOf[u] = NameOf[v]
  BY KeysTell
<1> DEFINE new == \E x \in L : legacy = Legacy(x) /\ panel \in OfSensors /\ Id(x) \notin DOMAIN rows
<1>6. ASSUME handed PROVE new /\ key = ByIdentity(n)
  <2>1. key = ByIdentity(n)
    BY <1>1, <1>5, <1>6 DEF key, legacy
  <2>2. key \notin DOMAIN rows
    BY <1>1, <1>6, <2>1 DEF UpTo
  <2> QED
    BY <1>0, <1>6, <2>1, <2>2 DEF key, legacy
<1> HIDE DEF L, Id
<1>7. ASSUME NEW k \in DOMAIN t.rows \ DOMAIN rows PROVE \E u \in L : u <= n /\ k = Id(u)
  <2>1. CASE k = key
    BY <1>1, <2>1 DEF L, Id, key
  <2>2. CASE k # key
    <3>1. PICK u \in L : u <= n - 1 /\ k = Id(u)
      BY <1>4, <2>2 DEF UpTo, L, Id
    <3> QED
      BY <1>2, <3>1
  <2> QED
    BY <2>1, <2>2
<1>8. ASSUME NEW u \in L, u <= n, Id(u) \notin DOMAIN t.rows
      PROVE  \E x \in L : Id(u) = Legacy(x) /\ panel \in OfSensors /\ Id(x) \notin DOMAIN rows
  <2>1. u <= n - 1
    BY <1>1, <1>4, <1>8 DEF Id, key
  <2>2. CASE Id(u) \notin DOMAIN s.rows
    BY <2>1, <2>2 DEF UpTo, L, Id
  <2>3. CASE Id(u) \in DOMAIN s.rows
    <3>1. handed /\ Id(u) = legacy
      BY <1>4, <1>8, <2>3
    <3> QED
      BY <1>6, <3>1
  <2> QED
    BY <2>2, <2>3
<1>9. ASSUME NEW u \in L, u <= n, Id(u) \in DOMAIN t.rows, \A v \in L : v <= n /\ Id(v) = Id(u) => v <= u
      PROVE  t.rows[Id(u)].text = Text(report[u].value)
  <2>1. CASE u = n
    BY <1>4, <2>1 DEF Id, key, text
  <2>2. CASE u # n
    <3>1. u <= n - 1 /\ ~(n <= u)
      BY <1>1, <1>9, <2>2
    <3>2. Id(u) # key
      BY <1>1, <1>9, <3>1 DEF Id, key, L
    <3>3. Id(u) \in DOMAIN s.rows
      BY <1>4, <1>9, <3>2
    <3>4. s.rows[Id(u)].text = Text(report[u].value)
      BY <1>2, <1>9, <3>1, <3>3 DEF UpTo, L, Id
    <3>5. ~(handed /\ Id(u) = legacy)
      BY <1>4, <1>9
    <3> QED
      BY <1>4, <3>2, <3>3, <3>4, <3>5
  <2> QED
    BY <2>1, <2>2
<1>10. ASSUME NEW u \in Units, ByIdentity(u) \in DOMAIN rows
       PROVE  ByIdentity(u) \in DOMAIN t.rows /\ t.rows[ByIdentity(u)].frame = rows[ByIdentity(u)].frame
  <2>1. ByIdentity(u) \in DOMAIN s.rows /\ s.rows[ByIdentity(u)].frame = rows[ByIdentity(u)].frame
    BY <1>10 DEF UpTo
  <2>2. ByIdentity(u) # legacy
    BY <1>1, <1>5 DEF legacy
  <2> QED
    BY <1>4, <2>1, <2>2
<1>11. ASSUME NEW u \in Units, Legacy(u) \in DOMAIN rows, \A v \in NamedAlike(report, u, n) : Id(v) = Legacy(u)
       PROVE  Legacy(u) \in DOMAIN t.rows /\ t.rows[Legacy(u)].frame = rows[Legacy(u)].frame
  <2>1. Legacy(u) \in DOMAIN s.rows /\ s.rows[Legacy(u)].frame = rows[Legacy(u)].frame
    <3>1. NamedAlike(report, u, n - 1) \subseteq NamedAlike(report, u, n)
      BY <1>2 DEF NamedAlike, L
    <3> QED
      BY <1>11, <3>1 DEF UpTo, Id
  <2>2. CASE Legacy(u) = key
    BY <1>4, <2>1, <2>2
  <2>3. CASE Legacy(u) # key
    <3>1. ASSUME handed, Legacy(u) = legacy PROVE FALSE
      <4>1. n \in NamedAlike(report, u, n)
        BY <1>1, <1>5, <3>1 DEF NamedAlike, legacy
      <4> QED
        BY <1>11, <2>3, <4>1 DEF Id, key
    <3> QED
      BY <1>4, <2>1, <2>3, <3>1
  <2> QED
    BY <2>2, <2>3
<1>12. ASSUME NEW u \in L, u <= n, panel \in OfSensors, Legacy(u) \in DOMAIN rows,
              Id(u) = ByIdentity(u), ByIdentity(u) \notin DOMAIN rows,
              \A v \in NamedAlike(report, u, n) : v = u
       PROVE  ByIdentity(u) \in DOMAIN t.rows /\ t.rows[ByIdentity(u)].frame = rows[Legacy(u)].frame
  <2>1. CASE u = n
    <3>1. key = ByIdentity(n) /\ legacy = Legacy(u)
      BY <1>12, <2>1 DEF Id, key, legacy
    <3>2. key \notin DOMAIN s.rows
      <4> SUFFICES ASSUME key \in DOMAIN s.rows PROVE FALSE
        OBVIOUS
      <4>1. PICK x \in L : x <= n - 1 /\ key = Id(x)
        BY <1>12, <2>1, <3>1 DEF UpTo, L, Id
      <4>2. x \in Units /\ x # n
        BY <1>1, <1>2, <4>1
      <4> QED
        BY <1>1, <1>5, <3>1, <4>1, <4>2
    <3>3. \A v \in NamedAlike(report, u, n - 1) : FALSE
      <4> SUFFICES ASSUME NEW v \in NamedAlike(report, u, n - 1) PROVE FALSE
        OBVIOUS
      <4>1. v \in L /\ v <= n - 1 /\ NameOf[v] = NameOf[u]
        BY DEF NamedAlike, L
      <4>2. v <= n /\ v # n
        BY <1>2, <4>1
      <4>3. v \in NamedAlike(report, u, n)
        BY <4>1, <4>2 DEF NamedAlike, L
      <4> QED
        BY <1>12, <2>1, <4>2, <4>3
    <3>4. legacy \in DOMAIN s.rows /\ s.rows[legacy].frame = rows[Legacy(u)].frame
      BY <1>1, <1>12, <3>1, <3>3 DEF UpTo
    <3> QED
      BY <1>4, <1>12, <2>1, <3>1, <3>2, <3>4
  <2>2. CASE u # n
    <3>1. u <= n - 1
      BY <1>1, <1>12, <2>2
    <3>2. NamedAlike(report, u, n - 1) \subseteq NamedAlike(report, u, n)
      BY <1>2 DEF NamedAlike, L
    <3>3. ByIdentity(u) \in DOMAIN s.rows /\ s.rows[ByIdentity(u)].frame = rows[Legacy(u)].frame
      BY <1>12, <3>1, <3>2 DEF UpTo, L, Id
    <3>4. ByIdentity(u) # legacy /\ ByIdentity(u) # key
      BY <1>1, <1>5, <2>2 DEF legacy, key, Id
    <3> QED
      BY <1>4, <3>3, <3>4
  <2> QED
    BY <2>1, <2>2
<1> QED
  BY <1>4, <1>7, <1>8, <1>9, <1>10, <1>11, <1>12 DEF UpTo, t, L, Id

LEMMA NotListedIsGoneThrough ==
    ASSUME NEW report, NEW n \in Nat, n \notin Listed(report), NEW s, UpTo(report, s, n - 1)
    PROVE  UpTo(report, s, n)
<1>1. \A u \in Listed(report) : u <= n <=> u <= n - 1
  BY UnitsAreNumbers, ListedAreUnits
<1>2. \A u : NamedAlike(report, u, n) = NamedAlike(report, u, n - 1)
  BY <1>1 DEF NamedAlike
<1> QED
  BY <1>1, <1>2 DEF UpTo

\* What is computed one unit after the other exists, by the least unit without it.
AreSteps(f, report, base, m) ==
    f = [n \in 0 .. m |->
            IF n = 0 THEN base
            ELSE IF n \in Listed(report) THEN Synced(report, f[n - 1], n) ELSE f[n - 1]]

LEMMA StepsExist ==
    ASSUME NEW report, NEW base, NEW m \in Nat PROVE \E f : AreSteps(f, report, base, m)
<1> DEFINE next(s, n) == IF n \in Listed(report) THEN Synced(report, s, n) ELSE s
           Is(f, k) == f = [n \in 0 .. k |-> IF n = 0 THEN base ELSE next(f[n - 1], n)]
           Bad == {k \in Nat : ~\E f : Is(f, k)}
<1>1. ASSUME Bad # {} PROVE FALSE
  <2>1. PICK k \in Bad : \A j \in Bad : k <= j
    <3>1. Bad \in SUBSET Nat
      OBVIOUS
    <3> HIDE DEF Bad
    <3> QED
      BY <1>1, <3>1, LeastNatural
  <2>2. k \in Nat /\ ~\E f : Is(f, k)
    BY <2>1
  <2> HIDE DEF next
  <2>3. CASE k = 0
    <3>1. Is([n \in 0 .. 0 |-> base], 0)
      OBVIOUS
    <3> QED
      BY <2>2, <2>3, <3>1
  <2>4. CASE k # 0
    <3>1. k - 1 \in Nat /\ k - 1 \notin Bad
      BY <2>1, <2>2, <2>4
    <3>2. PICK g : Is(g, k - 1)
      BY <3>1
    <3> DEFINE f == [n \in 0 .. k |-> IF n = k THEN next(g[k - 1], k) ELSE g[n]]
    <3>3. \A n \in 0 .. k : f[n] = IF n = 0 THEN base ELSE next(f[n - 1], n)
      BY <2>2, <2>4, <3>1, <3>2
    <3>4. Is(f, k)
      BY <3>3
    <3> QED
      BY <2>2, <3>4
  <2> QED
    BY <2>3, <2>4
<1>2. \E f : Is(f, m)
  BY <1>1
<1>3. \A f : Is(f, m) <=> AreSteps(f, report, base, m)
  BY DEF AreSteps
<1> HIDE DEF Is
<1> QED
  BY <1>2, <1>3

\* All units are gone through: by the least one that would not be.
LEMMA AllSyncedIsSound ==
    ASSUME NEW report, SoundRows([rows |-> rows, frames |-> frames])
    PROVE  UpTo(report, AllSynced(report), Len(NameOf))
<1> DEFINE base == [rows |-> rows, frames |-> frames]
           next(s, n) == IF n \in Listed(report) THEN Synced(report, s, n) ELSE s
           N == Len(NameOf)
           after == CHOOSE f : AreSteps(f, report, base, N)
<1>1. AllSynced(report) = after[N]
  BY DEF AllSynced, AreSteps
<1>2. N \in Nat
  BY UnitsAreNumbers
<1>3. AreSteps(after, report, base, N)
  <2> HIDE DEF base, N
  <2> QED
    BY <1>2, StepsExist
<1> HIDE DEF after
<1>4. after[0] = base /\ \A n \in 1 .. N : after[n] = next(after[n - 1], n)
  BY <1>2, <1>3 DEF AreSteps
<1> DEFINE Bad == {n \in 0 .. N : ~UpTo(report, after[n], n)}
<1>5. ASSUME Bad # {} PROVE FALSE
  <2>1. PICK n \in Bad : \A j \in Bad : n <= j
    <3>1. Bad \in SUBSET Nat
      BY <1>2
    <3> HIDE DEF Bad
    <3> QED
      BY <1>5, <3>1, LeastNatural
  <2>2. n \in 0 .. N /\ ~UpTo(report, after[n], n)
    BY <2>1
  <2>3. CASE n = 0
    BY <1>4, <2>2, <2>3, NoneGoneThrough
  <2>4. CASE n # 0
    <3>1. n \in 1 .. N /\ n \in Nat /\ n - 1 \in 0 .. N /\ ~(n <= n - 1)
      BY <1>2, <2>2, <2>4
    <3>2. UpTo(report, after[n - 1], n - 1)
      BY <2>1, <3>1
    <3>3. after[n] = next(after[n - 1], n)
      BY <1>4, <3>1
    <3>4. UpTo(report, next(after[n - 1], n), n)
      BY <3>1, <3>2, OneGoneThrough, NotListedIsGoneThrough
    <3> QED
      BY <2>2, <3>3, <3>4
  <2> QED
    BY <2>3, <2>4
<1> QED
  BY <1>1, <1>2, <1>5

\* The rows that nothing was reported for go, and their frames with them.
LEMMA SweptIsSound ==
    ASSUME NEW s, SoundRows(s), NEW keys
    PROVE  LET t == Swept(s, keys)
           IN /\ SoundRows(t)
              /\ DOMAIN t.rows = DOMAIN s.rows \cap keys
              /\ \A k \in DOMAIN t.rows : t.rows[k] = s.rows[k]
<1> DEFINE t == Swept(s, keys)
           left == Restrict(s.rows, DOMAIN s.rows \cap keys)
           taken == s.frames \ {s.rows[k].frame : k \in DOMAIN s.rows \ keys}
<1>1. t = [rows |-> left, frames |-> taken]
  BY DEF Swept
<1>2. DOMAIN left = DOMAIN s.rows \cap keys /\ \A k \in DOMAIN left : left[k] = s.rows[k]
  BY DEF Restrict
<1>3. IsFiniteSet(taken)
  BY FS_Subset DEF SoundRows
<1> HIDE DEF t, left
<1>4. taken = {left[k].frame : k \in DOMAIN left}
  BY <1>2 DEF SoundRows
<1> HIDE DEF taken
<1>5. t.rows = left /\ t.frames = taken /\ t = [rows |-> t.rows, frames |-> t.frames]
  BY <1>1
<1>6. /\ \A k \in DOMAIN left : IsRow(left[k])
      /\ \A k, l \in DOMAIN left : left[k].frame = left[l].frame => k = l
  BY <1>2 DEF SoundRows
<1>7. SoundRows(t)
  BY <1>3, <1>4, <1>5, <1>6 DEF SoundRows
<1> QED
  BY <1>2, <1>5, <1>7 DEF t

\* The last of the units with a key.
LEMMA LastWithKey ==
    ASSUME NEW report, NEW key \in KeysOf(report)
    PROVE  LET last == Max({u \in Listed(report) : IdentityOf(report, u) = key})
           IN /\ last \in Listed(report) /\ IdentityOf(report, last) = key
              /\ \A v \in Listed(report) : IdentityOf(report, v) = key => v <= last
<1> DEFINE S == {u \in Listed(report) : IdentityOf(report, u) = key}
           N == Len(NameOf)
<1>1. S \subseteq 0 .. N /\ S # {} /\ N \in Nat /\ S \subseteq 1 .. N
  BY UnitsAreNumbers, ListedAreUnits DEF KeysOf
<1> HIDE DEF S, N
<1>2. Max(S) \in S
  BY <1>1, MaxIsIn
<1>3. \E x \in S : \A y \in S : x >= y
  <2>1. PICK x \in S : \A y \in S : y <= x
    BY <1>1, GreatestNatural
  <2>2. \A y \in S : x >= y
    BY <1>1, <2>1
  <2> QED
    BY <2>2
<1>4. \A y \in S : Max(S) >= y
  BY <1>3 DEF Max
<1>5. \A y \in S : y <= Max(S)
  BY <1>1, <1>2, <1>4
<1> QED
  BY <1>2, <1>5 DEF S

\* As many frames as there are rows.
LEMMA AsManyFrames ==
    ASSUME NEW s, SoundRows(s) PROVE Cardinality(s.frames) = Cardinality(DOMAIN s.rows)
<1> DEFINE D == DOMAIN s.rows
           inverse == [f \in s.frames |-> CHOOSE k \in D : s.rows[k].frame = f]
<1>1. \A f \in s.frames : inverse[f] \in D /\ s.rows[inverse[f]].frame = f
  BY DEF SoundRows
<1>2. \A k \in D : s.rows[k].frame \in s.frames /\ inverse[s.rows[k].frame] = k
  BY <1>1 DEF SoundRows
<1>3. inverse \in Bijection(s.frames, D)
  <2>1. inverse \in [s.frames -> D]
    BY <1>1
  <2>2. \A f, g \in s.frames : inverse[f] = inverse[g] => f = g
    BY <1>1
  <2>3. \A k \in D : \E f \in s.frames : inverse[f] = k
    BY <1>2
  <2> HIDE DEF inverse, D
  <2> QED
    BY <2>1, <2>2, <2>3 DEF Bijection, Injection, IsInjective, Surjection
<1>4. ExistsBijection(s.frames, D)
  BY <1>3 DEF ExistsBijection
<1> QED
  BY <1>4, FS_Bijection DEF SoundRows

\* What is left of the rows when all units have been gone through.
LEMMA SyncedRowsAreTrue ==
    ASSUME NEW report, SoundRows([rows |-> rows, frames |-> frames])
    PROVE  LET t == Swept(AllSynced(report), KeysOf(report))
           IN /\ SoundRows(t)
              /\ DOMAIN t.rows \subseteq KeysOf(report)
              /\ KeysOf(report) \ DOMAIN t.rows \subseteq
                    {Legacy(u) : u \in {x \in Listed(report) :
                                            panel \in OfSensors /\ IdentityOf(report, x) \notin DOMAIN rows}}
              /\ \A k \in DOMAIN t.rows :
                    t.rows[k].text =
                        Text(report[Max({u \in Listed(report) : IdentityOf(report, u) = k})].value)
<1> DEFINE s == AllSynced(report)
           t == Swept(s, KeysOf(report))
           N == Len(NameOf)
           L == Listed(report)
           Id(u) == IdentityOf(report, u)
<1>1. UpTo(report, s, N)
  BY AllSyncedIsSound
<1>2. \A u \in L : u <= N
  BY UnitsAreNumbers, ListedAreUnits
<1> HIDE DEF s
<1>3. /\ SoundRows(t)
      /\ DOMAIN t.rows = DOMAIN s.rows \cap KeysOf(report)
      /\ \A k \in DOMAIN t.rows : t.rows[k] = s.rows[k]
  <2>1. SoundRows(s)
    BY <1>1 DEF UpTo
  <2> QED
    BY <2>1, SweptIsSound
<1> HIDE DEF t
<1>4. \A u \in L : Id(u) \in KeysOf(report)
  BY DEF KeysOf
<1>5. ASSUME NEW k \in KeysOf(report) \ DOMAIN t.rows
      PROVE  \E x \in L : k = Legacy(x) /\ panel \in OfSensors /\ Id(x) \notin DOMAIN rows
  <2>1. PICK u \in L : k = Id(u)
    BY DEF KeysOf
  <2>2. Id(u) \notin DOMAIN s.rows
    BY <1>3, <1>5, <2>1
  <2> QED
    BY <1>1, <1>2, <2>1, <2>2 DEF UpTo
<1>6. ASSUME NEW k \in DOMAIN t.rows
      PROVE  t.rows[k].text = Text(report[Max({u \in L : Id(u) = k})].value)
  <2> DEFINE last == Max({u \in L : Id(u) = k})
  <2>1. k \in KeysOf(report) /\ k \in DOMAIN s.rows /\ t.rows[k] = s.rows[k]
    BY <1>3
  <2>2. last \in L /\ Id(last) = k /\ \A v \in L : Id(v) = k => v <= last
    BY <2>1, LastWithKey
  <2> HIDE DEF last
  <2>3. s.rows[k].text = Text(report[last].value)
    BY <1>1, <1>2, <2>1, <2>2 DEF UpTo
  <2> QED
    BY <2>1, <2>3 DEF last
<1> QED
  BY <1>3, <1>5, <1>6 DEF t, s

\* A unit keeps its row.
LEMMA SyncedRowsAreKept ==
    ASSUME NEW report, SoundRows([rows |-> rows, frames |-> frames]), NEW u \in Listed(report), NEW key,
           key \in DOMAIN rows, key = IdentityOf(report, u) \/ key = Legacy(u),
           \/ \A o \in Listed(report) : NameOf[o] = NameOf[u] => o = u
           \/ key = ByIdentity(u),
           key # IdentityOf(report, u) => panel \in OfSensors /\ ByIdentity(u) \notin DOMAIN rows
    PROVE  LET t == Swept(AllSynced(report), KeysOf(report))
           IN t.rows[IdentityOf(report, u)].frame = rows[key].frame
<1> DEFINE s == AllSynced(report)
           t == Swept(s, KeysOf(report))
           N == Len(NameOf)
           Id == IdentityOf(report, u)
<1>1. UpTo(report, s, N)
  BY AllSyncedIsSound
<1>2. u \in Units /\ u <= N
  BY UnitsAreNumbers, ListedAreUnits
<1> HIDE DEF s
<1>3. \A k \in DOMAIN s.rows \cap KeysOf(report) : t.rows[k] = s.rows[k]
  BY <1>1, SweptIsSound DEF UpTo
<1> HIDE DEF t
<1>4. Id \in KeysOf(report)
  BY DEF KeysOf
<1>5. (Id = Legacy(u) \/ Id = ByIdentity(u)) /\ ByIdentity(u) # Legacy(u)
  BY <1>2, KeysTell
<1>6. Id \in DOMAIN s.rows /\ s.rows[Id].frame = rows[key].frame
  <2>1. CASE key = ByIdentity(u)
    <3>1. Id = key
      BY <1>5, <2>1
    <3> QED
      BY <1>1, <1>2, <2>1, <3>1 DEF UpTo
  <2>2. CASE key = Legacy(u)
    <3>1. \A v \in NamedAlike(report, u, N) : v = u
      BY <1>5, <2>2 DEF NamedAlike
    <3>2. CASE Id = Legacy(u)
      <4>1. \A v \in NamedAlike(report, u, N) : IdentityOf(report, v) = Legacy(u)
        BY <3>1, <3>2
      <4> QED
        BY <1>1, <1>2, <2>2, <3>2, <4>1 DEF UpTo
    <3>3. CASE Id = ByIdentity(u)
      BY <1>1, <1>2, <1>5, <2>2, <3>1, <3>3 DEF UpTo
    <3> QED
      BY <1>5, <3>2, <3>3
  <2> QED
    BY <1>5, <2>1, <2>2
<1> QED
  BY <1>3, <1>4, <1>6 DEF t, s

PanelsInv ==
    /\ SoundRows([rows |-> rows, frames |-> frames])
    /\ RowsAreTrue
    /\ RowsAreKept

LEMMA PanelsInitially == PanelsInit => PanelsInv
<1> SUFFICES ASSUME PanelsInit PROVE PanelsInv
  OBVIOUS
<1>1. /\ DOMAIN rows = {} /\ frames = {} /\ notice.packed = notice.visible
      /\ DOMAIN earlier.keys = {} /\ reported = NoReport
  BY DEF PanelsInit, NoRows
<1>2. Listed(reported) = {}
  BY <1>1, ListedAreUnits DEF NoReport
<1>3. SoundRows([rows |-> rows, frames |-> frames])
  BY <1>1, FS_EmptySet DEF SoundRows
<1>4. KeysOf(reported) = {}
  BY <1>2 DEF KeysOf
<1>5. RowsAreTrue
  BY <1>1, <1>4 DEF RowsAreTrue
<1>6. RowsAreKept
  BY <1>1 DEF RowsAreKept
<1> QED
  BY <1>3, <1>5, <1>6 DEF PanelsInv

LEMMA SyncStaysTrue == PanelsInv /\ SyncRows => PanelsInv'
<1> SUFFICES ASSUME PanelsInv, SyncRows PROVE PanelsInv'
  OBVIOUS
<1>1. PICK report : report = reported'
  OBVIOUS
<1> DEFINE t == Swept(AllSynced(report), KeysOf(report))
           L == Listed(report)
           Id(u) == IdentityOf(report, u)
<1>2. SoundRows([rows |-> rows, frames |-> frames])
  BY DEF PanelsInv
<1>3. /\ rows' = t.rows /\ frames' = t.frames /\ panel' = panel
      /\ notice' = Toggled(notice, report = NoReport)
  BY <1>1 DEF SyncRows
<1>4. earlier' = [keys |-> [u \in Listed(reported) |-> IdentityOf(reported, u)],
                  frame |-> [k \in DOMAIN rows |-> rows[k].frame]]
  BY DEF SyncRows
<1>5. /\ SoundRows(t)
      /\ DOMAIN t.rows \subseteq KeysOf(report)
      /\ KeysOf(report) \ DOMAIN t.rows \subseteq
            {Legacy(u) : u \in {x \in L : panel \in OfSensors /\ Id(x) \notin DOMAIN rows}}
      /\ \A k \in DOMAIN t.rows : t.rows[k].text = Text(report[Max({u \in L : Id(u) = k})].value)
  BY <1>2, SyncedRowsAreTrue
<1>6. Listed(reported)' = L /\ KeysOf(reported)' = KeysOf(report)
  BY <1>1, <1>3 DEF Listed, KeysOf, IdentityOf
<1>7. \A u : IdentityOf(reported, u)' = Id(u)
  BY <1>1, <1>3 DEF IdentityOf
<1>8. notice'.packed = notice'.visible
  BY <1>3 DEF PanelsInv, RowsAreTrue, Toggled
<1>9. ASSUME NEW u \in DOMAIN earlier'.keys \cap L, earlier'.keys[u] \in DOMAIN earlier'.frame,
             (\A o \in L : NameOf[o] = NameOf[u] => o = u) \/ earlier'.keys[u] = ByIdentity(u),
             earlier'.keys[u] \in {Id(u), Legacy(u)}
      PROVE  t.rows[Id(u)].frame = earlier'.frame[earlier'.keys[u]]
  <2> DEFINE key == IdentityOf(reported, u)
  <2>1. u \in Listed(reported) /\ earlier'.keys[u] = key /\ earlier'.frame = [k \in DOMAIN rows |-> rows[k].frame]
    BY <1>4, <1>9
  <2>2. key \in DOMAIN rows /\ (key = Id(u) \/ key = Legacy(u)) /\ earlier'.frame[key] = rows[key].frame
    BY <1>9, <2>1
  <2>3. ASSUME key # Id(u) PROVE panel \in OfSensors /\ ByIdentity(u) \notin DOMAIN rows
    <3>1. u \in Units /\ Listed(reported) \subseteq Units
      BY <2>1, ListedAreUnits
    <3>2. panel \in OfSensors
      BY <2>3 DEF IdentityOf
    <3>3. key = Legacy(u)
      BY <2>2, <2>3
    <3>4. ASSUME ByIdentity(u) \in KeysOf(reported) PROVE FALSE
      <4>1. PICK v \in Listed(reported) : ByIdentity(u) = IdentityOf(reported, v)
        BY <3>4 DEF KeysOf
      <4>2. IdentityOf(reported, v) = ByIdentity(v) /\ v = u
        BY <3>1, <4>1, KeysTell
      <4> QED
        BY <3>1, <3>3, <4>2, KeysTell
    <3> QED
      BY <3>2, <3>4 DEF PanelsInv, RowsAreTrue
  <2> HIDE DEF t, key
  <2>4. t.rows[Id(u)].frame = rows[key].frame
    BY <1>2, <1>9, <2>1, <2>2, <2>3, SyncedRowsAreKept DEF t
  <2> QED
    BY <2>1, <2>2, <2>4
<1> HIDE DEF t
<1>10. SoundRows([rows |-> rows, frames |-> frames])'
  <2>1. [rows |-> rows', frames |-> frames'] = t
    BY <1>3, <1>5 DEF SoundRows
  <2> QED
    BY <1>5, <2>1
<1>11. RowsAreTrue'
  <2>1. HandedOver' = {Legacy(u) : u \in {x \in L : panel \in OfSensors /\ Id(x) \notin DOMAIN rows}}
    <3>1. DOMAIN earlier'.frame = DOMAIN rows
      BY <1>4
    <3> QED
      BY <1>3, <1>6, <1>7, <3>1 DEF HandedOver, Legacy
  <2>2. \A k : {u \in Listed(reported)' : IdentityOf(reported, u)' = k} = {u \in L : Id(u) = k}
    BY <1>6, <1>7
  <2>3. \A k \in DOMAIN rows' :
            rows'[k].text = Text(reported[Max({u \in Listed(reported) : IdentityOf(reported, u) = k})].value)'
    BY <1>1, <1>3, <1>5, <2>2 DEF Text
  <2>4. frames' = {rows'[k].frame : k \in DOMAIN rows'} /\ Cardinality(frames') = Cardinality(DOMAIN rows')
    BY <1>3, <1>5, AsManyFrames DEF SoundRows
  <2> QED
    BY <1>3, <1>5, <1>6, <1>8, <2>1, <2>3, <2>4 DEF RowsAreTrue
<1>12. RowsAreKept'
  <2> SUFFICES ASSUME NEW u \in DOMAIN earlier'.keys \cap Listed(reported)',
                      earlier'.keys[u] \in DOMAIN earlier'.frame,
                      Alone(u)' \/ earlier'.keys[u] = <<"id", u>>,
                      earlier'.keys[u] \in {IdentityOf(reported, u)', Legacy(u)}
               PROVE  rows'[IdentityOf(reported, u)'].frame = earlier'.frame[earlier'.keys[u]]
    BY DEF RowsAreKept, Legacy
  <2>1. Alone(u)' => \A o \in L : NameOf[o] = NameOf[u] => o = u
    BY <1>1, ListedAreUnits DEF Alone
  <2> QED
    BY <1>3, <1>6, <1>7, <1>9, <2>1 DEF ByIdentity
<1> QED
  BY <1>10, <1>11, <1>12 DEF PanelsInv

LEMMA PanelsNextInv == PanelsInv /\ [PanelsNext]_panelVars => PanelsInv'
<1> SUFFICES ASSUME PanelsInv, [PanelsNext]_panelVars PROVE PanelsInv'
  OBVIOUS
<1>1. CASE SyncRows
  BY <1>1, SyncStaysTrue
<1>2. CASE UNCHANGED panelVars
  <2>1. /\ panel' = panel /\ reported' = reported /\ rows' = rows /\ frames' = frames
        /\ notice' = notice /\ earlier' = earlier
    BY <1>2 DEF panelVars
  <2>2. Listed(reported)' = Listed(reported) /\ KeysOf(reported)' = KeysOf(reported)
    BY <2>1 DEF Listed, KeysOf, IdentityOf
  <2>3. \A u : IdentityOf(reported, u)' = IdentityOf(reported, u) /\ Alone(u)' = Alone(u)
    BY <2>1 DEF IdentityOf, Alone
  <2>4. HandedOver' = HandedOver
    BY <2>1, <2>2, <2>3 DEF HandedOver, Legacy
  <2>5. RowsAreTrue'
    <3>1. \A k : {u \in Listed(reported)' : IdentityOf(reported, u)' = k}
                 = {u \in Listed(reported) : IdentityOf(reported, u) = k}
      BY <2>2, <2>3
    <3>2. \A k \in DOMAIN rows' :
              rows'[k].text = Text(reported[Max({u \in Listed(reported) : IdentityOf(reported, u) = k})].value)'
      BY <2>1, <3>1 DEF Text, PanelsInv, RowsAreTrue
    <3> QED
      BY <2>1, <2>2, <2>4, <3>2 DEF PanelsInv, RowsAreTrue
  <2>6. RowsAreKept'
    BY <2>1, <2>2, <2>3 DEF PanelsInv, RowsAreKept, Legacy
  <2>7. SoundRows([rows |-> rows, frames |-> frames])'
    BY <2>1 DEF PanelsInv
  <2> QED
    BY <2>5, <2>6, <2>7 DEF PanelsInv
<1> QED
  BY <1>1, <1>2 DEF PanelsNext

-----------------------------------------------------------------------------
\* THE TABLES OF PROCESSES

\* Those that come before a process in a table.
Before(these, share, p) == {o \in these : share[o] > share[p] \/ (share[o] = share[p] /\ o < p)}

LEMMA LeadingAre ==
    ASSUME NEW n, NEW these, NEW share
    PROVE  Leading(n, these, share) = {p \in these : Cardinality(Before(these, share, p)) < n}
BY DEF Leading, Before

\* Who does not lead has no more than one who does.
LEMMA LeadersLead ==
    ASSUME NEW n \in Nat, NEW these \in SUBSET Nat, IsFiniteSet(these), NEW share,
           \A x \in these : share[x] \in Nat,
           NEW p \in Leading(n, these, share), NEW o \in these \ Leading(n, these, share)
    PROVE  share[o] <= share[p]
<1> SUFFICES ASSUME ~(share[o] <= share[p]) PROVE FALSE
  OBVIOUS
<1> DEFINE B(x) == Before(these, share, x)
<1>1. p \in these /\ Cardinality(B(p)) < n /\ ~(Cardinality(B(o)) < n)
  BY LeadingAre
<1>2. share[o] > share[p] /\ share[o] \in Nat /\ share[p] \in Nat
  BY <1>1
<1>3. B(o) \in SUBSET B(p)
  <2> SUFFICES ASSUME NEW x \in B(o) PROVE x \in B(p)
    OBVIOUS
  <2>1. x \in these /\ (share[x] > share[o] \/ (share[x] = share[o] /\ x < o))
    BY DEF Before
  <2>2. share[x] \in Nat /\ share[x] > share[p]
    BY <1>2, <2>1
  <2> QED
    BY <2>1, <2>2 DEF Before
<1>4. B(p) \in SUBSET these
  BY DEF Before
<1> HIDE DEF B
<1>5. IsFiniteSet(B(p)) /\ Cardinality(B(p)) \in Nat
  BY <1>4, FS_Subset, FS_CardinalityType
<1>6. Cardinality(B(o)) <= Cardinality(B(p)) /\ Cardinality(B(o)) \in Nat
  BY <1>3, <1>5, FS_Subset, FS_CardinalityType
<1> QED
  BY <1>1, <1>5, <1>6

\* The first has the most.
LEMMA FirstLeads ==
    ASSUME NEW these \in SUBSET Nat, IsFiniteSet(these), NEW share,
           \A x \in these : share[x] \in Nat,
           NEW p \in Leading(1, these, share), NEW o \in these
    PROVE  share[o] <= share[p]
<1> DEFINE B == Before(these, share, p)
<1>1. p \in these /\ Cardinality(B) < 1
  BY LeadingAre
<1>2. B \in SUBSET these
  BY DEF Before
<1> HIDE DEF B
<1>3. IsFiniteSet(B) /\ Cardinality(B) \in Nat
  BY <1>2, FS_Subset, FS_CardinalityType
<1>4. B = {}
  BY <1>1, <1>3, FS_EmptySet
<1>5. o \notin B
  BY <1>4
<1>6. ~(share[o] > share[p])
  BY <1>5 DEF B, Before
<1> QED
  BY <1>1, <1>6

\* The few of those that used something lead the many, too.
LEMMA FewLeadMany ==
    ASSUME NEW few \in Nat, NEW many \in Nat, few <= many,
           NEW these \in SUBSET Nat, IsFiniteSet(these), NEW share,
           \A x \in these : share[x] \in Nat,
           NEW p \in Leading(few, {x \in these : share[x] > 0}, share)
    PROVE  p \in Leading(many, these, share)
<1> DEFINE some == {x \in these : share[x] > 0}
           B == Before(some, share, p)
           C == Before(these, share, p)
<1>1. p \in some /\ Cardinality(B) < few
  BY LeadingAre
<1>2. ASSUME NEW o \in C PROVE o \in B
  <2>1. o \in these /\ (share[o] > share[p] \/ (share[o] = share[p] /\ o < p))
    BY DEF Before
  <2>2. share[o] \in Nat /\ share[p] \in Nat /\ share[p] > 0
    BY <1>1, <2>1
  <2>3. share[o] > 0
    BY <2>1, <2>2
  <2> QED
    BY <2>1, <2>3 DEF Before
<1>3. ASSUME NEW o \in B PROVE o \in C
  BY DEF Before
<1>4. B = C
  BY <1>2, <1>3
<1>5. B \in SUBSET these
  BY DEF Before
<1> HIDE DEF B
<1>6. Cardinality(B) \in Nat
  BY <1>5, FS_Subset, FS_CardinalityType
<1>7. Cardinality(C) < many
  BY <1>1, <1>4, <1>6
<1> QED
  BY <1>1, <1>7, LeadingAre

\* A process is a record, and has worked for as long as is said of it since the last sample:
\* since it was there then, or since it began.
IsProcess(r) == r = [name |-> r.name, cpu |-> r.cpu, read |-> r.read] /\ r.cpu \in Nat

WorkIsCounted ==
    /\ DOMAIN processes = ProcessIds /\ \A p \in ProcessIds : processes[p] # None => IsProcess(processes[p])
    /\ spent \in [ProcessIds -> Nat]
    /\ DOMAIN samples \subseteq ProcessIds
    /\ \A p \in DOMAIN samples :
          /\ samples[p].cpu \in Nat
          /\ processes[p] # None /\ p \in replaced => processes[p].cpu = spent[p]
          /\ processes[p] # None /\ p \notin replaced => processes[p].cpu = samples[p].cpu + spent[p]

TablesInv ==
    /\ WorkIsCounted
    /\ elapsed \in Nat /\ adjusted \in Int
    /\ Total(spent) <= elapsed
    /\ TablesAgree

LEMMA TotalIsSum == ASSUME NEW f PROVE Total(f) = SumOf(f)
BY DEF Total, SumOf

LEMMA NobodyWorked == Total(Nobody) <= 0
<1>1. DOMAIN Nobody = ProcessIds /\ \A p \in ProcessIds : Nobody[p] = 0
  BY DEF Nobody
<1> DEFINE f == Nobody
<1>2. IsFiniteSet(DOMAIN f) /\ DOMAIN f = DOMAIN f
  BY <1>1, TableConstants
<1>3. SumOf(f) \in Nat
  BY <1>1, <1>2, SumIsNatural
<1>4. \A x \in DOMAIN f : f[x] \in Nat /\ f[x] \in Nat /\ 1 * f[x] <= 0 * f[x]
  BY <1>1
<1> HIDE DEF f
<1>5. 1 * SumOf(f) <= 0 * SumOf(f)
  BY <1>2, <1>4, SumsCompare
<1>6. SumOf(f) <= 0
  BY <1>3, <1>5
<1> QED
  BY <1>6, TotalIsSum DEF f

LEMMA TablesInitially == TablesInit => TablesInv
<1> SUFFICES ASSUME TablesInit PROVE TablesInv
  OBVIOUS
<1>1. /\ processes \in [ProcessIds -> {None} \cup [name : Programs, cpu : {0}, read : {0}]]
      /\ spent = Nobody /\ elapsed = 0 /\ adjusted = 0 /\ samples = NoSample /\ tables = None
  BY DEF TablesInit
<1>2. ASSUME NEW p \in ProcessIds, processes[p] # None PROVE IsProcess(processes[p])
  BY <1>1, <1>2 DEF IsProcess
<1>3. spent \in [ProcessIds -> Nat] /\ DOMAIN samples = {}
  BY <1>1 DEF Nobody, NoSample
<1>4. WorkIsCounted
  BY <1>1, <1>2, <1>3 DEF WorkIsCounted
<1>5. TablesAgree
  BY <1>1 DEF TablesAgree
<1> QED
  BY <1>1, <1>4, <1>5, NobodyWorked DEF TablesInv

LEMMA WorkedIsProcess ==
    ASSUME NEW r, IsProcess(r), NEW read
    PROVE  IsProcess(Worked(r, read)) /\ Worked(r, read).cpu = r.cpu + 1
BY DEF Worked, IsProcess

LEMMA UnitStaysTrue == TablesInv /\ UnitPasses => TablesInv'
<1> SUFFICES ASSUME TablesInv, UnitPasses PROVE TablesInv'
  OBVIOUS
<1>1. /\ elapsed' = elapsed + 1 /\ tables' = None
      /\ replaced' = replaced /\ adjusted' = adjusted /\ samples' = samples
  BY DEF UnitPasses
<1>2. WorkIsCounted /\ elapsed \in Nat /\ adjusted \in Int /\ Total(spent) <= elapsed
  BY DEF TablesInv
<1>3. Total(spent) \in Nat /\ IsFiniteSet(DOMAIN spent) /\ DOMAIN spent = ProcessIds
      /\ \A p \in ProcessIds : spent[p] \in Nat
  BY <1>2, SumIsNatural, TotalIsSum, TableConstants DEF WorkIsCounted
<1>4. TablesAgree'
  BY <1>1 DEF TablesAgree
<1>5. CASE UNCHANGED <<processes, spent>>
  <2>1. WorkIsCounted'
    BY <1>1, <1>2, <1>5 DEF WorkIsCounted
  <2>2. Total(spent') = Total(spent)
    BY <1>5
  <2>3. Total(spent)' <= elapsed'
    BY <1>1, <1>2, <1>3, <2>2
  <2> QED
    BY <1>1, <1>2, <1>4, <2>1, <2>3 DEF TablesInv
<1>6. ASSUME NEW p \in ProcessIds, processes[p] # None, NEW read,
             processes' = [processes EXCEPT ![p] = Worked(@, read)],
             spent' = [spent EXCEPT ![p] = @ + 1]
      PROVE  TablesInv'
  <2>1. DOMAIN processes' = ProcessIds /\ processes'[p] = Worked(processes[p], read)
        /\ \A o \in ProcessIds : o # p => processes'[o] = processes[o]
    BY <1>2, <1>6 DEF WorkIsCounted
  <2>2. IsProcess(processes[p])
    BY <1>2, <1>6 DEF WorkIsCounted
  <2>3. IsProcess(processes'[p]) /\ processes'[p].cpu = processes[p].cpu + 1 /\ processes[p].cpu \in Nat
    BY <2>1, <2>2, WorkedIsProcess DEF IsProcess
  <2>4. spent' \in [ProcessIds -> Nat] /\ spent'[p] = spent[p] + 1
        /\ \A o \in ProcessIds : o # p => spent'[o] = spent[o]
    BY <1>2, <1>6 DEF WorkIsCounted
  <2>5. WorkIsCounted'
    <3>1. \A o \in ProcessIds : processes'[o] # None => IsProcess(processes'[o])
      BY <1>2, <2>1, <2>3 DEF WorkIsCounted
    <3>2. ASSUME NEW o \in DOMAIN samples
          PROVE  /\ samples[o].cpu \in Nat
                 /\ processes'[o] # None /\ o \in replaced => processes'[o].cpu = spent'[o]
                 /\ processes'[o] # None /\ o \notin replaced => processes'[o].cpu = samples[o].cpu + spent'[o]
      <4>1. CASE o # p
        BY <1>2, <2>1, <2>4, <4>1 DEF WorkIsCounted
      <4>2. CASE o = p
        <5>1. /\ samples[p].cpu \in Nat /\ spent[p] \in Nat
              /\ p \in replaced => processes[p].cpu = spent[p]
              /\ p \notin replaced => processes[p].cpu = samples[p].cpu + spent[p]
          BY <1>2, <1>3, <1>6, <4>2 DEF WorkIsCounted
        <5> QED
          BY <2>3, <2>4, <4>2, <5>1
      <4> QED
        BY <4>1, <4>2
    <3> QED
      BY <1>1, <1>2, <2>1, <2>4, <3>1, <3>2 DEF WorkIsCounted
  <2>6. Total(spent') = Total(spent) + 1
    BY <1>3, <2>4, SumTakesOne, TotalIsSum
  <2>7. Total(spent)' <= elapsed'
    BY <1>1, <1>2, <1>3, <2>6
  <2> QED
    BY <1>1, <1>2, <1>4, <2>5, <2>7 DEF TablesInv
<1> QED
  BY <1>5, <1>6 DEF UnitPasses

LEMMA ChangeStaysTrue == TablesInv /\ ProcessChanges => TablesInv'
<1> SUFFICES ASSUME TablesInv, ProcessChanges PROVE TablesInv'
  OBVIOUS
<1>1. /\ tables' = None /\ elapsed' = elapsed /\ adjusted' = adjusted /\ samples' = samples
  BY DEF ProcessChanges
<1>2. WorkIsCounted /\ elapsed \in Nat /\ adjusted \in Int /\ Total(spent) <= elapsed
  BY DEF TablesInv
<1>3. PICK p \in ProcessIds, program \in {None} \cup Programs :
          /\ processes' = [processes EXCEPT ![p] =
                              IF program = None THEN None ELSE [name |-> program, cpu |-> 0, read |-> 0]]
          /\ spent' = [spent EXCEPT ![p] = 0]
          /\ replaced' = replaced \cup {p}
  BY DEF ProcessChanges
<1>4. TablesAgree'
  BY <1>1 DEF TablesAgree
<1>5. DOMAIN processes' = ProcessIds /\ \A o \in ProcessIds : o # p => processes'[o] = processes[o]
  BY <1>2, <1>3 DEF WorkIsCounted
<1>6. ASSUME processes'[p] # None PROVE IsProcess(processes'[p]) /\ processes'[p].cpu = 0
  BY <1>2, <1>3, <1>6 DEF WorkIsCounted, IsProcess
<1>7. spent' \in [ProcessIds -> Nat] /\ spent'[p] = 0
      /\ \A o \in ProcessIds : o # p => spent'[o] = spent[o]
  BY <1>2, <1>3 DEF WorkIsCounted
<1>8. \A o \in ProcessIds : processes'[o] # None => IsProcess(processes'[o])
  BY <1>2, <1>5, <1>6 DEF WorkIsCounted
<1>9. ASSUME NEW o \in DOMAIN samples
      PROVE  /\ samples[o].cpu \in Nat
             /\ processes'[o] # None /\ o \in replaced' => processes'[o].cpu = spent'[o]
             /\ processes'[o] # None /\ o \notin replaced' => processes'[o].cpu = samples[o].cpu + spent'[o]
  <2>1. CASE o # p
    BY <1>2, <1>3, <1>5, <1>7, <2>1 DEF WorkIsCounted
  <2>2. CASE o = p
    BY <1>2, <1>3, <1>6, <1>7, <2>2 DEF WorkIsCounted
  <2> QED
    BY <2>1, <2>2
<1>10. WorkIsCounted'
  BY <1>1, <1>2, <1>5, <1>7, <1>8, <1>9 DEF WorkIsCounted
<1>11. Total(spent') <= Total(spent)
  <2>1. /\ DOMAIN spent = ProcessIds /\ DOMAIN spent' = ProcessIds /\ IsFiniteSet(ProcessIds)
        /\ \A o \in ProcessIds : spent[o] \in Nat /\ spent'[o] \in Nat /\ 1 * spent'[o] <= 1 * spent[o]
    BY <1>2, <1>7, TableConstants DEF WorkIsCounted
  <2> DEFINE f == spent'
             h == spent
  <2>2. /\ IsFiniteSet(DOMAIN f) /\ DOMAIN h = DOMAIN f
        /\ \A x \in DOMAIN f : f[x] \in Nat /\ h[x] \in Nat /\ 1 * f[x] <= 1 * h[x]
    BY <2>1
  <2>3. \A x \in DOMAIN h : h[x] \in Nat
    BY <2>1
  <2> HIDE DEF f, h
  <2>4. 1 * SumOf(f) <= 1 * SumOf(h)
    BY <2>2, SumsCompare
  <2>5. SumOf(f) \in Nat /\ SumOf(h) \in Nat
    BY <2>2, <2>3, SumIsNatural
  <2>6. SumOf(f) <= SumOf(h)
    BY <2>4, <2>5
  <2> QED
    BY <2>6, TotalIsSum DEF f, h
<1>12. Total(spent)' <= elapsed'
  <2>1. Total(spent') \in Nat /\ Total(spent) \in Nat
    BY <1>2, <1>7, SumIsNatural, TotalIsSum, TableConstants DEF WorkIsCounted
  <2> QED
    BY <1>1, <1>2, <1>11, <2>1
<1> QED
  BY <1>1, <1>2, <1>4, <1>10, <1>12 DEF TablesInv

LEMMA ClockStaysTrue == TablesInv /\ ClockIsSet => TablesInv'
<1> SUFFICES ASSUME TablesInv, ClockIsSet PROVE TablesInv'
  OBVIOUS
<1>1. /\ adjusted' \in Int /\ tables' = None /\ processes' = processes /\ spent' = spent
      /\ replaced' = replaced /\ elapsed' = elapsed /\ samples' = samples
  BY DEF ClockIsSet
<1>2. WorkIsCounted' /\ TablesAgree'
  BY <1>1 DEF TablesInv, WorkIsCounted, TablesAgree
<1>3. Total(spent)' <= elapsed'
  <2>1. Total(spent') = Total(spent)
    BY <1>1
  <2> QED
    BY <1>1, <2>1 DEF TablesInv
<1> QED
  BY <1>1, <1>2, <1>3 DEF TablesInv

LEMMA StatsAre ==
    ASSUME WorkIsCounted, NEW open \in SUBSET ProcessIds
    PROVE  /\ DOMAIN Stats(open) = {x \in open : processes[x] # None}
           /\ \A p \in DOMAIN Stats(open) :
                 /\ Stats(open)[p].name = processes[p].name
                 /\ Stats(open)[p].cpu = processes[p].cpu /\ Stats(open)[p].cpu \in Nat
                 /\ Stats(open)[p].read # None => "reads" \in Access[processes[p].name]
<1> DEFINE stats == Stats(open)
           read(p) == IF "reads" \in Access[processes[p].name] THEN processes[p].read ELSE None
<1>1. stats = [p \in {x \in open : processes[x] # None} |->
                [name |-> processes[p].name, cpu |-> processes[p].cpu, read |-> read(p)]]
  BY DEF Stats
<1>2. \A p \in DOMAIN stats : stats[p] = [name |-> processes[p].name, cpu |-> processes[p].cpu, read |-> read(p)]
  BY <1>1
<1>3. \A p \in DOMAIN stats : p \in ProcessIds /\ processes[p] # None
  BY <1>1
<1>4. \A p \in DOMAIN stats : processes[p].cpu \in Nat
  BY <1>3 DEF WorkIsCounted, IsProcess
<1> HIDE DEF stats
<1>5. \A p \in DOMAIN stats : stats[p].read # None => "reads" \in Access[processes[p].name]
  BY <1>2
<1> QED
  BY <1>1, <1>2, <1>4, <1>5 DEF stats

LEMMA PartsOfTime ==
    ASSUME NEW d \in Nat, NEW s \in Nat, s > 0
    PROVE  (100 * d) \div s \in Nat /\ ((100 * d) \div s) * s <= 100 * d
<1> DEFINE n == 100 * d
<1>1. n \in Nat
  OBVIOUS
<1> HIDE DEF n
<1>2. n \div s \in Nat /\ (n \div s) * s <= n
  BY <1>1
<1> QED
  BY <1>2 DEF n

LEMMA MoreTime ==
    ASSUME NEW d \in Nat, NEW w \in Nat, d <= w, NEW x \in Nat, NEW s \in Nat, x * s <= 100 * d
    PROVE  x * s <= 100 * w
<1>1. x * s \in Nat
  OBVIOUS
<1> QED
  BY <1>1

\* Nobody is shown to have worked more than it did, and who was there all the time is shown
\* as it did.
LEMMA SharesAreTrue ==
    ASSUME WorkIsCounted, NEW open \in SUBSET ProcessIds, NEW seconds \in Nat, seconds > 0,
           NEW p \in Known(Stats(open))
    PROVE  LET share == Shares(Stats(open), seconds)[p]
           IN /\ share \in Nat /\ share * seconds <= 100 * spent[p]
              /\ p \notin replaced => share = (100 * spent[p]) \div seconds
<1> DEFINE stats == Stats(open)
           d == Delta(stats, p)
           share == Share(stats, p, seconds)
<1>1. p \in DOMAIN stats /\ p \in DOMAIN samples /\ Shares(stats, seconds)[p] = share
  BY DEF Known, Shares
<1>2. p \in ProcessIds /\ processes[p] # None /\ stats[p].cpu = processes[p].cpu /\ stats[p].cpu \in Nat
  BY <1>1, StatsAre
<1> HIDE DEF stats
<1>3. /\ samples[p].cpu \in Nat /\ spent[p] \in Nat
      /\ p \in replaced => stats[p].cpu = spent[p]
      /\ p \notin replaced => stats[p].cpu = samples[p].cpu + spent[p]
  BY <1>1, <1>2 DEF WorkIsCounted
<1>4. d \in Int /\ d <= spent[p] /\ (p \notin replaced => d = spent[p])
  BY <1>2, <1>3 DEF Delta
<1>5. share = IF d > 0 THEN (100 * d) \div seconds ELSE 0
  BY DEF Share
<1> HIDE DEF d, share
<1>6. CASE d > 0
  <2>1. d \in Nat
    BY <1>4, <1>6
  <2>2. share = (100 * d) \div seconds
    BY <1>5, <1>6
  <2>3. share \in Nat /\ share * seconds <= 100 * d
    BY <2>1, <2>2, PartsOfTime
  <2>4. share * seconds <= 100 * spent[p]
    BY <1>3, <1>4, <2>1, <2>3, MoreTime
  <2>5. p \notin replaced => share = (100 * spent[p]) \div seconds
    BY <1>4, <2>2
  <2> QED
    BY <1>1, <2>3, <2>4, <2>5 DEF stats, share
<1>7. CASE ~(d > 0)
  <2>1. share = 0
    BY <1>5, <1>7
  <2>2. p \notin replaced => spent[p] = 0
    BY <1>3, <1>4, <1>7
  <2>3. share \in Nat /\ share * seconds <= 100 * spent[p]
    BY <1>3, <2>1
  <2>4. (100 * 0) \div seconds = 0
    OBVIOUS
  <2>5. p \notin replaced => share = (100 * spent[p]) \div seconds
    BY <2>1, <2>2, <2>4
  <2> QED
    BY <1>1, <2>3, <2>5 DEF stats, share
<1> QED
  BY <1>6, <1>7

\* An engine is at least as busy as a process is there, and a process at its busiest,
\* which the driver may not name.
LEMMA EnginesAreBusier ==
    ASSUME NEW counters, IsFiniteSet(counters), \A c \in counters : c.load \in Nat,
           NEW p \in DOMAIN ByProcess(counters)
    PROVE  /\ ByProcess(counters)[p] \in Nat
           /\ \/ \E c \in counters : /\ c.process = p /\ c.engine = None
                                    /\ c.load >= ByProcess(counters)[p]
              \/ \E e \in DOMAIN ByEngine(counters) :
                     ByEngine(counters)[e] \in Nat /\ ByEngine(counters)[e] >= ByProcess(counters)[p]
<1> DEFINE its == {x \in counters : x.process = p}
           loads == {c.load : c \in its}
           all == [c \in counters |-> c.load]
<1>1. ByProcess(counters)[p] = Max(loads) /\ loads # {}
  BY DEF ByProcess
<1>2. SumOf(all) \in Nat /\ \A c \in counters : c.load <= SumOf(all)
  <2>1. IsFiniteSet(DOMAIN all) /\ \A c \in DOMAIN all : all[c] \in Nat /\ all[c] = c.load
    OBVIOUS
  <2>2. DOMAIN all = counters
    OBVIOUS
  <2> HIDE DEF all
  <2> QED
    BY <2>1, <2>2, SumIsNatural
<1>3. loads \subseteq 0 .. SumOf(all)
  BY <1>2
<1> HIDE DEF loads, all
<1>4. Max(loads) \in loads
  BY <1>1, <1>2, <1>3, MaxIsIn
<1>5. PICK c \in counters : c.process = p /\ Max(loads) = c.load
  BY <1>4 DEF loads
<1> DEFINE here == [x \in {y \in counters : y.engine = c.engine} |-> x.load]
<1>6. c.engine # None =>
          c.engine \in DOMAIN ByEngine(counters) /\ ByEngine(counters)[c.engine] = Total(here)
  BY DEF ByEngine
<1>7. DOMAIN here \in SUBSET counters /\ c \in DOMAIN here /\ here[c] = c.load
      /\ \A x \in DOMAIN here : here[x] \in Nat
  OBVIOUS
<1> HIDE DEF here
<1>8. IsFiniteSet(DOMAIN here)
  BY <1>7, FS_Subset
<1>9. SumOf(here) \in Nat /\ c.load <= SumOf(here)
  BY <1>7, <1>8, SumIsNatural
<1>10. Total(here) \in Nat /\ Total(here) >= c.load
  BY <1>9, TotalIsSum
<1>11. c.load \in Nat /\ ByProcess(counters)[p] = c.load
  BY <1>1, <1>5
<1>12. CASE c.engine = None
  BY <1>5, <1>11, <1>12
<1>13. CASE c.engine # None
  <2> DEFINE e == c.engine
             engines == ByEngine(counters)
  <2>1. e \in DOMAIN engines /\ engines[e] \in Nat /\ engines[e] >= ByProcess(counters)[p]
    BY <1>6, <1>10, <1>11, <1>13
  <2> HIDE DEF e, engines
  <2>2. \E n \in DOMAIN engines : engines[n] \in Nat /\ engines[n] >= ByProcess(counters)[p]
    BY <2>1
  <2> QED
    BY <1>11, <2>2 DEF engines
<1> QED
  BY <1>12, <1>13

\* The cap takes what is above the whole.
LEMMA CappedIs ==
    ASSUME NEW busy, NEW p \in DOMAIN busy, busy[p] \in Nat
    PROVE  /\ Capped(busy)[p] = Min({100, busy[p]})
           /\ Capped(busy)[p] \in Nat /\ Capped(busy)[p] <= busy[p]
<1> DEFINE n == busy[p]
<1>1. Capped(busy)[p] = Min({100, n})
  BY DEF Capped
<1> HIDE DEF n
<1>2. n \in Nat
  BY DEF n
<1>3. CASE n <= 100
  <2>1. Min({100, n}) = n
    BY <1>2, <1>3 DEF Min
  <2> QED
    BY <1>1, <1>2, <2>1 DEF n
<1>4. CASE n > 100
  <2>1. Min({100, n}) = 100
    BY <1>2, <1>4 DEF Min
  <2> QED
    BY <1>1, <1>2, <1>4, <2>1 DEF n
<1> QED
  BY <1>2, <1>3, <1>4

LEMMA AppsAre ==
    ASSUME NEW stats, NEW seconds, NEW busy
    PROVE  LET table == AppsTable(stats, seconds, busy)
               shares == Shares(stats, seconds)
           IN /\ DOMAIN table = Leading(TopApps, Known(stats), shares)
              /\ \A p \in DOMAIN table :
                    /\ table[p].name = stats[p].name /\ table[p].cpu = shares[p]
                    /\ table[p].read = Rate(stats, p, seconds)
                    /\ table[p].gpu = IF p \in DOMAIN busy THEN busy[p] ELSE None
                    /\ table[p].memory = IF "memory" \in Access[stats[p].name] THEN p ELSE None
<1> DEFINE shares == Shares(stats, seconds)
           entered == Leading(TopApps, Known(stats), shares)
           memory == Memory(stats, entered)
           table == AppsTable(stats, seconds, busy)
<1>1. table = [p \in entered |->
                  [name |-> stats[p].name, cpu |-> shares[p], read |-> Rate(stats, p, seconds),
                   gpu |-> IF p \in DOMAIN busy THEN busy[p] ELSE None,
                   memory |-> IF p \in DOMAIN memory THEN memory[p] ELSE None]]
  BY DEF AppsTable
<1>2. \A p \in entered : /\ p \in DOMAIN memory <=> "memory" \in Access[stats[p].name]
                         /\ p \in DOMAIN memory => memory[p] = p
  BY DEF Memory
<1> HIDE DEF shares, entered, memory, table
<1>3. DOMAIN table = entered
  BY <1>1
<1>4. ASSUME NEW p \in entered
      PROVE  /\ table[p].name = stats[p].name /\ table[p].cpu = shares[p]
             /\ table[p].read = Rate(stats, p, seconds)
             /\ table[p].gpu = IF p \in DOMAIN busy THEN busy[p] ELSE None
             /\ table[p].memory = IF "memory" \in Access[stats[p].name] THEN p ELSE None
  <2>1. table[p] = [name |-> stats[p].name, cpu |-> shares[p], read |-> Rate(stats, p, seconds),
                    gpu |-> IF p \in DOMAIN busy THEN busy[p] ELSE None,
                    memory |-> IF p \in DOMAIN memory THEN memory[p] ELSE None]
    BY <1>1
  <2>2. table[p].memory = IF p \in DOMAIN memory THEN memory[p] ELSE None
    BY <2>1
  <2>3. table[p].memory = IF "memory" \in Access[stats[p].name] THEN p ELSE None
    <3>1. CASE p \in DOMAIN memory
      <4>1. memory[p] = p /\ "memory" \in Access[stats[p].name]
        BY <1>2, <3>1
      <4> QED
        BY <2>2, <3>1, <4>1
    <3>2. CASE p \notin DOMAIN memory
      <4>1. "memory" \notin Access[stats[p].name]
        BY <1>2, <3>2
      <4> QED
        BY <2>2, <3>2, <4>1
    <3> QED
      BY <3>1, <3>2
  <2>4. /\ table[p].name = stats[p].name /\ table[p].cpu = shares[p]
        /\ table[p].read = Rate(stats, p, seconds)
    BY <2>1
  <2>5. table[p].gpu = IF p \in DOMAIN busy THEN busy[p] ELSE None
    BY <2>1
  <2> QED
    BY <2>3, <2>4, <2>5
<1> QED
  BY <1>3, <1>4 DEF shares, entered, table

LEMMA KnownAre ==
    ASSUME WorkIsCounted, NEW open \in SUBSET ProcessIds
    PROVE  /\ Known(Stats(open)) \in SUBSET ProcessIds /\ Known(Stats(open)) \in SUBSET Nat
           /\ IsFiniteSet(Known(Stats(open)))
<1>1. Known(Stats(open)) \in SUBSET ProcessIds
  BY DEF Known, WorkIsCounted
<1> QED
  BY <1>1, FS_Subset, TableConstants

LEMMA AtMostAll ==
    ASSUME NEW s \in Nat, s > 0, NEW x \in Nat, NEW w \in Nat, w <= s, s * x <= 100 * w
    PROVE  x <= 100
<1> SUFFICES ASSUME x >= 101 PROVE FALSE
  OBVIOUS
<1>1. s * x = s * (x - 101) + s * 101 /\ s * (x - 101) \in Nat
  <2>1. PICK y \in Nat : x = y + 101
    <3>1. x - 101 \in Nat /\ x = (x - 101) + 101
      OBVIOUS
    <3> QED
      BY <3>1
  <2>2. s * (y + 101) = s * y + s * 101 /\ s * y \in Nat /\ x - 101 = y
    BY <2>1
  <2> QED
    BY <2>1, <2>2
<1>2. s * x >= 101 * s
  BY <1>1
<1> QED
  BY <1>2

\* All together are not entered to have worked more than there was time to.
LEMMA SharesAddUp ==
    ASSUME WorkIsCounted, NEW open \in SUBSET ProcessIds, NEW seconds \in Nat, seconds > 0,
           Total(spent) <= seconds, NEW entered \in SUBSET Known(Stats(open))
    PROVE  Total([p \in ProcessIds |-> IF p \in entered THEN Shares(Stats(open), seconds)[p] ELSE 0]) <= 100
<1> DEFINE f == [p \in ProcessIds |-> IF p \in entered THEN Shares(Stats(open), seconds)[p] ELSE 0]
           h == spent
<1>1. DOMAIN f = ProcessIds /\ DOMAIN h = DOMAIN f /\ IsFiniteSet(DOMAIN f)
  BY TableConstants DEF WorkIsCounted
<1>2. ASSUME NEW p \in ProcessIds PROVE f[p] \in Nat /\ h[p] \in Nat /\ seconds * f[p] <= 100 * h[p]
  <2>1. h[p] \in Nat
    BY DEF WorkIsCounted
  <2>2. CASE p \in entered
    <3> DEFINE share == Shares(Stats(open), seconds)[p]
    <3>1. share \in Nat /\ share * seconds <= 100 * spent[p]
      BY <2>2, SharesAreTrue
    <3>2. f[p] = share
      BY <2>2
    <3> HIDE DEF share, f
    <3>3. share * seconds = seconds * share
      BY <3>1
    <3> QED
      BY <2>1, <3>1, <3>2, <3>3
  <2>3. CASE p \notin entered
    <3>1. f[p] = 0
      BY <2>3
    <3> HIDE DEF f
    <3>2. seconds * f[p] = 0 /\ 100 * h[p] \in Nat
      BY <2>1, <3>1
    <3> QED
      BY <2>1, <3>1, <3>2
  <2> QED
    BY <2>2, <2>3
<1>3. Total(h) <= seconds
  OBVIOUS
<1> HIDE DEF f, h
<1>4. seconds * SumOf(f) <= 100 * SumOf(h)
  BY <1>1, <1>2, SumsCompare
<1>5. SumOf(f) \in Nat /\ SumOf(h) \in Nat
  BY <1>1, <1>2, SumIsNatural
<1>6. SumOf(h) <= seconds
  BY <1>3, TotalIsSum
<1>7. SumOf(f) <= 100
  BY <1>4, <1>5, <1>6, AtMostAll
<1>8. Total(f) <= 100
  BY <1>7, TotalIsSum
<1> QED
  BY <1>8 DEF f

Leaders(table) == {p \in Leading(1, DOMAIN table, table) : table[p] >= 5}

\* The tables of a tick with a duration.
LEMMA TimedTablesAgree ==
    ASSUME WorkIsCounted, NEW open \in SUBSET ProcessIds, NEW seconds \in Nat, seconds > 0, NEW busy
    PROVE  LET stats == Stats(open)
               apps == AppsTable(stats, seconds, busy)
               cpu == CpuTop(stats, seconds)
           IN /\ \A p \in DOMAIN apps :
                    /\ apps[p].cpu * seconds <= 100 * spent[p]
                    /\ p \notin replaced => apps[p].cpu = (100 * spent[p]) \div seconds
                    /\ apps[p].memory = None <=> "memory" \notin Access[apps[p].name]
                    /\ apps[p].read # None => "reads" \in Access[apps[p].name]
                    /\ p \in DOMAIN busy => apps[p].gpu = busy[p]
              /\ Total(spent) <= seconds =>
                    Total([p \in ProcessIds |-> IF p \in DOMAIN apps THEN apps[p].cpu ELSE 0]) <= 100
              /\ \A p \in DOMAIN cpu :
                    /\ p \in DOMAIN apps /\ apps[p].cpu = cpu[p]
                    /\ \A o \in DOMAIN apps \ DOMAIN cpu : apps[o].cpu <= cpu[p]
              /\ \A p \in Leaders(cpu), o \in DOMAIN apps : apps[p].cpu >= apps[o].cpu
<1> DEFINE stats == Stats(open)
           apps == AppsTable(stats, seconds, busy)
           cpu == CpuTop(stats, seconds)
           shares == Shares(stats, seconds)
           K == Known(stats)
           some == {p \in K : shares[p] > 0}
<1>1. /\ DOMAIN apps = Leading(TopApps, K, shares)
      /\ \A p \in DOMAIN apps :
            /\ apps[p].name = stats[p].name /\ apps[p].cpu = shares[p]
            /\ apps[p].read = Rate(stats, p, seconds)
            /\ apps[p].gpu = IF p \in DOMAIN busy THEN busy[p] ELSE None
            /\ apps[p].memory = IF "memory" \in Access[stats[p].name] THEN p ELSE None
  BY AppsAre
<1>2. DOMAIN cpu = Leading(TopCpu, some, shares) /\ \A p \in DOMAIN cpu : cpu[p] = shares[p]
  BY DEF CpuTop, Only
<1>3. K \in SUBSET ProcessIds /\ K \in SUBSET Nat /\ IsFiniteSet(K)
  BY KnownAre
<1>4. \A p \in K : /\ shares[p] \in Nat /\ shares[p] * seconds <= 100 * spent[p]
                   /\ p \notin replaced => shares[p] = (100 * spent[p]) \div seconds
  BY SharesAreTrue
<1>5. \A p \in K : p \in DOMAIN stats /\ (stats[p].read # None => "reads" \in Access[stats[p].name])
  BY StatsAre DEF Known
<1>6. DOMAIN apps \subseteq K
  BY <1>1 DEF Leading
<1>7. DOMAIN cpu \subseteq some
  BY <1>2 DEF Leading
<1>8. TopCpu \in Nat /\ TopApps \in Nat /\ TopCpu <= TopApps /\ None \notin ProcessIds
  BY TableConstants
<1>9. Total(spent) <= seconds =>
          Total([p \in ProcessIds |-> IF p \in DOMAIN apps THEN apps[p].cpu ELSE 0]) <= 100
  <2> SUFFICES ASSUME Total(spent) <= seconds
               PROVE  Total([p \in ProcessIds |-> IF p \in DOMAIN apps THEN apps[p].cpu ELSE 0]) <= 100
    OBVIOUS
  <2> DEFINE D == DOMAIN apps
  <2>1. [p \in ProcessIds |-> IF p \in D THEN apps[p].cpu ELSE 0]
           = [p \in ProcessIds |-> IF p \in D THEN shares[p] ELSE 0]
    <3>1. \A p \in D : apps[p].cpu = shares[p]
      BY <1>1
    <3> HIDE DEF D, apps, shares
    <3> QED
      BY <3>1
  <2>2. D \in SUBSET K
    BY <1>6
  <2>3. Total([p \in ProcessIds |-> IF p \in D THEN shares[p] ELSE 0]) <= 100
    <3> HIDE DEF D
    <3> QED
      BY <2>2, SharesAddUp
  <2> QED
    BY <2>1, <2>3
<1>10. \A p \in K : Rate(stats, p, seconds) # None => stats[p].read # None
  BY DEF Rate
<1> HIDE DEF stats, apps, cpu, shares, K
<1>11. ASSUME NEW p \in DOMAIN apps
       PROVE  /\ apps[p].cpu * seconds <= 100 * spent[p]
              /\ p \notin replaced => apps[p].cpu = (100 * spent[p]) \div seconds
              /\ apps[p].memory = None <=> "memory" \notin Access[apps[p].name]
              /\ apps[p].read # None => "reads" \in Access[apps[p].name]
              /\ p \in DOMAIN busy => apps[p].gpu = busy[p]
  <2>1. p \in K /\ p # None
    BY <1>3, <1>6, <1>8
  <2>2. apps[p].memory = None <=> "memory" \notin Access[apps[p].name]
    BY <1>1, <2>1
  <2>3. apps[p].read # None => "reads" \in Access[apps[p].name]
    BY <1>1, <1>5, <1>10, <2>1
  <2> QED
    BY <1>1, <1>4, <2>1, <2>2, <2>3
<1>12. ASSUME NEW p \in DOMAIN cpu
       PROVE  /\ p \in DOMAIN apps /\ apps[p].cpu = cpu[p]
              /\ \A o \in DOMAIN apps \ DOMAIN cpu : apps[o].cpu <= cpu[p]
  <2>1. p \in DOMAIN apps
    BY <1>1, <1>2, <1>3, <1>4, <1>8, FewLeadMany
  <2>2. apps[p].cpu = shares[p] /\ cpu[p] = shares[p] /\ p \in some /\ shares[p] \in Nat
    BY <1>1, <1>2, <1>4, <1>7, <2>1
  <2>3. ASSUME NEW o \in DOMAIN apps \ DOMAIN cpu PROVE apps[o].cpu <= cpu[p]
    <3>1. o \in K /\ apps[o].cpu = shares[o] /\ shares[o] \in Nat
      BY <1>1, <1>4, <1>6
    <3>2. CASE o \in some
      <4>1. some \in SUBSET Nat /\ IsFiniteSet(some) /\ \A x \in some : shares[x] \in Nat
        BY <1>3, <1>4, FS_Subset
      <4>2. o \in some \ Leading(TopCpu, some, shares) /\ p \in Leading(TopCpu, some, shares)
        BY <1>2, <3>2
      <4> HIDE DEF some
      <4>3. shares[o] <= shares[p]
        BY <1>8, <4>1, <4>2, LeadersLead
      <4> QED
        BY <2>2, <3>1, <4>3
    <3>3. CASE o \notin some
      <4>1. ~(shares[o] > 0)
        BY <3>1, <3>3
      <4> QED
        BY <2>2, <3>1, <4>1
    <3> QED
      BY <3>2, <3>3
  <2> QED
    BY <2>1, <2>2, <2>3
<1>13. ASSUME NEW p \in Leaders(cpu), NEW o \in DOMAIN apps PROVE apps[p].cpu >= apps[o].cpu
  <2>1. p \in DOMAIN cpu /\ p \in Leading(1, DOMAIN cpu, cpu)
    BY DEF Leaders, Leading
  <2>2. apps[p].cpu = cpu[p] /\ cpu[p] \in Nat /\ apps[o].cpu \in Nat
    BY <1>1, <1>2, <1>4, <1>6, <1>7, <1>12, <2>1
  <2>3. CASE o \in DOMAIN cpu
    <3>1. DOMAIN cpu \in SUBSET Nat /\ IsFiniteSet(DOMAIN cpu) /\ \A x \in DOMAIN cpu : cpu[x] \in Nat
      BY <1>2, <1>3, <1>4, <1>7, FS_Subset
    <3>2. cpu[o] <= cpu[p]
      BY <2>1, <2>3, <3>1, FirstLeads
    <3>3. apps[o].cpu = cpu[o]
      BY <1>12, <2>3
    <3> QED
      BY <2>2, <3>2, <3>3
  <2>4. CASE o \notin DOMAIN cpu
    <3>1. apps[o].cpu <= cpu[p]
      BY <1>12, <2>1, <2>4
    <3> QED
      BY <2>2, <3>1
  <2> QED
    BY <2>3, <2>4
<1> QED
  BY <1>9, <1>11, <1>12, <1>13 DEF stats, apps, cpu

LEMMA SampleStaysTrue == TablesInv /\ SampleProcesses => TablesInv'
<1> SUFFICES ASSUME TablesInv, SampleProcesses PROVE TablesInv'
  OBVIOUS
<1>1. /\ WorkIsCounted /\ elapsed \in Nat /\ adjusted \in Int /\ Total(spent) <= elapsed
      /\ spent' = Nobody /\ replaced' = {} /\ elapsed' = 0 /\ adjusted' = 0 /\ processes' = processes
  BY DEF TablesInv, SampleProcesses
<1> DEFINE seconds == elapsed + adjusted
           timed == seconds > 0
           counting(use) == {c \in use : processes[c.process] # None}
<1>2. PICK open \in SUBSET ProcessIds, use \in GpuUses :
          LET stats == Stats(open)
              busy == ByProcess(counting(use))
          IN /\ tables' = [cpu |-> IF timed THEN CpuTop(stats, seconds) ELSE NoSample,
                           apps |-> IF timed THEN AppsTable(stats, seconds, busy) ELSE NoSample,
                           gpu |-> GpuTop(stats, busy),
                           engines |-> ByEngine(counting(use)), counters |-> counting(use),
                           spent |-> spent, replaced |-> replaced,
                           elapsed |-> elapsed, adjusted |-> adjusted]
             /\ samples' = Kept(stats, seconds)
  BY DEF SampleProcesses
<1> DEFINE stats == Stats(open)
           counters == counting(use)
           busy == ByProcess(counters)
           apps == IF timed THEN AppsTable(stats, seconds, busy) ELSE NoSample
           cpu == IF timed THEN CpuTop(stats, seconds) ELSE NoSample
           gpu == GpuTop(stats, busy)
           engines == ByEngine(counters)
<1>3. /\ DOMAIN stats = {x \in open : processes[x] # None}
      /\ \A p \in DOMAIN stats : stats[p].cpu = processes[p].cpu /\ stats[p].cpu \in Nat
  BY <1>1, StatsAre
<1>4. samples' = stats
  BY <1>2 DEF Kept
<1>5. /\ tables'.cpu = cpu /\ tables'.apps = apps /\ tables'.gpu = gpu /\ tables'.engines = engines
      /\ tables'.spent = spent /\ tables'.replaced = replaced /\ tables'.counters = counters
      /\ tables'.elapsed = elapsed /\ tables'.adjusted = adjusted
  <2> HIDE DEF apps, cpu, gpu, engines, counters
  <2>1. tables' = [cpu |-> cpu, apps |-> apps, gpu |-> gpu, engines |-> engines,
                   counters |-> counters, spent |-> spent,
                   replaced |-> replaced, elapsed |-> elapsed, adjusted |-> adjusted]
    BY <1>2 DEF apps, cpu, gpu, engines, counters
  <2> QED
    BY <2>1
<1>6. seconds \in Int
  BY <1>1
<1>7. /\ IsFiniteSet(counters) /\ \A c \in counters : c.load \in Nat
  BY TableConstants, FS_Subset
<1>8. WorkIsCounted'
  <2>1. /\ DOMAIN samples' \subseteq ProcessIds
        /\ \A p \in DOMAIN samples' : samples'[p].cpu \in Nat /\ samples'[p].cpu = processes[p].cpu
    BY <1>3, <1>4
  <2>2. spent' \in [ProcessIds -> Nat] /\ \A p \in ProcessIds : spent'[p] = 0
    BY <1>1 DEF Nobody
  <2>3. DOMAIN processes = ProcessIds /\ \A p \in ProcessIds : processes[p] # None => IsProcess(processes[p])
    BY <1>1 DEF WorkIsCounted
  <2>4. ASSUME NEW p \in DOMAIN samples'
        PROVE  /\ samples'[p].cpu \in Nat
               /\ processes'[p] # None /\ p \in replaced' => processes'[p].cpu = spent'[p]
               /\ processes'[p] # None /\ p \notin replaced' => processes'[p].cpu = samples'[p].cpu + spent'[p]
    <3>1. /\ samples'[p].cpu \in Nat /\ samples'[p].cpu = processes'[p].cpu /\ spent'[p] = 0
          /\ p \notin replaced'
      BY <1>1, <2>1, <2>2
    <3>2. processes'[p].cpu = samples'[p].cpu + spent'[p]
      BY <3>1
    <3> QED
      BY <3>1, <3>2
  <2> QED
    BY <1>1, <2>1, <2>2, <2>3, <2>4 DEF WorkIsCounted
<1>9. Total(spent)' <= elapsed'
  BY <1>1, NobodyWorked
<1> HIDE DEF seconds, timed, counting, counters, busy, apps, cpu, gpu, engines, stats
<1>10. /\ \A p \in DOMAIN apps :
             /\ apps[p].cpu * seconds <= 100 * spent[p]
             /\ p \notin replaced => apps[p].cpu = (100 * spent[p]) \div seconds
             /\ apps[p].memory = None <=> "memory" \notin Access[apps[p].name]
             /\ apps[p].read # None => "reads" \in Access[apps[p].name]
             /\ p \in DOMAIN busy => apps[p].gpu = busy[p]
       /\ Total(spent) <= seconds =>
             Total([p \in ProcessIds |-> IF p \in DOMAIN apps THEN apps[p].cpu ELSE 0]) <= 100
       /\ \A p \in DOMAIN cpu :
             /\ p \in DOMAIN apps /\ apps[p].cpu = cpu[p]
             /\ \A o \in DOMAIN apps \ DOMAIN cpu : apps[o].cpu <= cpu[p]
       /\ \A p \in Leaders(cpu), o \in DOMAIN apps : apps[p].cpu >= apps[o].cpu
  <2>1. CASE timed
    <3>1. seconds \in Nat /\ seconds > 0
      BY <1>6, <2>1 DEF timed
    <3>2. apps = AppsTable(Stats(open), seconds, busy) /\ cpu = CpuTop(Stats(open), seconds)
      BY <2>1 DEF apps, cpu, stats
    <3> QED
      BY <1>1, <3>1, <3>2, TimedTablesAgree
  <2>2. CASE ~timed
    <3>1. DOMAIN apps = {} /\ DOMAIN cpu = {}
      BY <2>2 DEF apps, cpu, NoSample
    <3>2. Leaders(cpu) = {}
      BY <3>1 DEF Leaders, Leading
    <3>3. Total([p \in ProcessIds |-> IF p \in DOMAIN apps THEN apps[p].cpu ELSE 0]) <= 100
      <4>1. [p \in ProcessIds |-> IF p \in DOMAIN apps THEN apps[p].cpu ELSE 0] = Nobody
        BY <3>1 DEF Nobody
      <4>2. Total(Nobody) \in Nat
        <5>1. DOMAIN Nobody = ProcessIds /\ \A p \in ProcessIds : Nobody[p] \in Nat
          BY DEF Nobody
        <5> QED
          BY <5>1, TableConstants, SumIsNatural, TotalIsSum
      <4> QED
        BY <4>1, <4>2, NobodyWorked
    <3> QED
      BY <3>1, <3>2, <3>3
  <2> QED
    BY <2>1, <2>2
<1>11. Responsible("cpu")' \subseteq Leaders(cpu) /\ Responsible("gpu")' \subseteq Leaders(gpu)
  <2>1. PICK t : t = tables'
    OBVIOUS
  <2>2. t["cpu"] = cpu /\ t["gpu"] = gpu
    BY <1>5, <2>1
  <2>3. Responsible("cpu")' \subseteq Leaders(t["cpu"]) /\ Responsible("gpu")' \subseteq Leaders(t["gpu"])
    BY <2>1 DEF Responsible, Leaders, Leading, NoSample
  <2> QED
    BY <2>2, <2>3
<1>12. ASSUME NEW p \in DOMAIN gpu
       PROVE  /\ p \in DOMAIN busy /\ gpu[p] = Min({100, busy[p]})
              /\ gpu[p] \in Nat /\ busy[p] \in Nat /\ gpu[p] <= busy[p]
              /\ \/ \E c \in counters : c.process = p /\ c.engine = None /\ c.load >= gpu[p]
                 \/ \E e \in DOMAIN engines : engines[e] >= gpu[p]
  <2>1. p \in DOMAIN busy /\ gpu[p] = Capped(busy)[p]
    BY DEF gpu, GpuTop, Only, Leading
  <2>2. /\ busy[p] \in Nat
        /\ \/ \E c \in counters : c.process = p /\ c.engine = None /\ c.load >= busy[p]
           \/ \E e \in DOMAIN engines : engines[e] \in Nat /\ engines[e] >= busy[p]
    BY <1>7, <2>1, EnginesAreBusier DEF busy, engines
  <2>3. gpu[p] = Min({100, busy[p]}) /\ gpu[p] \in Nat /\ gpu[p] <= busy[p]
    BY <2>1, <2>2, CappedIs
  <2>4. CASE \E c \in counters : c.process = p /\ c.engine = None /\ c.load >= busy[p]
    <3>1. PICK c \in counters : c.process = p /\ c.engine = None /\ c.load >= busy[p]
      BY <2>4
    <3>2. c.load \in Nat
      BY <1>7
    <3>3. c.load >= gpu[p]
      BY <2>2, <2>3, <3>1, <3>2
    <3> QED
      BY <2>1, <2>2, <2>3, <3>1, <3>3
  <2>5. CASE \E e \in DOMAIN engines : engines[e] \in Nat /\ engines[e] >= busy[p]
    <3>1. PICK e \in DOMAIN engines : engines[e] \in Nat /\ engines[e] >= busy[p]
      BY <2>5
    <3>2. engines[e] >= gpu[p]
      BY <2>2, <2>3, <3>1
    <3> QED
      BY <2>1, <2>2, <2>3, <3>2
  <2> QED
    BY <2>2, <2>4, <2>5
<1>13. ASSUME NEW p \in Responsible("gpu")' \cap DOMAIN apps
       PROVE  gpu[p] = Min({100, apps[p].gpu}) /\ apps[p].gpu >= 5
  <2>1. p \in DOMAIN gpu /\ gpu[p] >= 5
    BY <1>11 DEF Leaders, Leading
  <2>2. apps[p].gpu = busy[p]
    BY <1>10, <1>12, <2>1
  <2> QED
    BY <1>12, <2>1, <2>2
<1>14. TablesAgree'
  <2>1. tables'.adjusted = 0 => Total(spent) <= seconds
    BY <1>1, <1>5 DEF seconds
  <2>2. tables'.elapsed + tables'.adjusted = seconds
    BY <1>5 DEF seconds
  <2> QED
    <3>1. \A p \in Responsible("gpu")' \cap DOMAIN tables'.apps :
              tables'.gpu[p] = Min({100, tables'.apps[p].gpu}) /\ tables'.apps[p].gpu >= 5
      BY <1>5, <1>13
    <3>2. \A p \in DOMAIN tables'.gpu :
              \/ \E c \in tables'.counters : c.process = p /\ c.engine = None /\ c.load >= tables'.gpu[p]
              \/ \E e \in DOMAIN tables'.engines : tables'.engines[e] >= tables'.gpu[p]
      BY <1>5, <1>12
    <3> QED
      BY <1>5, <1>10, <1>11, <2>1, <2>2, <3>1, <3>2 DEF TablesAgree
<1> QED
  BY <1>1, <1>8, <1>9, <1>14 DEF TablesInv

LEMMA TablesNextInv == TablesInv /\ [TablesNext]_tableVars => TablesInv'
<1> SUFFICES ASSUME TablesInv, [TablesNext]_tableVars PROVE TablesInv'
  OBVIOUS
<1>1. CASE UnitPasses
  BY <1>1, UnitStaysTrue
<1>2. CASE ProcessChanges
  BY <1>2, ChangeStaysTrue
<1>3. CASE ClockIsSet
  BY <1>3, ClockStaysTrue
<1>4. CASE SampleProcesses
  BY <1>4, SampleStaysTrue
<1>5. CASE UNCHANGED tableVars
  <2>1. /\ processes' = processes /\ spent' = spent /\ replaced' = replaced /\ elapsed' = elapsed
        /\ adjusted' = adjusted /\ samples' = samples /\ tables' = tables
    BY <1>5 DEF tableVars
  <2>2. WorkIsCounted'
    BY <2>1 DEF TablesInv, WorkIsCounted
  <2>3. \A b : Responsible(b)' = Responsible(b)
    BY <2>1 DEF Responsible
  <2>4. TablesAgree'
    BY <2>1, <2>3 DEF TablesInv, TablesAgree
  <2>5. Total(spent') = Total(spent)
    BY <2>1
  <2>6. Total(spent)' <= elapsed'
    BY <2>1, <2>5 DEF TablesInv
  <2> QED
    BY <2>1, <2>2, <2>4, <2>6 DEF TablesInv
<1> QED
  BY <1>1, <1>2, <1>3, <1>4, <1>5 DEF TablesNext

-----------------------------------------------------------------------------
\* THE PROGRAM AT ITS SCREEN

RecordsInv == ChronicleInv /\ MarkersInv /\ LogInv /\ AnswersInv

\* A step of the program is one of each part, or leaves it alone.
LEMMA EachPartMoves ==
    [ConsoleNext]_consoleVars =>
        /\ [ChronicleNext]_chronicleVars
        /\ [MarkersNext]_markerVars
        /\ [LogNext]_logVars
        /\ [AnswersNext]_answerVars
        /\ [SettingsNext]_settingsVars
        /\ [WindowsNext]_windowVars
        /\ [ViewsNext]_viewVars
        /\ [SamplersNext]_samplerVars
        /\ [TablesNext]_tableVars
        /\ [PanelsNext]_panelVars
BY DEF ConsoleNext, consoleVars, Observing, HandingOver, Sampling, Tabulating, Displaying, Browsing,
       Viewing, Marking, Logging, Recording, Answering, Configuring

\* Records, markers and events are found again, and an answer about a time denies no record
\* of it, or says that the time was poorly watched or had a gap: whatever is stored, deleted,
\* cleared, lost or asked for, in any order, and for all limits.
THEOREM RecordsAreAlwaysFound == ConsoleSpec => []RecordsAreFound
<1>1. ConsoleInit => RecordsInv
  BY ChronicleInitially, MarkersInitially, LogInitially, AnswersInitially DEF ConsoleInit, RecordsInv
<1>2. RecordsInv /\ [ConsoleNext]_consoleVars => RecordsInv'
  BY EachPartMoves, ChronicleNextInv, MarkersNextInv, LogNextInv, AnswersNextInv DEF RecordsInv
<1>3. RecordsInv => RecordsAreFound
  BY IdentifiersDiffer, TimelinesSplit, MarkersHold, LogHolds, AnswersHold
     DEF RecordsInv, RecordsAreFound
<1> QED
  BY <1>1, <1>2, <1>3, PTL DEF ConsoleSpec

ScreensInv == WindowsInv /\ ViewsInv /\ SettingsInv

\* The windows show what is stored and was read: whichever is opened from which, and
\* whatever is filtered, selected, exported, recorded or saved meanwhile, in any order, and
\* for all records, facts, settings and names that occur in others.
THEOREM ScreensAreAlwaysTrue == ConsoleSpec => []ScreensAreTrue
<1>1. ConsoleInit => ScreensInv
  BY WindowsInitially, ViewsInitially, SettingsInitially DEF ConsoleInit, ScreensInv
<1>2. ScreensInv /\ [ConsoleNext]_consoleVars => ScreensInv'
  BY EachPartMoves, WindowsNextInv, ViewsNextInv, SettingsNextInv DEF ScreensInv
<1>3. ScreensInv => ScreensAreTrue
  BY WindowsHold, ViewsHold, SettingsHold DEF ScreensInv, ScreensAreTrue
<1> QED
  BY <1>1, <1>2, <1>3, PTL DEF ConsoleSpec

UsageInv == SamplersInv /\ TablesInv /\ PanelsInv

\* What the tabs say of the machine is true: no handle of Windows is lost, no instance waits
\* beyond its time for a counter that Windows does not refuse (unless an expansion left the
\* sampler without any), nobody is shown to have used more than it did, and each row is that
\* of what it is named for: whatever starts, ends, takes over an identifier, comes or goes,
\* in any order, and for all processes, counters, with an engine or without, and sensors.
THEOREM UsageIsAlwaysTrue == ConsoleSpec => []UsageIsTrue
<1>1. ConsoleInit => UsageInv
  BY SamplersInitially, TablesInitially, PanelsInitially DEF ConsoleInit, UsageInv
<1>2. UsageInv /\ [ConsoleNext]_consoleVars => UsageInv'
  BY EachPartMoves, SamplersNextInv, TablesNextInv, PanelsNextInv DEF UsageInv
<1>3. UsageInv => UsageIsTrue
  BY SamplersHold DEF UsageInv, TablesInv, PanelsInv, UsageIsTrue
<1> QED
  BY <1>1, <1>2, <1>3, PTL DEF ConsoleSpec
=============================================================================
