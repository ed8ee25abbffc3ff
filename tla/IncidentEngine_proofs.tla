------------------------ MODULE IncidentEngine_proofs ------------------------
(***************************************************************************)
(* What holds of IncidentEngine for every number of sensors, every table   *)
(* of readings, and every delay, threshold and retention: the alerts and   *)
(* the incidents, the two files and the ledger they implement, and what an *)
(* auditor who remembers the unobserved time finds in the history.         *)
(***************************************************************************)
EXTENDS IncidentAudit, SequenceTheorems, TLAPS

-----------------------------------------------------------------------------
(* The incident records.                                                   *)

\* GREEN to RED are the integers 0 to 3.
LEMMA ZoneIsRange == Zone = 0 .. 3
BY DEF Zone, GREEN, RED

\* The debounce keeps a zone state a zone state.
LEMMA ZoneStepType ==
    ASSUME NEW st \in ZoneState, NEW r \in Zone, NEW t \in Nat, NEW atOnce
    PROVE  ZoneStep(st, r, t, atOnce) \in ZoneState
BY DEF ZoneStep, ZoneState, PendingSince

LEMMA ColdZoneType ==
    ASSUME NEW t \in Nat PROVE ColdZone(t) \in ZoneState
BY ZoneIsRange DEF ColdZone, ZoneState, GREEN

LEMMA NewIncidentType ==
    ASSUME NEW k \in Keys, NEW z \in Zone, NEW t \in Nat
    PROVE  NewIncident(k, z, t) \in Incident
BY ConstantsAssumption DEF NewIncident, Incident, Id, Exactness

LEMMA TouchedType ==
    ASSUME NEW inc \in Incident, NEW z \in Zone, NEW t \in Nat
    PROVE  Touched(inc, z, t) \in Incident
BY DEF Touched, Incident

LEMMA WithLiveGapType ==
    ASSUME NEW inc \in Incident, NEW gap \in Gap
    PROVE  WithLiveGap(inc, gap) \in Incident
BY AppendProperties DEF WithLiveGap, Incident, Exactness

LEMMA ResumedType ==
    ASSUME NEW inc \in Incident, NEW gap \in Gap, NEW z \in Zone
    PROVE  Resumed(inc, gap, z) \in Incident
BY AppendProperties DEF Resumed, Incident

\* A suspend leaves at least one gap to close the incident with.
GapForPending(inc) == inc.gapPending => inc.gaps # <<>>

LEMMA ClosedLiveType ==
    ASSUME NEW inc \in Incident, GapForPending(inc),
           NEW value \in Reading, NEW t \in Nat
    PROVE  ClosedLive(inc, value, t) \in Completed
<1>1. inc.gaps \in Seq(Gap) /\ inc.gapPending \in BOOLEAN
  BY DEF Incident
<1>2. ASSUME inc.gapPending PROVE inc.gaps[Len(inc.gaps)].from \in Nat
  <2>1. Len(inc.gaps) \in 1 .. Len(inc.gaps)
    BY <1>1, <1>2, EmptySeq, LenProperties DEF GapForPending
  <2>2. inc.gaps[Len(inc.gaps)] \in Gap
    BY <1>1, <2>1, ElementOfSeq
  <2> QED
    BY <2>2 DEF Gap
<1>3. (IF inc.gapPending THEN inc.gaps[Len(inc.gaps)].from ELSE Absent)
         \in Nat \cup {Absent}
  BY <1>2
<1> QED
  BY <1>1, <1>3 DEF ClosedLive, Completed, Incident, Exactness, Reason

LEMMA ClosedAfterGapType ==
    ASSUME NEW inc \in Incident, NEW gap \in Gap, NEW value \in Reading
    PROVE  ClosedAfterGap(inc, gap, value) \in Completed
<1>1. Append(inc.gaps, gap) \in Seq(Gap)
  BY AppendProperties DEF Incident
<1>2. gap.from \in Nat /\ gap.to \in Nat
  BY DEF Gap
<1> QED
  BY <1>1, <1>2 DEF ClosedAfterGap, Completed, Incident, Exactness, Reason

LEMMA MergedType ==
    ASSUME NEW act \in Incidents, NEW pend \in Incidents
    PROVE  Merged(act, pend) \in Incidents
<1>1. ASSUME NEW inc \in Incident PROVE Persistable(inc) \in Incident
  BY DEF Persistable, Incident
<1> QED
  BY <1>1 DEF Merged, Incidents, Has

-----------------------------------------------------------------------------
(* Type correctness.                                                       *)

Op == AppendOp \cup SaveOp

\* TypeOK is not inductive: closing an incident reads the last of its gaps.
TypeInv ==
    /\ TypeOK
    /\ \A k \in Keys : Has(active, k) => GapForPending(active[k])

LEMMA ComponentsOfTypes ==
    /\ GREEN \in Zone
    /\ Zone \subseteq Nat
    /\ NoReading \in Reading
    /\ Zone \subseteq Reading
    /\ 1 \in Keys
    /\ Empty \in Incidents
    /\ ~ \E k \in Keys : Has(Empty, k)
BY ZoneIsRange, ConstantsAssumption
   DEF GREEN, Reading, Keys, Empty, Incidents, Has

LEMMA SaveOfType ==
    ASSUME NEW act \in Incidents, NEW pend \in Incidents
    PROVE  <<SaveOf(act, pend)>> \in Seq(Op)
<1>1. SaveOf(act, pend) \in Op
  BY MergedType DEF SaveOf, SaveOp, Op
<1> QED
  BY <1>1

LEMMA AppendOfType ==
    ASSUME NEW rec \in Completed PROVE AppendOf(rec) \in Op
BY DEF AppendOf, AppendOp, Op

\* The head of io is the record, or the snapshot, that its op says.
LEMMA HeadOfIo ==
    ASSUME NEW ops \in Seq(Op), ops # <<>>
    PROVE  /\ Tail(ops) \in Seq(Op)
           /\ Head(ops).op = "append" => Head(ops).rec \in Completed
           /\ Head(ops).op = "save" => Head(ops).snap \in Incidents
<1>1. Head(ops) \in Op /\ Tail(ops) \in Seq(Op)
  BY HeadTailProperties
<1> QED
  BY <1>1 DEF Op, AppendOp, SaveOp

\* What is left of a sequence without its first n elements.
LEMMA Suffix ==
    ASSUME NEW S, NEW s \in Seq(S), NEW n \in 0 .. Len(s)
    PROVE  /\ SubSeq(s, n + 1, Len(s)) \in Seq(S)
           /\ \A i \in DOMAIN SubSeq(s, n + 1, Len(s)) :
                 /\ i + n \in DOMAIN s
                 /\ SubSeq(s, n + 1, Len(s))[i] = s[i + n]
<1> DEFINE t == SubSeq(s, n + 1, Len(s))
<1>1. Len(s) \in Nat /\ DOMAIN s = 1 .. Len(s)
  BY LenProperties
<1>2. \A i \in n + 1 .. Len(s) : s[i] \in S
  BY <1>1, ElementOfSeq
<1>3. n + 1 \in Int /\ Len(s) \in Int
  BY <1>1
<1>4. /\ t \in Seq(S)
      /\ Len(t) = IF n + 1 <= Len(s) THEN Len(s) - (n + 1) + 1 ELSE 0
      /\ \A i \in 1 .. Len(s) - (n + 1) + 1 : t[i] = s[(n + 1) + i - 1]
  BY <1>2, <1>3, SubSeqProperties
<1>5. DOMAIN t = 1 .. Len(t)
  BY <1>4, LenProperties
<1>6. ASSUME NEW i \in DOMAIN t PROVE i + n \in DOMAIN s /\ t[i] = s[i + n]
  <2>1. i \in Int /\ 1 <= i /\ i <= Len(s) - n /\ n + 1 <= Len(s)
    <3>1. i \in 1 .. Len(t)
      BY <1>5
    <3>2. n + 1 <= Len(s)
      BY <1>4, <3>1
    <3>3. Len(t) = Len(s) - n
      BY <1>1, <1>4, <3>2
    <3> QED
      BY <1>1, <3>1, <3>2, <3>3
  <2>2. i \in 1 .. Len(s) - (n + 1) + 1 /\ (n + 1) + i - 1 = i + n
    BY <1>1, <2>1
  <2>3. t[i] = s[i + n]
    BY <1>4, <2>2
  <2> QED
    BY <1>1, <2>1, <2>3
<1> QED
  BY <1>4, <1>6

\* Loading drops what has expired and leaves the end of the history.
LEMMA LoadHistoryKeeps ==
    ASSUME TypeOK, LoadHistory
    PROVE  /\ history' \in Seq(Completed)
           /\ torn' \in BOOLEAN
           /\ \E n \in Nat : \A i \in DOMAIN history' :
                 i + n \in DOMAIN history /\ history'[i] = history[i + n]
<1>1. history \in Seq(Completed) /\ DOMAIN history = 1 .. Len(history)
      /\ torn \in BOOLEAN
  BY LenProperties DEF TypeOK
<1>2. CASE UNCHANGED <<history, torn>>
  <2>1. \A i \in DOMAIN history' : i + 0 \in DOMAIN history
                                   /\ history'[i] = history[i + 0]
    BY <1>1, <1>2
  <2> QED
    BY <1>1, <1>2, <2>1
<1>3. CASE \E n \in 0 .. Len(history) :
              /\ history' = SubSeq(history, n + 1, Len(history))
              /\ torn' = FALSE
  <2>1. PICK n \in 0 .. Len(history) :
              /\ history' = SubSeq(history, n + 1, Len(history))
              /\ torn' = FALSE
    BY <1>3
  <2>2. /\ history' \in Seq(Completed)
        /\ \A i \in DOMAIN history' :
              i + n \in DOMAIN history /\ history'[i] = history[i + n]
    BY <1>1, <2>1, Suffix
  <2>3. n \in Nat
    BY <1>1, LenProperties
  <2> QED
    BY <2>1, <2>2, <2>3
<1>4. \/ \E n \in 0 .. Len(history) :
            /\ history' = SubSeq(history, n + 1, Len(history))
            /\ torn' = FALSE
      \/ UNCHANGED <<history, torn>>
  BY DEF LoadHistory
<1> QED
  BY <1>2, <1>3, <1>4

LEMMA LoadSnapshotType ==
    ASSUME TypeOK, LoadSnapshot PROVE pending' \in Incidents
BY DEF TypeOK, LoadSnapshot, Incidents, Has
LEMMA TypeInit == Init => TypeInv
<1> SUFFICES ASSUME Init PROVE TypeInv
  OBVIOUS
<1>1. zones \in [Keys -> ZoneState]
  BY ColdZoneType DEF Init
<1>2. /\ io \in Seq(Op) /\ history \in Seq(Completed)
      /\ alerts \in [Keys -> Zone] /\ lastVal \in [Keys -> Reading]
  BY ComponentsOfTypes, EmptySeq DEF Init
<1> QED
  BY <1>1, <1>2, ComponentsOfTypes DEF Init, TypeInv, TypeOK, Op

\* A program that stops leaves nothing to be wrong in memory.
LEMMA TypeStopped ==
    ASSUME TypeInv, Stopped, UNCHANGED <<now, starts, lastTick, history, snapshot>>,
           torn' \in BOOLEAN
    PROVE  TypeInv'
<1>1. zones' \in [Keys -> ZoneState]
  BY ColdZoneType DEF Stopped
<1>2. /\ io' \in Seq(Op)
      /\ alerts' \in [Keys -> Zone] /\ lastVal' \in [Keys -> Reading]
  BY ComponentsOfTypes, EmptySeq DEF Stopped
<1> QED
  BY <1>1, <1>2, ComponentsOfTypes DEF Stopped, TypeInv, TypeOK, Op

LEMMA TypeEnvironment ==
    ASSUME TypeInv, Advance \/ Crash \/ Start
    PROVE  TypeInv'
<1>1. CASE Advance
  BY <1>1 DEF Advance, TypeInv, TypeOK, diskVars
<1>2. CASE Crash
  BY <1>2, TypeStopped DEF Crash, TypeInv, TypeOK, clockVars
<1>3. CASE Start
  <2>1. history' \in Seq(Completed) /\ torn' \in BOOLEAN /\ pending' \in Incidents
    BY <1>3, LoadHistoryKeeps, LoadSnapshotType DEF Start, TypeInv
  <2>2. now \in Nat /\ zones' \in [Keys -> ZoneState]
    BY <1>3, ColdZoneType DEF Start, TypeInv, TypeOK
  <2> QED
    BY <1>3, <2>1, <2>2 DEF Start, TypeInv, TypeOK
<1> QED
  BY <1>1, <1>2, <1>3

LEMMA TypeDisk ==
    ASSUME TypeInv, AppendIncident \/ SaveSnapshot \/ WriteFails
    PROVE  TypeInv'
<1>1. io \in Seq(Op) /\ io # <<>>
  BY DEF TypeInv, TypeOK, Op, AppendIncident, SaveSnapshot, WriteFails
<1>2. io' \in Seq(Op)
  BY <1>1, HeadOfIo DEF AppendIncident, SaveSnapshot, WriteFails
<1>3. CASE AppendIncident
  <2>1. history' \in Seq(Completed)
    BY <1>1, <1>3, HeadOfIo, AppendProperties DEF AppendIncident, TypeInv, TypeOK
  <2> QED
    BY <1>2, <1>3, <2>1
       DEF AppendIncident, TypeInv, TypeOK, Op, clockVars, procVars
<1>4. CASE SaveSnapshot
  <2>1. snapshot' \in Incidents
    BY <1>1, <1>4, HeadOfIo DEF SaveSnapshot
  <2> QED
    BY <1>2, <1>4, <2>1
       DEF SaveSnapshot, TypeInv, TypeOK, Op, clockVars, procVars
<1>5. CASE WriteFails
  BY <1>2, <1>5 DEF WriteFails, TypeInv, TypeOK, Op, clockVars, procVars
<1> QED
  BY <1>3, <1>4, <1>5

LEMMA TypeTick ==
    ASSUME TypeInv, TickBegin \/ TickAfterGap \/ TickAborts
    PROVE  TypeInv'
<1>1. CASE TickBegin
  BY <1>1, ComponentsOfTypes
     DEF TickBegin, TypeInv, TypeOK, Op, clockVars, procVars, diskVars
<1>2. CASE TickAfterGap
  <2> DEFINE gap == [from |-> lastTick, to |-> now]
  <2>1. gap \in Gap
    BY DEF TypeInv, TypeOK, Gap
  <2>2. ASSUME NEW k \in Keys, Has(active, k)
        PROVE  /\ WithLiveGap(active[k], gap) \in Incident
               /\ GapForPending(WithLiveGap(active[k], gap))
    <3>1. active[k] \in Incident /\ GapForPending(active[k])
      BY <2>2 DEF TypeInv, TypeOK, Incidents, Has
    <3>2. WithLiveGap(active[k], gap) \in Incident
      BY <2>1, <3>1, WithLiveGapType
    <3>3. Append(active[k].gaps, gap) # <<>>
      BY <2>1, <3>1, AppendProperties DEF Incident
    <3> QED
      BY <3>1, <3>2, <3>3 DEF WithLiveGap, GapForPending, Incident
  <2>3. active' = [k \in Keys |-> IF Has(active, k)
                                  THEN WithLiveGap(active[k], gap) ELSE None]
    BY <1>2 DEF TickAfterGap
  <2>4. /\ active' \in Incidents
        /\ \A k \in Keys : Has(active', k) => GapForPending(active'[k])
    <3> HIDE DEF gap
    <3> QED
      BY <2>2, <2>3 DEF Incidents, Has
  <2>5. io' \in Seq(Op)
    BY <1>2, <2>4, SaveOfType, EmptySeq DEF TickAfterGap, TypeInv, TypeOK
  <2> QED
    BY <1>2, <2>4, <2>5, ComponentsOfTypes
       DEF TickAfterGap, TypeInv, TypeOK, Op, clockVars, procVars, diskVars
<1>3. CASE TickAborts
  BY <1>3, ComponentsOfTypes
     DEF TickAborts, TypeInv, TypeOK, clockVars, procVars, diskVars
<1> QED
  BY <1>1, <1>2, <1>3
\* What reading r does to sensor k's zone, alert and last value.
LEMMA TypeZoned ==
    ASSUME TypeInv, NEW k \in Keys, NEW r \in Zone, Zoned(k, r)
    PROVE  /\ zones' \in [Keys -> ZoneState]
           /\ alerts' \in [Keys -> Zone]
           /\ lastVal' \in [Keys -> Reading]
<1> DEFINE st == ZoneStep(zones[k], r, now, k \notin RedDebounced)
<1>1. st \in ZoneState
  BY ZoneStepType DEF TypeInv, TypeOK
<1>2. st.confirmed \in Zone
  BY <1>1 DEF ZoneState
<1>3. /\ zones' = [zones EXCEPT ![k] = st]
      /\ \/ alerts' = alerts
         \/ alerts' = [alerts EXCEPT ![k] = st.confirmed]
      /\ lastVal' = [lastVal EXCEPT ![k] = r]
  BY DEF Zoned
<1> HIDE DEF st
<1> QED
  BY <1>1, <1>2, <1>3, ComponentsOfTypes DEF TypeInv, TypeOK

LEMMA TypeAdvanced ==
    ASSUME NEW k \in Keys, Advanced(k)
    PROVE  cursor' \in Keys /\ phase' \in {"idle", "tick"}
BY ConstantsAssumption DEF Advanced, Keys

LEMMA TypeObserve ==
    ASSUME TypeInv, NEW k \in Keys, ObserveSensor(k)
    PROVE  TypeInv'
<1>1. CASE ReadNothing(k)
  <2>1. cursor' \in Keys /\ phase' \in {"idle", "tick"}
    BY <1>1, TypeAdvanced DEF ReadNothing, AtSensor
  <2>2. lastVal' \in [Keys -> Reading]
    BY <1>1, ComponentsOfTypes DEF ReadNothing, TypeInv, TypeOK
  <2> QED
    BY <1>1, <2>1, <2>2
       DEF ReadNothing, AtSensor, TypeInv, TypeOK, clockVars, procVars, diskVars
<1>2. ASSUME NEW r \in Zone, AtSensor(k, r), Zoned(k, r),
             active' \in Incidents, io' \in Seq(Op), dirty' \in BOOLEAN,
             \A j \in Keys : Has(active', j) => GapForPending(active'[j])
      PROVE  TypeInv'
  <2>1. cursor' \in Keys /\ phase' \in {"idle", "tick"}
    BY <1>2, TypeAdvanced DEF AtSensor
  <2>2. /\ zones' \in [Keys -> ZoneState]
        /\ alerts' \in [Keys -> Zone]
        /\ lastVal' \in [Keys -> Reading]
    BY <1>2, TypeZoned
  <2> QED
    BY <1>2, <2>1, <2>2
       DEF AtSensor, TypeInv, TypeOK, Op, clockVars, procVars, diskVars
<1>3. ASSUME NEW r \in Zone, ReadPending(k, r) \/ ReadQuiet(k, r) PROVE TypeInv'
  BY <1>2, <1>3 DEF ReadPending, ReadQuiet, TypeInv, TypeOK, Op
<1>4. active \in Incidents /\ pending \in Incidents /\ now \in Nat
      /\ dirty \in BOOLEAN
  BY DEF TypeInv, TypeOK
<1>5. ASSUME NEW r \in Zone, OpenIncident(k, r) PROVE TypeInv'
  <2>1. AtSensor(k, r) /\ Zoned(k, r) /\ alerts' \in [Keys -> Zone]
    BY <1>5, TypeZoned DEF OpenIncident
  <2> DEFINE inc == NewIncident(k, alerts'[k], now)
  <2>2. inc \in Incident /\ GapForPending(inc)
    <3>1. inc \in Incident
      BY <1>4, <2>1, NewIncidentType
    <3> QED
      BY <3>1 DEF NewIncident, GapForPending
  <2>3. active' = [active EXCEPT ![k] = inc] /\ dirty'
        /\ io' = <<SaveOf(active', pending)>>
    BY <1>5 DEF OpenIncident
  <2> HIDE DEF inc
  <2>4. active' \in Incidents
        /\ \A j \in Keys : Has(active', j) => GapForPending(active'[j])
    BY <1>4, <2>2, <2>3 DEF Incidents, TypeInv, Has
  <2>5. io' \in Seq(Op)
    BY <1>4, <2>3, <2>4, SaveOfType
  <2>6. dirty' \in BOOLEAN
    BY <1>5 DEF OpenIncident
  <2> QED
    BY <1>2, <2>1, <2>4, <2>5, <2>6
<1>6. ASSUME NEW r \in Zone, TouchIncident(k, r) PROVE TypeInv'
  <2>1. AtSensor(k, r) /\ Zoned(k, r) /\ alerts' \in [Keys -> Zone]
        /\ Has(active, k)
    BY <1>6, TypeZoned DEF TouchIncident
  <2> DEFINE inc == Touched(active[k], alerts'[k], now)
  <2>2. active[k] \in Incident
    BY <1>4, <2>1 DEF Incidents, Has
  <2>3. inc \in Incident /\ GapForPending(inc)
    <3>1. inc \in Incident
      BY <1>4, <2>1, <2>2, TouchedType
    <3> QED
      BY <2>2, <3>1 DEF Touched, GapForPending, Incident
  <2>4. active' = [active EXCEPT ![k] = inc]
    BY <1>6 DEF TouchIncident
  <2> HIDE DEF inc
  <2>5. active' \in Incidents
        /\ \A j \in Keys : Has(active', j) => GapForPending(active'[j])
    BY <1>4, <2>3, <2>4 DEF Incidents, TypeInv, Has
  <2>6. io' \in Seq(Op) /\ dirty' \in BOOLEAN
    BY <1>4, <1>6, <2>5, SaveOfType, EmptySeq DEF TouchIncident
  <2> QED
    BY <1>2, <2>1, <2>5, <2>6
<1>7. ASSUME NEW r \in Zone, CloseIncident(k, r) PROVE TypeInv'
  <2>1. AtSensor(k, r) /\ Zoned(k, r) /\ Has(active, k)
    BY <1>7 DEF CloseIncident
  <2>2. active[k] \in Incident /\ GapForPending(active[k])
    BY <1>4, <2>1 DEF Incidents, Has, TypeInv
  <2>3. AppendOf(ClosedLive(active[k], r, now)) \in Op
    BY <1>4, <2>2, ClosedLiveType, AppendOfType, ComponentsOfTypes
  <2>4. active' \in Incidents
        /\ \A j \in Keys : Has(active', j) => GapForPending(active'[j])
    BY <1>4, <1>7 DEF CloseIncident, Incidents, TypeInv, Has
  <2>5. SaveOf(active', pending) \in Op
    BY <1>4, <2>4, MergedType DEF SaveOf, SaveOp, Op
  <2>6. io' \in Seq(Op) /\ dirty' \in BOOLEAN
    BY <1>4, <1>7, <2>3, <2>5 DEF CloseIncident
  <2> QED
    BY <1>2, <2>1, <2>4, <2>6
<1> QED
  BY <1>1, <1>3, <1>5, <1>6, <1>7 DEF ObserveSensor

LEMMA TypeReconcile ==
    ASSUME TypeInv, NEW k \in Keys, Reconcile(k)
    PROVE  TypeInv'
<1>1. Has(pending, k)
  BY DEF Reconcile, ResumeRestored, CloseRestored
<1>2. pending[k] \in Incident /\ RestartGap(k) \in Gap
  BY <1>1 DEF TypeInv, TypeOK, Incidents, Incident, Has, RestartGap, Gap
<1>3. pending' \in Incidents
  BY DEF Reconcile, ResumeRestored, CloseRestored, TypeInv, TypeOK, Incidents
<1>4. CASE ResumeRestored(k)
  <2> DEFINE inc == Resumed(pending[k], RestartGap(k), alerts[k])
  <2>1. alerts[k] \in Zone
    BY DEF TypeInv, TypeOK
  <2>2. inc \in Incident
    BY <1>2, <2>1, ResumedType
  <2>3. GapForPending(inc)
    <3>1. Append(pending[k].gaps, RestartGap(k)) # <<>>
      BY <1>2, AppendProperties DEF Incident
    <3> QED
      BY <1>2, <3>1 DEF GapForPending, Resumed, Incident
  <2>4. active' = [active EXCEPT ![k] = inc]
    BY <1>4 DEF ResumeRestored
  <2> HIDE DEF inc
  <2>5. active' \in Incidents
        /\ \A j \in Keys : Has(active', j) => GapForPending(active'[j])
    BY <2>2, <2>3, <2>4 DEF TypeInv, TypeOK, Incidents, Has
  <2> QED
    BY <1>3, <1>4, <2>5
       DEF ResumeRestored, TypeInv, TypeOK, clockVars, procVars, diskVars
<1>5. CASE CloseRestored(k)
  <2>1. lastVal[k] \in Reading
    BY DEF TypeInv, TypeOK
  <2>2. AppendOf(ClosedAfterGap(pending[k], RestartGap(k), lastVal[k])) \in Op
    BY <1>2, <2>1, ClosedAfterGapType, AppendOfType
  <2>3. io' \in Seq(Op)
    BY <1>5, <2>2 DEF CloseRestored
  <2> QED
    BY <1>3, <1>5, <2>3
       DEF CloseRestored, TypeInv, TypeOK, Op, clockVars, procVars, diskVars
<1> QED
  BY <1>4, <1>5 DEF Reconcile

LEMMA TypeCallbacks ==
    ASSUME TypeInv, ReconcileBegin \/ ReconcileEnd \/ Flush \/ CloseApp \/ Exit
    PROVE  TypeInv'
<1>1. <<SaveOf(active, pending)>> \in Seq(Op)
  BY SaveOfType DEF TypeInv, TypeOK
<1>2. CASE ReconcileBegin
  BY <1>2 DEF ReconcileBegin, TypeInv, TypeOK, clockVars, diskVars
<1>3. CASE ReconcileEnd
  BY <1>1, <1>3 DEF ReconcileEnd, TypeInv, TypeOK, Op, clockVars, procVars, diskVars
<1>4. CASE Flush
  BY <1>1, <1>4 DEF Flush, TypeInv, TypeOK, Op, clockVars, procVars, diskVars
<1>5. CASE CloseApp
  BY <1>1, <1>5 DEF CloseApp, TypeInv, TypeOK, Op, clockVars, procVars, diskVars
<1>6. CASE Exit
  BY <1>6, TypeStopped DEF Exit, TypeInv, TypeOK, clockVars, diskVars
<1> QED
  BY <1>2, <1>3, <1>4, <1>5, <1>6

LEMMA TypeNext == TypeInv /\ [Next]_vars => TypeInv'
<1> SUFFICES ASSUME TypeInv, [Next]_vars PROVE TypeInv'
  OBVIOUS
<1>1. CASE UNCHANGED vars
  BY <1>1 DEF vars, TypeInv, TypeOK
<1>2. CASE Next
  BY <1>2, TypeEnvironment, TypeDisk, TypeTick, TypeObserve, TypeReconcile,
     TypeCallbacks DEF Next
<1> QED
  BY <1>1, <1>2

LEMMA TypeInvariant == Spec => []TypeInv
BY TypeInit, TypeNext, PTL DEF Spec

\* Whatever the sensors show, and whenever the program is killed or a write
\* fails, every variable of the incident engine keeps a value of its kind; in
\* particular a record that claims a last confirmed reading has one.
THEOREM TypeCorrect == Spec => []TypeOK
<1>1. TypeInv => TypeOK
  BY DEF TypeInv
<1> QED
  BY <1>1, TypeInvariant, PTL

-----------------------------------------------------------------------------
(* A sensor has an open incident exactly while it has an alert.            *)

\* A program that is not running has nothing in memory.
StoppedInv ==
    ~up => /\ phase = "idle"
           /\ io = <<>>
           /\ active = Empty
           /\ pending = Empty
           /\ alerts = [k \in Keys |-> GREEN]

BaseInv == TypeInv /\ StoppedInv

LEMMA BaseInit == Init => BaseInv
BY TypeInit DEF Init, BaseInv, StoppedInv

LEMMA BaseNext == BaseInv /\ [Next]_vars => BaseInv'
<1> SUFFICES ASSUME BaseInv, [Next]_vars PROVE StoppedInv'
  BY TypeNext DEF BaseInv
<1>1. CASE UNCHANGED vars
  BY <1>1 DEF vars, BaseInv, StoppedInv
<1>2. ASSUME up, up' = up PROVE StoppedInv'
  BY <1>2 DEF StoppedInv
<1>3. CASE Advance \/ Crash \/ Start
  BY <1>3 DEF Advance, Crash, Start, Stopped, BaseInv, StoppedInv
<1>4. CASE AppendIncident \/ SaveSnapshot \/ WriteFails
  <2>1. io # <<>> /\ up' = up
    BY <1>4 DEF AppendIncident, SaveSnapshot, WriteFails, procVars
  <2> QED
    BY <1>2, <2>1 DEF BaseInv, StoppedInv
<1>5. CASE TickBegin \/ TickAfterGap \/ TickAborts
  BY <1>2, <1>5 DEF TickBegin, TickAfterGap, TickAborts, Idle, procVars
<1>6. ASSUME NEW k \in Keys, ObserveSensor(k) PROVE StoppedInv'
  BY <1>2, <1>6 DEF ObserveSensor, ReadNothing, ReadPending, ReadQuiet, OpenIncident,
     TouchIncident, CloseIncident, AtSensor, procVars
<1>7. ASSUME NEW k \in Keys, Reconcile(k) PROVE StoppedInv'
  <2>1. phase = "reconcile" /\ up' = up
    BY <1>7 DEF Reconcile, ResumeRestored, CloseRestored, procVars
  <2> QED
    BY <1>2, <2>1 DEF BaseInv, StoppedInv
<1>8. CASE ReconcileBegin \/ Flush \/ CloseApp
  BY <1>2, <1>8 DEF ReconcileBegin, Flush, CloseApp, Idle, procVars
<1>9. CASE ReconcileEnd
  <2>1. phase = "reconcile" /\ up' = up
    BY <1>9 DEF ReconcileEnd, procVars
  <2> QED
    BY <1>2, <2>1 DEF BaseInv, StoppedInv
<1>10. CASE Exit
  BY <1>10 DEF Exit, Stopped, StoppedInv
<1> QED
  BY <1>1, <1>3, <1>4, <1>5, <1>6, <1>7, <1>8, <1>9, <1>10 DEF Next

LEMMA BaseInvariant == Spec => []BaseInv
BY BaseInit, BaseNext, PTL DEF Spec

\* A tick without a suspend: what becomes of the worst zone.
LEMMA MaxKept ==
    ASSUME NEW inc \in Incident, NEW z \in Zone
    PROVE  /\ \A gap : WithLiveGap(inc, gap).max = inc.max
           /\ \A t : Touched(inc, z, t).max \in Zone /\ z <= Touched(inc, z, t).max
           /\ \A gap : Resumed(inc, gap, z).max \in Zone /\ z <= Resumed(inc, gap, z).max
           /\ \A k, t : NewIncident(k, z, t).max = z
<1>1. inc.max \in Int /\ z \in Int /\ inc.max \in Zone
  BY ZoneIsRange DEF Incident
<1> QED
  BY <1>1 DEF WithLiveGap, Touched, Resumed, Escalates, NewIncident, Incident

LEMMA AlertsObserve ==
    ASSUME BaseInv, AlertHasIncident, NEW k \in Keys, ObserveSensor(k)
    PROVE  AlertHasIncident'
<1>1. CASE ReadNothing(k)
  BY <1>1 DEF ReadNothing, AtSensor, AlertHasIncident, Has
<1>2. ASSUME NEW r \in Zone, AtSensor(k, r), Zoned(k, r)
      PROVE  /\ alerts' \in [Keys -> Zone]
             /\ \A j \in Keys \ {k} : alerts'[j] = alerts[j]
             /\ pending' = pending
  <2>1. alerts' \in [Keys -> Zone]
    BY <1>2, TypeZoned DEF BaseInv
  <2> QED
    BY <1>2, <2>1 DEF Zoned, AtSensor, BaseInv, TypeInv, TypeOK
<1>3. ASSUME NEW r \in Zone, AtSensor(k, r), Zoned(k, r),
             \A j \in Keys \ {k} : active'[j] = active[j],
             Has(active', k) <=> alerts'[k] # GREEN /\ ~Has(pending, k),
             Has(active', k) => alerts'[k] <= active'[k].max
      PROVE  AlertHasIncident'
  BY <1>2, <1>3 DEF AlertHasIncident, Has
<1>4. active \in Incidents
  BY DEF BaseInv, TypeInv, TypeOK
<1>5. ASSUME NEW r \in Zone, ReadPending(k, r) \/ ReadQuiet(k, r)
      PROVE  AlertHasIncident'
  BY <1>3, <1>5 DEF ReadPending, ReadQuiet, AlertHasIncident, Has
<1>6. ASSUME NEW r \in Zone, OpenIncident(k, r) PROVE AlertHasIncident'
  <2>1. AtSensor(k, r) /\ Zoned(k, r)
    BY <1>6 DEF OpenIncident
  <2>2. alerts'[k] \in Zone /\ now \in Nat
    BY <1>2, <2>1 DEF BaseInv, TypeInv, TypeOK
  <2>3. /\ NewIncident(k, alerts'[k], now) \in Incident
        /\ NewIncident(k, alerts'[k], now).max = alerts'[k]
    BY <2>2, NewIncidentType DEF NewIncident
  <2>4. /\ active' = [active EXCEPT ![k] = NewIncident(k, alerts'[k], now)]
        /\ alerts'[k] # GREEN /\ ~Has(pending, k)
    BY <1>6 DEF OpenIncident
  <2>5. Has(active', k) /\ active'[k] = NewIncident(k, alerts'[k], now)
    BY <1>4, <2>3, <2>4, NoneAssumption DEF Has, Incidents
  <2>6. alerts'[k] <= active'[k].max
    BY <2>2, <2>3, <2>5, ZoneIsRange
  <2> QED
    BY <1>3, <1>4, <2>1, <2>4, <2>5, <2>6 DEF Incidents
<1>7. ASSUME NEW r \in Zone, TouchIncident(k, r) PROVE AlertHasIncident'
  <2>1. AtSensor(k, r) /\ Zoned(k, r) /\ Has(active, k)
        /\ alerts'[k] # GREEN /\ ~Has(pending, k)
    BY <1>7 DEF TouchIncident
  <2>2. alerts'[k] \in Zone /\ now \in Nat /\ active[k] \in Incident
    BY <1>2, <1>4, <2>1 DEF BaseInv, TypeInv, TypeOK, Incidents, Has
  <2>3. /\ Touched(active[k], alerts'[k], now) \in Incident
        /\ alerts'[k] <= Touched(active[k], alerts'[k], now).max
    BY <2>2, TouchedType, MaxKept
  <2>4. active' = [active EXCEPT ![k] = Touched(active[k], alerts'[k], now)]
    BY <1>7 DEF TouchIncident
  <2>5. Has(active', k) /\ active'[k] = Touched(active[k], alerts'[k], now)
    BY <1>4, <2>3, <2>4, NoneAssumption DEF Has, Incidents
  <2> QED
    BY <1>3, <1>4, <2>1, <2>3, <2>4, <2>5 DEF Incidents
<1>8. ASSUME NEW r \in Zone, CloseIncident(k, r) PROVE AlertHasIncident'
  <2>1. AtSensor(k, r) /\ Zoned(k, r) /\ alerts'[k] = GREEN
        /\ active' = [active EXCEPT ![k] = None]
    BY <1>8 DEF CloseIncident
  <2> QED
    BY <1>3, <1>4, <2>1 DEF Incidents, Has
<1> QED
  BY <1>1, <1>5, <1>6, <1>7, <1>8 DEF ObserveSensor

LEMMA AlertsReconcile ==
    ASSUME BaseInv, AlertHasIncident, NEW k \in Keys, Reconcile(k)
    PROVE  AlertHasIncident'
<1>1. /\ active \in Incidents /\ pending \in Incidents /\ alerts[k] \in Zone
      /\ Has(pending, k)
      /\ pending' = [pending EXCEPT ![k] = None]
      /\ alerts' = alerts
  BY DEF BaseInv, TypeInv, TypeOK, Reconcile, ResumeRestored, CloseRestored
<1>2. /\ ~Has(pending', k)
      /\ \A j \in Keys \ {k} : pending'[j] = pending[j]
  BY <1>1 DEF Incidents, Has
<1>3. CASE ResumeRestored(k)
  <2> DEFINE inc == Resumed(pending[k], RestartGap(k), alerts[k])
  <2>1. pending[k] \in Incident /\ RestartGap(k) \in Gap
    BY <1>1 DEF BaseInv, TypeInv, TypeOK, Incidents, Incident, Has, RestartGap, Gap
  <2>2. inc \in Incident /\ alerts[k] <= inc.max
    BY <1>1, <2>1, ResumedType, MaxKept
  <2>3. active' = [active EXCEPT ![k] = inc] /\ alerts[k] # GREEN
    BY <1>3 DEF ResumeRestored
  <2> HIDE DEF inc
  <2>4. /\ Has(active', k) /\ active'[k] = inc
        /\ \A j \in Keys \ {k} : active'[j] = active[j]
    BY <1>1, <2>2, <2>3, NoneAssumption DEF Incidents, Has
  <2> QED
    BY <1>1, <1>2, <2>2, <2>3, <2>4 DEF AlertHasIncident, Has
<1>4. CASE CloseRestored(k)
  <2>1. active' = active /\ alerts[k] = GREEN
    BY <1>4 DEF CloseRestored
  <2> QED
    BY <1>1, <1>2, <2>1 DEF AlertHasIncident, Has
<1> QED
  BY <1>3, <1>4 DEF Reconcile

LEMMA AlertsNext ==
    ASSUME BaseInv, AlertHasIncident, [Next]_vars PROVE AlertHasIncident'
<1>1. CASE UNCHANGED <<alerts, active, pending>>
  BY <1>1 DEF AlertHasIncident, Has
<1>2. ASSUME alerts' = [k \in Keys |-> GREEN], active' = Empty
      PROVE  AlertHasIncident'
  BY <1>2 DEF AlertHasIncident, Has, Empty
<1>3. CASE Crash \/ Exit
  BY <1>2, <1>3 DEF Crash, Exit, Stopped
<1>4. CASE Start
  BY <1>2, <1>4 DEF Start, BaseInv, StoppedInv
<1>5. CASE TickAfterGap
  <2> DEFINE gap == [from |-> lastTick, to |-> now]
  <2>1. gap \in Gap
    BY DEF BaseInv, TypeInv, TypeOK, Gap
  <2>2. ASSUME NEW k \in Keys
        PROVE  /\ Has(active', k) <=> Has(active, k)
               /\ Has(active, k) => active'[k].max = active[k].max
    <3>1. active'[k] = IF Has(active, k) THEN WithLiveGap(active[k], gap) ELSE None
      BY <1>5 DEF TickAfterGap
    <3>2. CASE Has(active, k)
      <4>1. active[k] \in Incident
        BY <3>2 DEF BaseInv, TypeInv, TypeOK, Incidents, Has
      <4>2. /\ WithLiveGap(active[k], gap) \in Incident
            /\ WithLiveGap(active[k], gap).max = active[k].max
        BY <2>1, <4>1, WithLiveGapType, MaxKept, ComponentsOfTypes
      <4> QED
        BY <3>1, <3>2, <4>2, NoneAssumption DEF Has
    <3>3. CASE ~Has(active, k)
      BY <3>1, <3>3 DEF Has
    <3> QED
      BY <3>2, <3>3
  <2>3. alerts' = alerts /\ pending' = pending
    BY <1>5 DEF TickAfterGap
  <2> QED
    BY <2>2, <2>3 DEF AlertHasIncident, Has
<1>6. CASE UNCHANGED vars
  BY <1>1, <1>6 DEF vars
<1>7. CASE Advance \/ AppendIncident \/ SaveSnapshot \/ WriteFails
           \/ TickBegin \/ TickAborts
           \/ ReconcileBegin \/ ReconcileEnd \/ Flush \/ CloseApp
  BY <1>1, <1>7 DEF Advance, AppendIncident, SaveSnapshot, WriteFails, TickBegin,
     TickAborts, ReconcileBegin, ReconcileEnd, Flush, CloseApp
<1> QED
  BY <1>3, <1>4, <1>5, <1>6, <1>7, AlertsObserve, AlertsReconcile DEF Next

\* The incident engine follows the alert engine through restarts, suspends and
\* aborted ticks: outside the reconciliation window a sensor has an open incident
\* exactly while it has an alert, and the incident's worst zone covers the alert.
THEOREM AlertsHaveIncidents == Spec => []AlertHasIncident
<1>1. Init => AlertHasIncident
  BY DEF Init, AlertHasIncident, Has, Empty
<1>2. BaseInv /\ AlertHasIncident /\ [Next]_vars => AlertHasIncident'
  BY AlertsNext
<1> QED
  BY <1>1, <1>2, BaseInvariant, PTL DEF Spec

-----------------------------------------------------------------------------
(* An incident is completed once, and never reopened.                      *)
(*                                                                         *)
(* Neither fact is inductive.  That an incident is new when it opens rests *)
(* on its start time being later than that of every incident completed for *)
(* the same component, which rests on the clock moving between two ticks;  *)
(* that it is not completed twice, on what is appended belonging to nobody *)
(* in memory any more; and what a restart brings back belongs to the       *)
(* sensors it belonged to.                                                 *)

\* Incidents of two sensors have different identifiers.  In the code they do
\* unless two sensors of one component open theirs in the same millisecond.
DistinctComponents == \A j, k \in Keys : Component[j] = Component[k] => j = k

\* The incident being appended to the history.
Closing ==
    IF io # <<>> /\ Head(io).op = "append" THEN {Head(io).rec.id} ELSE {}

Gone == HistoryIds \cup Closing

\* The incidents of d are those of their sensors, and started by time t.
OwnedBy(d, t) ==
    \A k \in Keys : Has(d, k) => d[k].id[1] = Component[k] /\ d[k].id[2] <= t

ClockInv ==
    /\ lastTick <= now
    /\ phase = "tick" => now = lastTick /\ up

\* A callback appends before it saves, and appends once.
AppendsFirst == \A i \in DOMAIN io : io[i].op = "append" => i = 1

OwnersInv ==
    /\ OwnedBy(active, lastTick)
    /\ OwnedBy(pending, lastTick)
    /\ OwnedBy(snapshot, lastTick)
    /\ \A i \in DOMAIN io : io[i].op = "save" => OwnedBy(io[i].snap, lastTick)

OpenInv ==
    \A k \in Keys : /\ Has(active, k) => active[k].id \notin Gone
                    /\ Has(pending, k) => pending[k].id \notin Gone

\* Sensors still to be visited have completed nothing that started in this tick.
PastInv ==
    \A id \in Gone :
        /\ id[2] <= lastTick
        /\ phase = "tick" =>
              \A k \in Keys : cursor <= k /\ id[1] = Component[k] => id[2] < lastTick

IdInv ==
    /\ BaseInv
    /\ AlertHasIncident
    /\ ClockInv
    /\ AppendsFirst
    /\ OwnersInv
    /\ CompletedOnce
    /\ Closing \cap HistoryIds = {}
    /\ OpenInv
    /\ PastInv
\* Nothing that happens to an incident, its completion included, changes its id.
LEMMA IdKept ==
    ASSUME NEW inc \in Incident
    PROVE  /\ \A gap : WithLiveGap(inc, gap).id = inc.id
           /\ \A z, t : Touched(inc, z, t).id = inc.id
           /\ \A gap, z : Resumed(inc, gap, z).id = inc.id
           /\ Persistable(inc).id = inc.id
           /\ \A v, t : ClosedLive(inc, v, t).id = inc.id
           /\ \A gap, v : ClosedAfterGap(inc, gap, v).id = inc.id
BY DEF WithLiveGap, Touched, Resumed, Persistable, ClosedLive, ClosedAfterGap,
       Incident

LEMMA MergedOwned ==
    ASSUME NEW act \in Incidents, NEW pend \in Incidents, NEW t \in Nat,
           OwnedBy(act, t), OwnedBy(pend, t)
    PROVE  OwnedBy(Merged(act, pend), t)
<1>1. ASSUME NEW inc \in Incident PROVE Persistable(inc).id = inc.id
  BY IdKept
<1>2. ASSUME NEW k \in Keys, Has(Merged(act, pend), k)
      PROVE  \/ Has(pend, k) /\ Merged(act, pend)[k].id = pend[k].id
             \/ Has(act, k) /\ Merged(act, pend)[k].id = act[k].id
  BY <1>1, <1>2 DEF Merged, Has, Incidents
<1> QED
  BY <1>2 DEF OwnedBy

LEMMA OwnedLonger ==
    ASSUME NEW d \in Incidents, NEW s \in Nat, NEW t \in Nat, s <= t, OwnedBy(d, s)
    PROVE  OwnedBy(d, t)
<1>1. ASSUME NEW k \in Keys, Has(d, k) PROVE d[k].id[2] \in Nat
  BY <1>1 DEF Incidents, Has, Incident, Id
<1> QED
  BY <1>1 DEF OwnedBy

\* The ids in a history that one more record is appended to.
LEMMA IdsOfAppend ==
    ASSUME NEW h \in Seq(Completed), NEW rec \in Completed
    PROVE  /\ IdsOf(Append(h, rec)) = IdsOf(h) \cup {rec.id}
           /\ (/\ rec.id \notin IdsOf(h)
               /\ \A i, j \in DOMAIN h : h[i].id = h[j].id => i = j)
              => \A i, j \in DOMAIN Append(h, rec) :
                    Append(h, rec)[i].id = Append(h, rec)[j].id => i = j
<1> DEFINE g == Append(h, rec)
<1>1. Len(h) \in Nat /\ DOMAIN h = 1 .. Len(h)
  BY LenProperties
<1>2. /\ g \in Seq(Completed)
      /\ Len(g) = Len(h) + 1
      /\ \A i \in 1 .. Len(h) : g[i] = h[i]
      /\ g[Len(h) + 1] = rec
  BY AppendProperties
<1>3. DOMAIN g = 1 .. Len(h) + 1
  BY <1>2, LenProperties
<1> HIDE DEF g
<1>4. IdsOf(g) = IdsOf(h) \cup {rec.id}
  BY <1>1, <1>2, <1>3 DEF IdsOf
<1>5. ASSUME rec.id \notin IdsOf(h),
             \A i, j \in DOMAIN h : h[i].id = h[j].id => i = j,
             NEW i \in DOMAIN g, NEW j \in DOMAIN g, g[i].id = g[j].id
      PROVE  i = j
  BY <1>1, <1>2, <1>3, <1>5 DEF IdsOf
<1> QED
  BY <1>4, <1>5 DEF g

\* With its head, io loses the one append it can have.
LEMMA ClosingDone ==
    ASSUME io \in Seq(Op), io # <<>>, AppendsFirst, io' = Tail(io)
    PROVE  /\ AppendsFirst'
           /\ Closing' = {}
           /\ \A i \in DOMAIN io' : io'[i].op = "save" =>
                 \E j \in DOMAIN io : io[j].op = "save" /\ io'[i] = io[j]
<1>1. Len(io) \in Nat /\ DOMAIN io = 1 .. Len(io)
  BY LenProperties
<1>2. /\ io' \in Seq(Op)
      /\ Len(io') = Len(io) - 1
      /\ \A i \in 1 .. Len(io') : io'[i] = io[i + 1]
  BY HeadTailProperties
<1>3. Len(io') \in Nat /\ DOMAIN io' = 1 .. Len(io')
  BY <1>2, LenProperties
<1>4. \A i \in DOMAIN io' : i + 1 \in DOMAIN io /\ i + 1 # 1 /\ io'[i] = io[i + 1]
  BY <1>1, <1>2, <1>3
<1>5. \A i \in DOMAIN io' : io'[i].op # "append"
  BY <1>4 DEF AppendsFirst
<1>6. ASSUME io' # <<>> PROVE 1 \in DOMAIN io' /\ Head(io') = io'[1]
  BY <1>2, <1>3, <1>6, EmptySeq
<1> QED
  BY <1>4, <1>5, <1>6 DEF AppendsFirst, Closing

LEMMA IdInit == Init => IdInv
<1> SUFFICES ASSUME Init PROVE IdInv
  OBVIOUS
<1>1. /\ \A d : d = Empty => OwnedBy(d, lastTick)
      /\ Closing = {} /\ HistoryIds = {}
  BY DEF Init, OwnedBy, Has, Empty, Closing, HistoryIds, IdsOf
<1> QED
  BY <1>1, BaseInit DEF Init, IdInv, ClockInv, AppendsFirst, OwnersInv,
     AlertHasIncident, CompletedOnce, OpenInv, PastInv, Gone, Has, Empty
\* Writes that only save: nothing is being completed.
LEMMA SavesOnly ==
    ASSUME NEW act \in Incidents, NEW pend \in Incidents, NEW t \in Nat,
           OwnedBy(act, t), OwnedBy(pend, t),
           io' = <<>> \/ io' = <<SaveOf(act, pend)>>
    PROVE  /\ AppendsFirst'
           /\ Closing' = {}
           /\ \A i \in DOMAIN io' : io'[i].op = "save" => OwnedBy(io'[i].snap, t)
<1>1. OwnedBy(Merged(act, pend), t)
  BY MergedOwned
<1>2. SaveOf(act, pend).op = "save" /\ SaveOf(act, pend).snap = Merged(act, pend)
  BY DEF SaveOf
<1>3. CASE io' = <<>>
  BY <1>3 DEF AppendsFirst, Closing
<1>4. CASE io' = <<SaveOf(act, pend)>>
  BY <1>1, <1>2, <1>4 DEF AppendsFirst, Closing
<1> QED
  BY <1>3, <1>4

\* A step that completes nothing new, and begins a tick only when time went on.
LEMMA PastKept ==
    ASSUME IdInv, BaseInv', Gone' \subseteq Gone, lastTick <= lastTick',
           phase' = "tick" => \/ lastTick < lastTick'
                              \/ phase = "tick" /\ cursor <= cursor'
    PROVE  PastInv'
<1>1. /\ lastTick \in Nat /\ lastTick' \in Nat
      /\ cursor \in Nat /\ cursor' \in Nat /\ Keys \subseteq Nat
  BY ConstantsAssumption DEF Keys, IdInv, BaseInv, TypeInv, TypeOK
<1>2. \A id \in Gone : id[2] \in Nat
  <2>1. \A id \in HistoryIds : id \in Id
    <3>1. history \in Seq(Completed) /\ DOMAIN history = 1 .. Len(history)
      BY LenProperties DEF IdInv, BaseInv, TypeInv, TypeOK
    <3>2. \A i \in DOMAIN history : history[i] \in Completed
      BY <3>1, ElementOfSeq
    <3> QED
      BY <3>2 DEF HistoryIds, IdsOf, Completed
  <2>2. \A id \in Closing : id \in Id
    BY HeadOfIo DEF IdInv, BaseInv, TypeInv, TypeOK, Op, Closing, Completed
  <2> QED
    BY <2>1, <2>2 DEF Gone, Id
<1>3. \A id \in Gone' : id[2] <= lastTick'
  BY <1>1, <1>2 DEF IdInv, PastInv
<1>4. ASSUME phase' = "tick", NEW id \in Gone', NEW k \in Keys,
             cursor' <= k, id[1] = Component[k]
      PROVE  id[2] < lastTick'
  <2>1. id \in Gone /\ id[2] \in Nat /\ id[2] <= lastTick
    BY <1>2 DEF IdInv, PastInv
  <2>2. CASE lastTick < lastTick'
    BY <1>1, <2>1, <2>2
  <2>3. CASE phase = "tick" /\ cursor <= cursor'
    <3>1. cursor <= k
      BY <1>1, <1>4, <2>3
    <3>2. id[2] < lastTick
      BY <1>4, <2>1, <2>3, <3>1 DEF IdInv, PastInv
    <3> QED
      BY <1>1, <2>1, <3>2
  <2> QED
    BY <1>4, <2>2, <2>3
<1> QED
  BY <1>3, <1>4 DEF PastInv

LEMMA IdEnvironment ==
    ASSUME IdInv, BaseInv', AlertHasIncident', Advance \/ Crash \/ Start
    PROVE  IdInv'
<1>1. /\ now \in Nat /\ lastTick \in Nat /\ lastTick <= now
      /\ history \in Seq(Completed)
      /\ active \in Incidents /\ pending \in Incidents /\ snapshot \in Incidents
  BY DEF IdInv, BaseInv, TypeInv, TypeOK, ClockInv
<1>2. CASE Advance
  <2>1. phase # "tick"
    BY <1>2 DEF Advance, Idle, IdInv, BaseInv, StoppedInv
  <2>2. ClockInv'
    BY <1>1, <1>2, <2>1 DEF Advance, ClockInv
  <2> QED
    BY <1>2, <2>2 DEF Advance, diskVars, IdInv, AppendsFirst, OwnersInv, OwnedBy, Has,
       CompletedOnce, Closing, HistoryIds, IdsOf, OpenInv, PastInv, Gone
<1>3. CASE Crash
  <2>1. /\ io' = <<>> /\ phase' = "idle" /\ active' = Empty /\ pending' = Empty
        /\ history' = history /\ snapshot' = snapshot
        /\ now' = now /\ lastTick' = lastTick
    BY <1>3 DEF Crash, Stopped, clockVars
  <2>2. Closing' = {} /\ HistoryIds' = HistoryIds
    BY <2>1 DEF Closing, HistoryIds
  <2>3. PastInv'
    BY <1>1, <2>1, <2>2, PastKept DEF Gone
  <2> QED
    BY <1>1, <2>1, <2>2, <2>3, ComponentsOfTypes DEF IdInv, ClockInv, AppendsFirst,
       OwnersInv, OwnedBy, CompletedOnce, OpenInv, Has, Empty
<1>4. CASE Start
  <2>1. /\ io = <<>> /\ io' = <<>> /\ phase' = "idle"
        /\ active = Empty /\ active' = Empty
        /\ snapshot' = snapshot /\ now' = now /\ lastTick' = now
        /\ LoadHistory /\ LoadSnapshot
    BY <1>4 DEF Start, IdInv, BaseInv, StoppedInv
  <2>2. PICK n \in Nat : \A i \in DOMAIN history' :
              i + n \in DOMAIN history /\ history'[i] = history[i + n]
    BY <2>1, LoadHistoryKeeps DEF IdInv, BaseInv, TypeInv
  <2>3. /\ DOMAIN history = 1 .. Len(history)
        /\ history' \in Seq(Completed) /\ DOMAIN history' = 1 .. Len(history')
        /\ Len(history') \in Nat
    BY <1>1, LenProperties DEF BaseInv, TypeInv, TypeOK
  <2>4. HistoryIds' \subseteq HistoryIds
    BY <2>2 DEF HistoryIds, IdsOf
  <2>5. CompletedOnce'
    <3>1. ASSUME NEW i \in DOMAIN history', NEW j \in DOMAIN history',
                 history'[i].id = history'[j].id
          PROVE  i = j
      <4>1. i + n = j + n
        BY <2>2, <3>1 DEF IdInv, CompletedOnce
      <4>2. i \in Nat /\ j \in Nat
        BY <2>3
      <4> QED
        BY <4>1, <4>2
    <3> QED
      BY <3>1 DEF CompletedOnce
  <2>6. Closing' = {}
    BY <2>1 DEF Closing
  <2>7. \A k \in Keys : Has(pending', k) =>
              /\ Has(snapshot, k) /\ pending'[k] = snapshot[k]
              /\ pending'[k].id \notin HistoryIds'
    BY <2>1 DEF LoadSnapshot, Has, HistoryIds
  <2>8. PastInv'
    BY <1>1, <2>1, <2>4, <2>6, PastKept DEF Gone
  <2>9. OwnedBy(snapshot, now)
    BY <1>1, OwnedLonger DEF IdInv, OwnersInv
  <2>10. OwnedBy(pending, now)' /\ OwnedBy(active, now)'
    BY <2>1, <2>7, <2>9, ComponentsOfTypes DEF OwnedBy
  <2>11. OwnersInv'
    BY <2>1, <2>9, <2>10 DEF OwnersInv
  <2>12. OpenInv'
    BY <2>1, <2>6, <2>7, ComponentsOfTypes DEF OpenInv, Gone
  <2>13. ClockInv' /\ AppendsFirst'
    BY <1>1, <2>1 DEF ClockInv, AppendsFirst
  <2> QED
    BY <2>5, <2>6, <2>8, <2>11, <2>12, <2>13 DEF IdInv
<1> QED
  BY <1>2, <1>3, <1>4
\* Who an incident belongs to, and that it is still open, is a matter of its id.
LEMMA OpenKept ==
    ASSUME IdInv, BaseInv', Gone' \subseteq Gone, lastTick <= lastTick',
           \A k \in Keys : Has(active', k) =>
              \/ Has(active, k) /\ active'[k].id = active[k].id
              \/ Has(pending, k) /\ active'[k].id = pending[k].id,
           \A k \in Keys : Has(pending', k) =>
              Has(pending, k) /\ pending'[k] = pending[k]
    PROVE  /\ OpenInv'
           /\ OwnedBy(active, lastTick)' /\ OwnedBy(pending, lastTick)'
<1>1. OpenInv'
  BY DEF IdInv, OpenInv
<1>2. lastTick \in Nat /\ lastTick' \in Nat
      /\ active \in Incidents /\ pending \in Incidents
  BY DEF IdInv, BaseInv, TypeInv, TypeOK
<1>3. OwnedBy(active, lastTick') /\ OwnedBy(pending, lastTick')
  BY <1>2, OwnedLonger DEF IdInv, OwnersInv
<1> QED
  BY <1>1, <1>3 DEF OwnedBy

LEMMA IdDisk ==
    ASSUME IdInv, BaseInv', AlertHasIncident',
           AppendIncident \/ SaveSnapshot \/ WriteFails
    PROVE  IdInv'
<1>1. /\ io \in Seq(Op) /\ io # <<>> /\ io' = Tail(io)
      /\ lastTick \in Nat /\ history \in Seq(Completed)
      /\ lastTick' = lastTick /\ now' = now /\ phase' = phase /\ up' = up
      /\ cursor' = cursor /\ active' = active /\ pending' = pending
  BY DEF AppendIncident, SaveSnapshot, WriteFails, clockVars, procVars,
         IdInv, BaseInv, TypeInv, TypeOK, Op
<1>2. /\ AppendsFirst'
      /\ Closing' = {}
      /\ \A i \in DOMAIN io' : io'[i].op = "save" =>
            \E j \in DOMAIN io : io[j].op = "save" /\ io'[i] = io[j]
  BY <1>1, ClosingDone DEF IdInv
<1>3. HistoryIds' \subseteq Gone /\ CompletedOnce'
  <2>1. CASE history' = history
    BY <2>1 DEF IdInv, HistoryIds, Gone, CompletedOnce
  <2>2. CASE history' = Append(history, Head(io).rec) /\ Head(io).op = "append"
    <3>1. Head(io).rec \in Completed /\ Closing = {Head(io).rec.id}
      BY <1>1, <2>2, HeadOfIo DEF Closing
    <3>2. Head(io).rec.id \notin IdsOf(history)
      BY <3>1 DEF IdInv, HistoryIds
    <3>3. /\ IdsOf(history') = HistoryIds \cup Closing
          /\ \A i, j \in DOMAIN history' : history'[i].id = history'[j].id => i = j
      BY <1>1, <2>2, <3>1, <3>2, IdsOfAppend DEF IdInv, CompletedOnce, HistoryIds
    <3> QED
      BY <3>3 DEF HistoryIds, Gone, CompletedOnce
  <2> QED
    BY <2>1, <2>2 DEF AppendIncident, SaveSnapshot, WriteFails
<1>4. Gone' \subseteq Gone
  BY <1>2, <1>3 DEF Gone
<1>5. OwnedBy(snapshot', lastTick)
  <2>1. CASE SaveSnapshot
    <3>1. 1 \in DOMAIN io /\ Head(io) = io[1]
      BY <1>1, LenProperties, EmptySeq
    <3> QED
      BY <2>1, <3>1 DEF SaveSnapshot, IdInv, OwnersInv
  <2>2. CASE AppendIncident \/ WriteFails
    BY <2>2 DEF AppendIncident, WriteFails, IdInv, OwnersInv
  <2> QED
    BY <2>1, <2>2
<1>6. PastInv'
  <2>1. cursor \in Nat
    BY ConstantsAssumption DEF Keys, IdInv, BaseInv, TypeInv, TypeOK
  <2> QED
    BY <1>1, <1>4, <2>1, PastKept
<1>7. OpenInv' /\ OwnedBy(active, lastTick)' /\ OwnedBy(pending, lastTick)'
  BY <1>1, <1>4, OpenKept
<1>8. OwnersInv'
  BY <1>1, <1>2, <1>5, <1>7 DEF OwnersInv, OwnedBy, IdInv
<1>9. ClockInv'
  BY <1>1 DEF ClockInv, IdInv
<1> QED
  BY <1>2, <1>3, <1>6, <1>7, <1>8, <1>9 DEF IdInv

\* A callback that completes nothing and at most saves.
LEMMA IdQuiet ==
    ASSUME IdInv, BaseInv', AlertHasIncident', ClockInv',
           history' = history, snapshot' = snapshot, lastTick <= lastTick',
           io = <<>>, io' = <<>> \/ io' = <<SaveOf(active', pending')>>,
           \A k \in Keys : Has(active', k) =>
              \/ Has(active, k) /\ active'[k].id = active[k].id
              \/ Has(pending, k) /\ active'[k].id = pending[k].id,
           \A k \in Keys : Has(pending', k) =>
              Has(pending, k) /\ pending'[k] = pending[k],
           phase' = "tick" => \/ lastTick < lastTick'
                              \/ phase = "tick" /\ cursor <= cursor'
    PROVE  IdInv'
<1>1. /\ lastTick \in Nat /\ lastTick' \in Nat /\ snapshot \in Incidents
      /\ active' \in Incidents /\ pending' \in Incidents
  BY DEF IdInv, BaseInv, TypeInv, TypeOK
<1>2. HistoryIds' = HistoryIds /\ CompletedOnce'
  BY DEF HistoryIds, CompletedOnce, IdInv
<1>3. CASE Gone' \subseteq Gone
  <2>1. OpenInv' /\ OwnedBy(active, lastTick)' /\ OwnedBy(pending, lastTick)'
    BY <1>3, OpenKept
  <2>2. /\ AppendsFirst'
        /\ Closing' = {}
        /\ \A i \in DOMAIN io' : io'[i].op = "save" => OwnedBy(io'[i].snap, lastTick')
    BY <1>1, <2>1, SavesOnly DEF OwnedBy
  <2>3. OwnedBy(snapshot', lastTick')
    BY <1>1, OwnedLonger DEF IdInv, OwnersInv
  <2>4. OwnersInv'
    BY <2>1, <2>2, <2>3 DEF OwnersInv, OwnedBy
  <2>5. PastInv'
    BY <1>3, PastKept
  <2> QED
    BY <1>2, <2>1, <2>2, <2>4, <2>5 DEF IdInv
<1>4. Gone' \subseteq Gone
  <2>1. Closing' = {}
    BY DEF Closing, SaveOf
  <2> QED
    BY <1>2, <2>1 DEF Gone
<1> QED
  BY <1>3, <1>4
LEMMA IdTick ==
    ASSUME IdInv, BaseInv', AlertHasIncident',
           TickBegin \/ TickAfterGap \/ TickAborts
    PROVE  IdInv'
<1>1. /\ lastTick \in Nat /\ now \in Nat /\ lastTick <= now
      /\ active \in Incidents /\ GapThreshold \in Nat \ {0}
  BY ConstantsAssumption DEF IdInv, ClockInv, BaseInv, TypeInv, TypeOK
<1>2. CASE TickBegin
  <2>1. /\ active' = active /\ pending' = pending /\ history' = history
        /\ snapshot' = snapshot /\ io = <<>> /\ io' = <<>>
        /\ up /\ up' = up /\ now' = now /\ lastTick' = now /\ lastTick < lastTick'
    BY <1>1, <1>2 DEF TickBegin, Idle, clockVars, procVars, diskVars
  <2>2. ClockInv' /\ lastTick <= lastTick'
    BY <1>1, <2>1 DEF ClockInv
  <2> QED
    BY <2>1, <2>2, IdQuiet
<1>3. CASE TickAfterGap
  <2> DEFINE gap == [from |-> lastTick, to |-> now]
  <2>1. /\ pending' = pending /\ history' = history /\ snapshot' = snapshot
        /\ io = <<>>
        /\ \/ io' = <<>>
           \/ io' = <<SaveOf(active', pending')>>
        /\ up /\ up' = up /\ now' = now /\ lastTick' = now /\ lastTick < lastTick'
    BY <1>1, <1>3 DEF TickAfterGap, Idle, clockVars, procVars, diskVars
  <2>2. ClockInv' /\ lastTick <= lastTick'
    BY <1>1, <2>1 DEF ClockInv
  <2>3. ASSUME NEW k \in Keys, Has(active', k)
        PROVE  Has(active, k) /\ active'[k].id = active[k].id
    <3>1. active'[k] = IF Has(active, k) THEN WithLiveGap(active[k], gap) ELSE None
      BY <1>3 DEF TickAfterGap
    <3>2. Has(active, k)
      BY <2>3, <3>1 DEF Has
    <3>3. active[k] \in Incident
      BY <1>1, <3>2 DEF Incidents, Has
    <3> QED
      BY <3>1, <3>2, <3>3, IdKept
  <2> HIDE DEF gap
  <2> QED
    BY <2>1, <2>2, <2>3, IdQuiet
<1>4. CASE TickAborts
  <2>1. /\ active' = active /\ pending' = pending /\ history' = history
        /\ snapshot' = snapshot /\ io = <<>> /\ io' = <<>> /\ phase' = "idle"
        /\ now' = now /\ lastTick' = lastTick
    BY <1>4 DEF TickAborts, clockVars, diskVars
  <2>2. ClockInv' /\ lastTick <= lastTick'
    BY <1>1, <2>1 DEF ClockInv
  <2> QED
    BY <2>1, <2>2, IdQuiet
<1> QED
  BY <1>2, <1>3, <1>4

\* The incident of sensor k leaves the memory for the history.
LEMMA IdComplete ==
    ASSUME DistinctComponents, IdInv, BaseInv', AlertHasIncident', ClockInv',
           NEW k \in Keys, NEW inc \in Incident, NEW rec \in Completed,
           rec.id = inc.id,
           inc \in {active[k], pending[k]},
           history' = history, snapshot' = snapshot, lastTick' = lastTick, io = <<>>,
           \/ io' = <<AppendOf(rec)>>
           \/ io' = <<AppendOf(rec), SaveOf(active', pending')>>,
           ~Has(active', k), ~Has(pending', k),
           \A j \in Keys \ {k} : active'[j] = active[j] /\ pending'[j] = pending[j],
           phase' = "tick" => phase = "tick" /\ cursor <= cursor' /\ k < cursor'
    PROVE  IdInv'
<1>1. /\ lastTick \in Nat
      /\ cursor \in Nat /\ cursor' \in Nat /\ Keys \subseteq Nat
      /\ active' \in Incidents /\ pending' \in Incidents
  BY ConstantsAssumption DEF IdInv, BaseInv, TypeInv, TypeOK, Keys
<1>2. \/ Has(active, k) /\ inc = active[k]
      \/ Has(pending, k) /\ inc = pending[k]
  BY NoneAssumption DEF Has
<1>3. /\ rec.id[1] = Component[k] /\ rec.id[2] <= lastTick
      /\ rec.id \notin HistoryIds
  BY <1>2 DEF IdInv, OwnersInv, OwnedBy, OpenInv, Gone
<1>4. /\ AppendOf(rec).op = "append" /\ AppendOf(rec).rec = rec
      /\ SaveOf(active', pending').op = "save"
      /\ SaveOf(active', pending').snap = Merged(active', pending')
  BY DEF AppendOf, SaveOf
<1>5. Closing' = {rec.id} /\ AppendsFirst'
  <2>1. CASE io' = <<AppendOf(rec)>>
    BY <1>4, <2>1 DEF Closing, AppendsFirst
  <2>2. CASE io' = <<AppendOf(rec), SaveOf(active', pending')>>
    BY <1>4, <2>2 DEF Closing, AppendsFirst
  <2> QED
    BY <2>1, <2>2
<1>6. HistoryIds' = HistoryIds /\ CompletedOnce'
  BY DEF HistoryIds, CompletedOnce, IdInv
<1>7. Gone' = HistoryIds \cup {rec.id} /\ HistoryIds \subseteq Gone
  BY <1>5, <1>6 DEF Gone
<1>8. OwnedBy(active', lastTick) /\ OwnedBy(pending', lastTick)
  BY DEF IdInv, OwnersInv, OwnedBy, Has
<1>9. OwnersInv'
  <2>1. OwnedBy(Merged(active', pending'), lastTick)
    BY <1>1, <1>8, MergedOwned
  <2>2. \A i \in DOMAIN io' : io'[i].op = "save" => OwnedBy(io'[i].snap, lastTick)
    <3>1. CASE io' = <<AppendOf(rec)>>
      BY <1>4, <3>1
    <3>2. CASE io' = <<AppendOf(rec), SaveOf(active', pending')>>
      BY <1>4, <2>1, <3>2
    <3> QED
      BY <3>1, <3>2
  <2>3. OwnedBy(snapshot', lastTick')
    BY DEF IdInv, OwnersInv
  <2> QED
    BY <1>8, <2>2, <2>3 DEF OwnersInv, OwnedBy
<1>10. OpenInv'
  <2>1. ASSUME NEW j \in Keys \ {k}
        PROVE  /\ Has(active', j) => active'[j].id \notin Gone'
               /\ Has(pending', j) => pending'[j].id \notin Gone'
    <3>1. Component[j] # Component[k]
      BY <2>1 DEF DistinctComponents
    <3> QED
      BY <1>3, <1>7, <2>1, <3>1 DEF IdInv, OpenInv, OwnersInv, OwnedBy, Has
  <2>2. \A j \in Keys : /\ Has(active', j) => active'[j].id \notin Gone'
                        /\ Has(pending', j) => pending'[j].id \notin Gone'
    BY <2>1
  <2> QED
    BY <2>2 DEF OpenInv, Has
<1>11. PastInv'
  <2>1. \A id \in Gone' : id[2] <= lastTick'
    BY <1>3, <1>7 DEF IdInv, PastInv
  <2>2. ASSUME phase' = "tick", NEW id \in Gone', NEW j \in Keys,
               cursor' <= j, id[1] = Component[j]
        PROVE  id[2] < lastTick'
    <3>1. cursor <= j /\ j # k
      BY <1>1, <2>2
    <3>2. id # rec.id
      BY <1>3, <2>2, <3>1 DEF DistinctComponents
    <3>3. id \in Gone
      BY <1>7, <2>2, <3>2
    <3> QED
      BY <2>2, <3>1, <3>3 DEF IdInv, PastInv
  <2> QED
    BY <2>1, <2>2 DEF PastInv
<1>12. Closing' \cap HistoryIds' = {}
  BY <1>3, <1>5, <1>6
<1> QED
  BY <1>5, <1>6, <1>9, <1>10, <1>11, <1>12 DEF IdInv
\* The tick's own bookkeeping at sensor k.
LEMMA IdAtSensor ==
    ASSUME IdInv, BaseInv', NEW k \in Keys, NEW r, AtSensor(k, r)
    PROVE  /\ ClockInv'
           /\ io = <<>> /\ phase = "tick" /\ cursor = k /\ lastTick = now
           /\ now \in Nat
           /\ lastTick' = lastTick /\ pending' = pending
           /\ history' = history /\ snapshot' = snapshot
           /\ lastTick <= lastTick'
           /\ phase' = "tick" => phase = "tick" /\ cursor <= cursor' /\ k < cursor'
<1>1. /\ lastTick \in Nat /\ now \in Nat /\ k \in Nat
  BY ConstantsAssumption DEF Keys, IdInv, BaseInv, TypeInv, TypeOK
<1>2. /\ up /\ up' = up /\ phase = "tick" /\ cursor = k /\ io = <<>>
      /\ now' = now /\ lastTick' = lastTick /\ lastTick = now
      /\ pending' = pending /\ history' = history /\ snapshot' = snapshot
  BY DEF AtSensor, IdInv, ClockInv, clockVars, procVars, diskVars
<1>3. phase' = "tick" => cursor' = k + 1
  BY DEF AtSensor, Advanced
<1> QED
  BY <1>1, <1>2, <1>3 DEF ClockInv

\* A new incident is not one that is over, for none of its component that is
\* started in this tick.
LEMMA IdOpen ==
    ASSUME DistinctComponents, IdInv, BaseInv', AlertHasIncident',
           NEW k \in Keys, NEW r \in Zone, OpenIncident(k, r)
    PROVE  IdInv'
<1> DEFINE inc == NewIncident(k, alerts'[k], now)
<1>1. /\ ClockInv'
      /\ io = <<>> /\ phase = "tick" /\ cursor = k /\ lastTick = now
      /\ now \in Nat
      /\ lastTick' = lastTick /\ pending' = pending
      /\ history' = history /\ snapshot' = snapshot
      /\ phase' = "tick" => phase = "tick" /\ cursor <= cursor' /\ k < cursor'
  BY IdAtSensor DEF OpenIncident
<1>2. active' = [active EXCEPT ![k] = inc] /\ io' = <<SaveOf(active', pending')>>
  BY <1>1 DEF OpenIncident
<1>3. inc.id = <<Component[k], now>>
  BY DEF NewIncident
<1> HIDE DEF inc
<1>4. active \in Incidents /\ active' \in Incidents /\ pending' \in Incidents
  BY DEF IdInv, BaseInv, TypeInv, TypeOK
<1>5. /\ active'[k] = inc
      /\ \A j \in Keys \ {k} : active'[j] = active[j]
  BY <1>2, <1>4 DEF Incidents
<1>6. HistoryIds' = HistoryIds /\ CompletedOnce'
  BY <1>1 DEF HistoryIds, CompletedOnce, IdInv
<1>7. OwnedBy(active', lastTick) /\ OwnedBy(pending', lastTick)
  BY <1>1, <1>3, <1>5 DEF IdInv, OwnersInv, OwnedBy, Has
<1>8. /\ AppendsFirst'
      /\ Closing' = {}
      /\ \A i \in DOMAIN io' : io'[i].op = "save" => OwnedBy(io'[i].snap, lastTick)
  BY <1>1, <1>2, <1>4, <1>7, SavesOnly
<1>9. Gone' = HistoryIds /\ Gone = HistoryIds
  BY <1>1, <1>6, <1>8 DEF Gone, Closing
<1>10. OwnersInv'
  BY <1>1, <1>7, <1>8 DEF OwnersInv, OwnedBy, IdInv
<1>11. inc.id \notin Gone
  <2>1. ASSUME inc.id \in Gone PROVE inc.id[2] < lastTick
    BY <1>1, <1>3, <2>1, ConstantsAssumption DEF IdInv, PastInv, Keys
  <2> QED
    BY <1>1, <1>3, <2>1
<1>12. OpenInv'
  BY <1>1, <1>5, <1>9, <1>11 DEF IdInv, OpenInv, Has
<1>13. PastInv'
  BY <1>1, <1>9, PastKept
<1> QED
  BY <1>1, <1>6, <1>8, <1>10, <1>12, <1>13 DEF IdInv

LEMMA IdObserve ==
    ASSUME DistinctComponents, IdInv, BaseInv', AlertHasIncident',
           NEW k \in Keys, ObserveSensor(k)
    PROVE  IdInv'
<1>1. active \in Incidents /\ active' \in Incidents /\ pending' \in Incidents
      /\ now \in Nat
  BY DEF IdInv, BaseInv, TypeInv, TypeOK
<1>2. ASSUME NEW r, AtSensor(k, r),
             \/ io' = <<>>
             \/ io' = <<SaveOf(active', pending)>>,
             \A j \in Keys : Has(active', j) =>
                Has(active, j) /\ active'[j].id = active[j].id
      PROVE  IdInv'
  <2>1. /\ ClockInv'
        /\ io = <<>>
        /\ pending' = pending /\ history' = history /\ snapshot' = snapshot
        /\ lastTick <= lastTick'
        /\ phase' = "tick" => phase = "tick" /\ cursor <= cursor'
    BY <1>2, IdAtSensor
  <2> QED
    BY <1>2, <2>1, IdQuiet
<1>3. CASE ReadNothing(k)
  <2>1. AtSensor(k, NoReading) /\ active' = active /\ io' = <<>>
    BY <1>3 DEF ReadNothing, AtSensor
  <2> QED
    BY <1>2, <2>1
<1>4. ASSUME NEW r \in Zone, ReadPending(k, r) \/ ReadQuiet(k, r) PROVE IdInv'
  <2>1. AtSensor(k, r) /\ active' = active /\ io' = <<>>
    BY <1>4 DEF ReadPending, ReadQuiet, AtSensor
  <2> QED
    BY <1>2, <2>1
<1>5. ASSUME NEW r \in Zone, OpenIncident(k, r) PROVE IdInv'
  BY <1>5, IdOpen
<1>6. ASSUME NEW r \in Zone, TouchIncident(k, r) PROVE IdInv'
  <2>1. /\ AtSensor(k, r)
        /\ Has(active, k)
        /\ active' = [active EXCEPT ![k] = Touched(active[k], alerts'[k], now)]
        /\ \/ io' = <<>>
           \/ io' = <<SaveOf(active', pending)>>
    BY <1>6 DEF TouchIncident
  <2>2. active[k] \in Incident
    BY <1>1, <2>1 DEF Incidents, Has
  <2>3. Touched(active[k], alerts'[k], now).id = active[k].id
    BY <2>2, IdKept
  <2>4. \A j \in Keys : Has(active', j) =>
           Has(active, j) /\ active'[j].id = active[j].id
    BY <1>1, <2>1, <2>3 DEF Incidents, Has
  <2> QED
    BY <1>2, <2>1, <2>4
<1>7. ASSUME NEW r \in Zone, CloseIncident(k, r) PROVE IdInv'
  <2> DEFINE rec == ClosedLive(active[k], r, now)
  <2>1. /\ AtSensor(k, r)
        /\ Has(active, k) /\ ~Has(pending, k)
        /\ active' = [active EXCEPT ![k] = None]
        /\ io' = <<AppendOf(rec), SaveOf(active', pending)>>
    BY <1>7 DEF CloseIncident
  <2>2. active[k] \in Incident /\ GapForPending(active[k])
    BY <1>1, <2>1 DEF Incidents, Has, IdInv, BaseInv, TypeInv
  <2>3. rec \in Completed /\ rec.id = active[k].id
    <3>1. r \in Reading
      BY ComponentsOfTypes
    <3>2. rec \in Completed
      BY <1>1, <2>2, <3>1, ClosedLiveType
    <3>3. rec.id = active[k].id
      BY <2>2, IdKept
    <3> QED
      BY <3>2, <3>3
  <2> HIDE DEF rec
  <2>4. /\ ClockInv'
        /\ io = <<>>
        /\ lastTick' = lastTick
        /\ pending' = pending /\ history' = history /\ snapshot' = snapshot
        /\ phase' = "tick" => phase = "tick" /\ cursor <= cursor' /\ k < cursor'
    BY <2>1, IdAtSensor
  <2>5. /\ ~Has(active', k) /\ ~Has(pending', k)
        /\ \A j \in Keys \ {k} : active'[j] = active[j] /\ pending'[j] = pending[j]
    BY <1>1, <2>1, <2>4 DEF Incidents, Has
  <2> QED
    BY <2>1, <2>2, <2>3, <2>4, <2>5, IdComplete
<1> QED
  BY <1>3, <1>4, <1>5, <1>6, <1>7 DEF ObserveSensor

LEMMA IdReconcile ==
    ASSUME DistinctComponents, IdInv, BaseInv', AlertHasIncident',
           NEW k \in Keys, Reconcile(k)
    PROVE  IdInv'
<1>1. /\ phase = "reconcile" /\ phase' = "reconcile"
      /\ io = <<>> /\ Has(pending, k)
      /\ pending' = [pending EXCEPT ![k] = None]
      /\ now' = now /\ lastTick' = lastTick
      /\ history' = history /\ snapshot' = snapshot
  BY DEF Reconcile, ResumeRestored, CloseRestored, clockVars, diskVars
<1>2. /\ active \in Incidents /\ pending \in Incidents
      /\ lastTick \in Nat /\ lastVal[k] \in Reading
      /\ pending[k] \in Incident /\ RestartGap(k) \in Gap
  BY <1>1 DEF IdInv, BaseInv, TypeInv, TypeOK, Incidents, Incident, Has, RestartGap, Gap
<1>3. ClockInv' /\ lastTick <= lastTick'
  BY <1>1, <1>2 DEF IdInv, ClockInv
<1>4. ~Has(pending', k) /\ \A j \in Keys \ {k} : pending'[j] = pending[j]
  BY <1>1, <1>2 DEF Incidents, Has
<1>5. CASE ResumeRestored(k)
  <2>1. /\ active' = [active EXCEPT ![k] =
                         Resumed(pending[k], RestartGap(k), alerts[k])]
        /\ io' = <<>>
    BY <1>5 DEF ResumeRestored
  <2>2. active'[k].id = pending[k].id /\ \A j \in Keys \ {k} : active'[j] = active[j]
    BY <1>2, <2>1, IdKept DEF Incidents
  <2>3. /\ \A j \in Keys : Has(active', j) =>
              \/ Has(active, j) /\ active'[j].id = active[j].id
              \/ Has(pending, j) /\ active'[j].id = pending[j].id
        /\ \A j \in Keys : Has(pending', j) =>
              Has(pending, j) /\ pending'[j] = pending[j]
    BY <1>1, <1>4, <2>2 DEF Has
  <2> QED
    BY <1>1, <1>3, <2>1, <2>3, IdQuiet
<1>6. CASE CloseRestored(k)
  <2> DEFINE rec == ClosedAfterGap(pending[k], RestartGap(k), lastVal[k])
  <2>1. io' = <<AppendOf(rec)>> /\ active' = active
    BY <1>6 DEF CloseRestored
  <2>2. rec \in Completed /\ rec.id = pending[k].id
    BY <1>2, ClosedAfterGapType, IdKept
  <2>3. ~Has(active', k)
    BY <1>1, <2>1 DEF IdInv, AlertHasIncident, Has
  <2> HIDE DEF rec
  <2>4. \A j \in Keys \ {k} : active'[j] = active[j] /\ pending'[j] = pending[j]
    BY <1>4, <2>1
  <2> QED
    BY <1>1, <1>2, <1>3, <1>4, <2>1, <2>2, <2>3, <2>4, IdComplete
<1> QED
  BY <1>5, <1>6 DEF Reconcile

LEMMA IdCallbacks ==
    ASSUME IdInv, BaseInv', AlertHasIncident',
           ReconcileBegin \/ ReconcileEnd \/ Flush \/ CloseApp \/ Exit
    PROVE  IdInv'
<1>1. lastTick \in Nat /\ now \in Nat
  BY DEF IdInv, BaseInv, TypeInv, TypeOK
<1>2. CASE ReconcileBegin \/ ReconcileEnd \/ Flush \/ CloseApp
  <2>1. /\ io = <<>>
        /\ active' = active /\ pending' = pending
        /\ history' = history /\ snapshot' = snapshot
        /\ lastTick' = lastTick /\ now' = now /\ phase' # "tick"
        /\ \/ io' = <<>>
           \/ io' = <<SaveOf(active', pending')>>
    BY <1>2 DEF ReconcileBegin, ReconcileEnd, Flush, CloseApp, Idle,
       clockVars, procVars, diskVars
  <2>2. ClockInv' /\ lastTick <= lastTick'
    BY <1>1, <2>1 DEF IdInv, ClockInv
  <2> QED
    BY <2>1, <2>2, IdQuiet
<1>3. CASE Exit
  <2>1. /\ io = <<>> /\ io' = <<>>
        /\ active' = Empty /\ pending' = Empty
        /\ history' = history /\ snapshot' = snapshot
        /\ lastTick' = lastTick /\ now' = now /\ phase' # "tick"
    BY <1>3 DEF Exit, Stopped, clockVars, diskVars
  <2>2. ClockInv' /\ lastTick <= lastTick'
    BY <1>1, <2>1 DEF IdInv, ClockInv
  <2> QED
    BY <2>1, <2>2, IdQuiet, ComponentsOfTypes DEF Has
<1> QED
  BY <1>2, <1>3

LEMMA IdNext == ASSUME DistinctComponents PROVE IdInv /\ [Next]_vars => IdInv'
<1> SUFFICES ASSUME IdInv, [Next]_vars PROVE IdInv'
  OBVIOUS
<1>1. BaseInv' /\ AlertHasIncident'
  BY BaseNext, AlertsNext DEF IdInv
<1>2. CASE UNCHANGED vars
  BY <1>1, <1>2 DEF vars, IdInv, ClockInv, AppendsFirst, OwnersInv, OwnedBy, Has,
     CompletedOnce, Closing, HistoryIds, IdsOf, OpenInv, PastInv, Gone
<1>3. CASE Next
  BY <1>1, <1>3, IdEnvironment, IdDisk, IdTick, IdObserve, IdReconcile, IdCallbacks
     DEF Next
<1> QED
  BY <1>2, <1>3

\* However often the program is killed, in whatever write, restarted, suspended
\* or refused a write: no incident is twice in the completed history.
THEOREM NoIncidentTwice == ASSUME DistinctComponents PROVE Spec => []CompletedOnce
<1>1. IdInv => CompletedOnce
  BY DEF IdInv
<1> QED
  BY <1>1, IdInit, IdNext, PTL DEF Spec

\* What a stale active file brings back after a crash is never an incident that
\* the completed history has.
THEOREM NoIncidentReopened == ASSUME DistinctComponents PROVE Spec => []NotReopened
<1>1. IdInv => NotReopened
  BY DEF IdInv, OpenInv, Gone, NotReopened
<1> QED
  BY <1>1, IdInit, IdNext, PTL DEF Spec

-----------------------------------------------------------------------------
\* THE TWO FILES

-----------------------------------------------------------------------------
(* The active file tracks the incidents.                                   *)

\* What the file has of the incident of a sensor.
Tracked(snap, k, inc) ==
    /\ Has(snap, k)
    /\ snap[k].id = inc.id
    /\ snap[k].max = inc.max

Tracks(snap, act, pend) ==
    \A k \in Keys :
        /\ Has(pend, k) => Tracked(snap, k, pend[k])
        /\ ~Has(pend, k) /\ Has(act, k) => Tracked(snap, k, act[k])

\* A save still to be made is of what is in memory now, for no callback goes on
\* before its writes are over.
SavesAreCurrent ==
    \A i \in DOMAIN io : io[i].op = "save" => io[i].snap = Merged(active, pending)

\* Outside of the reconciliation, the last of the writes of a callback is a save.
EndsInSave ==
    up /\ phase # "reconcile" =>
        IF io = <<>> THEN Tracks(snapshot, active, pending)
                     ELSE io[Len(io)].op = "save"

TrackInv ==
    /\ BaseInv
    /\ SavesAreCurrent
    /\ EndsInSave

LEMMA TracksIsSnapshotTracks ==
    Tracks(snapshot, active, pending) =>
        \A k \in KeysOf(active) \cup KeysOf(pending) :
            Tracked(snapshot, k, IF Has(pending, k) THEN pending[k] ELSE active[k])
BY DEF Tracks, KeysOf

LEMMA MergedTracks ==
    ASSUME NEW act \in Incidents, NEW pend \in Incidents
    PROVE  Tracks(Merged(act, pend), act, pend)
<1>1. ASSUME NEW inc \in Incident
      PROVE  /\ Persistable(inc).id = inc.id
             /\ Persistable(inc).max = inc.max
             /\ Persistable(inc) \in Incident
  BY DEF Persistable, Incident
<1>2. ASSUME NEW k \in Keys, Has(pend, k) PROVE Tracked(Merged(act, pend), k, pend[k])
  <2>1. pend[k] \in Incident /\ Merged(act, pend)[k] = Persistable(pend[k])
    BY <1>2 DEF Incidents, Has, Merged
  <2> QED
    BY <1>1, <2>1, NoneAssumption DEF Tracked, Has
<1>3. ASSUME NEW k \in Keys, ~Has(pend, k), Has(act, k)
      PROVE  Tracked(Merged(act, pend), k, act[k])
  <2>1. act[k] \in Incident /\ Merged(act, pend)[k] = Persistable(act[k])
    BY <1>3 DEF Incidents, Has, Merged
  <2> QED
    BY <1>1, <2>1, NoneAssumption DEF Tracked, Has
<1> QED
  BY <1>2, <1>3 DEF Tracks

\* The writes that are left when the first is made.
LEMMA WritesLeft ==
    ASSUME io \in Seq(Op), io # <<>>, io' = Tail(io)
    PROVE  /\ \A i \in DOMAIN io' : i + 1 \in DOMAIN io /\ io'[i] = io[i + 1]
           /\ io' # <<>> => io'[Len(io')] = io[Len(io)]
           /\ io' = <<>> => io[Len(io)] = Head(io)
           /\ 1 \in DOMAIN io /\ Head(io) = io[1]
<1>1. Len(io) \in Nat /\ DOMAIN io = 1 .. Len(io) /\ Len(io) # 0
  BY LenProperties, EmptySeq
<1>2. /\ io' \in Seq(Op)
      /\ Len(io') = Len(io) - 1
      /\ \A i \in 1 .. Len(io') : io'[i] = io[i + 1]
  BY HeadTailProperties
<1>3. Len(io') \in Nat /\ DOMAIN io' = 1 .. Len(io') /\ (io' = <<>> <=> Len(io') = 0)
  BY <1>2, LenProperties, EmptySeq
<1>4. 1 \in DOMAIN io /\ Head(io) = io[1]
  BY <1>1
<1>5. \A i \in DOMAIN io' : i + 1 \in DOMAIN io /\ io'[i] = io[i + 1]
  BY <1>1, <1>2, <1>3
<1>6. io' # <<>> => io'[Len(io')] = io[Len(io)]
  BY <1>1, <1>2, <1>3
<1>7. io' = <<>> => io[Len(io)] = Head(io)
  BY <1>1, <1>2, <1>3, <1>4
<1> QED
  BY <1>4, <1>5, <1>6, <1>7

LEMMA TrackInit == Init => TrackInv
BY BaseInit DEF Init, TrackInv, SavesAreCurrent, EndsInSave

LEMMA TrackDisk ==
    ASSUME "save" \notin WriteFaults, TrackInv,
           AppendIncident \/ SaveSnapshot \/ WriteFails
    PROVE  SavesAreCurrent' /\ EndsInSave'
<1>1. /\ io \in Seq(Op) /\ io # <<>> /\ io' = Tail(io)
      /\ up' = up /\ phase' = phase /\ active' = active /\ pending' = pending
      /\ active \in Incidents /\ pending \in Incidents
  BY DEF AppendIncident, SaveSnapshot, WriteFails, procVars,
         TrackInv, BaseInv, TypeInv, TypeOK, Op
<1>2. SavesAreCurrent'
  BY <1>1, WritesLeft DEF TrackInv, SavesAreCurrent
<1>3. CASE io' # <<>>
  BY <1>1, <1>2, <1>3, WritesLeft DEF TrackInv, EndsInSave
<1>4. CASE io' = <<>>
  <2> SUFFICES ASSUME up', phase' # "reconcile"
               PROVE  Tracks(snapshot', active', pending')
    BY <1>2, <1>4 DEF EndsInSave
  <2>1. Head(io).op = "save"
    BY <1>1, <1>4, WritesLeft DEF TrackInv, EndsInSave
  <2>2. snapshot' = Head(io).snap
    BY <2>1 DEF AppendIncident, SaveSnapshot, WriteFails
  <2>3. snapshot' = Merged(active', pending')
    BY <1>1, <2>1, <2>2, WritesLeft DEF TrackInv, SavesAreCurrent
  <2> QED
    BY <1>1, <2>3, MergedTracks
<1> QED
  BY <1>2, <1>3, <1>4

\* A step of a callback that saves at the end.
LEMMA TrackSaves ==
    ASSUME \/ io' = <<SaveOf(active', pending')>>
           \/ \E rec : io' = <<AppendOf(rec), SaveOf(active', pending')>>
    PROVE  SavesAreCurrent' /\ EndsInSave'
<1>1. /\ SaveOf(active', pending').op = "save"
      /\ SaveOf(active', pending').snap = Merged(active', pending')
      /\ \A rec : AppendOf(rec).op = "append"
  BY DEF SaveOf, AppendOf
<1>2. CASE io' = <<SaveOf(active', pending')>>
  <2> DEFINE save == SaveOf(active', pending')
  <2> HIDE DEF save
  <2>1. io' = <<save>> /\ save.op = "save" /\ save.snap = Merged(active', pending')
    BY <1>1, <1>2 DEF save
  <2> QED
    BY <2>1 DEF SavesAreCurrent, EndsInSave
<1>3. ASSUME NEW rec, io' = <<AppendOf(rec), SaveOf(active', pending')>>
      PROVE  SavesAreCurrent' /\ EndsInSave'
  <2> DEFINE save == SaveOf(active', pending')
             append == AppendOf(rec)
  <2> HIDE DEF save, append
  <2>1. /\ io' = <<append, save>>
        /\ save.op = "save" /\ save.snap = Merged(active', pending')
        /\ append.op = "append"
    BY <1>1, <1>3 DEF save, append
  <2> QED
    BY <2>1 DEF SavesAreCurrent, EndsInSave
<1> QED
  BY <1>2, <1>3

\* A step that writes nothing.
LEMMA TrackSilent ==
    ASSUME io' = <<>>,
           up' /\ phase' # "reconcile" => Tracks(snapshot', active', pending')
    PROVE  SavesAreCurrent' /\ EndsInSave'
BY DEF SavesAreCurrent, EndsInSave

LEMMA TrackTick ==
    ASSUME TrackInv, TickBegin \/ TickAfterGap \/ TickAborts
    PROVE  SavesAreCurrent' /\ EndsInSave'
<1>1. active \in Incidents /\ pending \in Incidents
  BY DEF TrackInv, BaseInv, TypeInv, TypeOK
<1>2. CASE TickBegin \/ TickAborts
  <2>1. /\ io = <<>> /\ io' = <<>> /\ up /\ phase # "reconcile"
        /\ active' = active /\ pending' = pending /\ snapshot' = snapshot
    BY <1>2 DEF TickBegin, TickAborts, Idle, diskVars
  <2>2. Tracks(snapshot', active', pending')
    BY <2>1 DEF TrackInv, EndsInSave
  <2> QED
    BY <2>1, <2>2, TrackSilent
<1>3. CASE TickAfterGap
  <2>1. /\ io = <<>> /\ up /\ phase # "reconcile"
        /\ pending' = pending /\ snapshot' = snapshot
    BY <1>3 DEF TickAfterGap, Idle, diskVars
  <2>2. CASE KeysOf(active) = {}
    <3>1. io' = <<>>
      BY <1>3, <2>2 DEF TickAfterGap
    <3>2. \A k \in Keys : ~Has(active', k)
      BY <1>3, <2>2 DEF TickAfterGap, KeysOf, Has
    <3>3. Tracks(snapshot', active', pending')
      BY <2>1, <3>2 DEF TrackInv, EndsInSave, Tracks
    <3> QED
      BY <3>1, <3>3, TrackSilent
  <2>3. CASE KeysOf(active) # {}
    <3>1. io' = <<SaveOf(active', pending')>>
      BY <1>3, <2>1, <2>3 DEF TickAfterGap
    <3> QED
      BY <3>1, TrackSaves
  <2> QED
    BY <2>2, <2>3
<1> QED
  BY <1>2, <1>3

LEMMA TrackObserve ==
    ASSUME TrackInv, NEW k \in Keys, ObserveSensor(k)
    PROVE  SavesAreCurrent' /\ EndsInSave'
<1>1. active \in Incidents /\ pending \in Incidents
  BY DEF TrackInv, BaseInv, TypeInv, TypeOK
<1>2. /\ io = <<>> /\ up /\ phase # "reconcile"
      /\ pending' = pending /\ snapshot' = snapshot
  BY DEF ObserveSensor, ReadNothing, ReadPending, ReadQuiet, OpenIncident,
         TouchIncident, CloseIncident, AtSensor, diskVars
<1>3. Tracks(snapshot, active, pending)
  BY <1>2 DEF TrackInv, EndsInSave
<1>4. ASSUME io' = <<>>, active' = active PROVE SavesAreCurrent' /\ EndsInSave'
  BY <1>2, <1>3, <1>4, TrackSilent
<1>5. CASE ReadNothing(k) \/ \E r \in Zone : ReadPending(k, r) \/ ReadQuiet(k, r)
  BY <1>2, <1>4, <1>5 DEF ReadNothing, ReadPending, ReadQuiet
<1>6. ASSUME NEW r \in Zone, OpenIncident(k, r) PROVE SavesAreCurrent' /\ EndsInSave'
  BY <1>2, <1>6, TrackSaves DEF OpenIncident
<1>7. ASSUME NEW r \in Zone, TouchIncident(k, r) PROVE SavesAreCurrent' /\ EndsInSave'
  <2>1. CASE Escalates(active[k], alerts'[k])
    BY <1>2, <1>7, <2>1, TrackSaves DEF TouchIncident
  <2>2. CASE ~Escalates(active[k], alerts'[k])
    <3>1. /\ io' = <<>>
          /\ active' = [active EXCEPT ![k] = Touched(active[k], alerts'[k], now)]
          /\ Has(active, k)
      BY <1>7, <2>2 DEF TouchIncident
    <3>2. active[k] \in Incident
      BY <1>1, <3>1 DEF Incidents, Has
    <3>3. /\ Touched(active[k], alerts'[k], now).id = active[k].id
          /\ Touched(active[k], alerts'[k], now).max = active[k].max
      BY <2>2, <3>2 DEF Touched, Incident
    <3>4. \A j \in Keys : Has(active', j) =>
             Has(active, j) /\ active'[j].id = active[j].id
                            /\ active'[j].max = active[j].max
      BY <1>1, <3>1, <3>3 DEF Incidents, Has
    <3>5. Tracks(snapshot', active', pending')
      BY <1>2, <1>3, <3>4 DEF Tracks, Tracked
    <3> QED
      BY <3>1, <3>5, TrackSilent
  <2> QED
    BY <2>1, <2>2
<1>8. ASSUME NEW r \in Zone, CloseIncident(k, r) PROVE SavesAreCurrent' /\ EndsInSave'
  BY <1>2, <1>8, TrackSaves DEF CloseIncident
<1> QED
  BY <1>5, <1>6, <1>7, <1>8 DEF ObserveSensor

LEMMA TrackEnvironment ==
    ASSUME TrackInv, Advance \/ Crash \/ Start \/ Exit
    PROVE  SavesAreCurrent' /\ EndsInSave'
<1>1. CASE Crash \/ Exit
  BY <1>1, TrackSilent DEF Crash, Exit, Stopped
<1>2. CASE Advance
  <2>1. io = <<>>
    BY <1>2 DEF Advance, Idle, TrackInv, BaseInv, StoppedInv
  <2> QED
    BY <1>2, <2>1 DEF Advance, diskVars, TrackInv, EndsInSave, SavesAreCurrent
<1>3. CASE Start
  <2>1. /\ io' = <<>> /\ snapshot' = snapshot /\ active' = Empty
        /\ LoadSnapshot
    BY <1>3 DEF Start, TrackInv, BaseInv, StoppedInv
  <2>2. \A k \in Keys : ~Has(active', k) /\ (Has(pending', k) =>
           Has(snapshot, k) /\ pending'[k] = snapshot[k])
    BY <2>1, ComponentsOfTypes DEF LoadSnapshot, Has
  <2>3. Tracks(snapshot', active', pending')
    BY <2>1, <2>2 DEF Tracks, Tracked
  <2> QED
    BY <2>1, <2>3, TrackSilent
<1> QED
  BY <1>1, <1>2, <1>3

LEMMA TrackCallbacks ==
    ASSUME TrackInv, ReconcileBegin \/ ReconcileEnd \/ Flush \/ CloseApp
    PROVE  SavesAreCurrent' /\ EndsInSave'
<1>1. CASE ReconcileBegin
  <2>1. /\ io = <<>> /\ io' = <<>> /\ up /\ phase # "reconcile"
        /\ active' = active /\ pending' = pending /\ snapshot' = snapshot
    BY <1>1 DEF ReconcileBegin, Idle, diskVars
  <2>2. Tracks(snapshot', active', pending')
    BY <2>1 DEF TrackInv, EndsInSave
  <2> QED
    BY <2>1, <2>2, TrackSilent
<1>2. CASE ReconcileEnd \/ Flush \/ CloseApp
  <2>1. io' = <<SaveOf(active', pending')>>
    BY <1>2 DEF ReconcileEnd, Flush, CloseApp
  <2> QED
    BY <2>1, TrackSaves
<1> QED
  BY <1>1, <1>2

LEMMA TrackReconcile ==
    ASSUME TrackInv, NEW k \in Keys, Reconcile(k)
    PROVE  SavesAreCurrent' /\ EndsInSave'
<1>1. phase' = "reconcile"
  BY DEF Reconcile, ResumeRestored, CloseRestored
<1>2. \/ io' = <<>>
      \/ \E rec : io' = <<AppendOf(rec)>>
  BY DEF Reconcile, ResumeRestored, CloseRestored
<1>3. \A rec : AppendOf(rec).op = "append"
  BY DEF AppendOf
<1>4. SavesAreCurrent'
  <2>1. CASE io' = <<>>
    BY <2>1 DEF SavesAreCurrent
  <2>2. ASSUME NEW append, append.op = "append", io' = <<append>>
        PROVE  SavesAreCurrent'
    BY <2>2 DEF SavesAreCurrent
  <2> QED
    BY <1>2, <1>3, <2>1, <2>2
<1> QED
  BY <1>1, <1>4 DEF EndsInSave

LEMMA TrackNext ==
    ASSUME "save" \notin WriteFaults PROVE TrackInv /\ [Next]_vars => TrackInv'
<1> SUFFICES ASSUME TrackInv, [Next]_vars PROVE SavesAreCurrent' /\ EndsInSave'
  BY BaseNext DEF TrackInv
<1>1. CASE UNCHANGED vars
  BY <1>1 DEF vars, TrackInv, SavesAreCurrent, EndsInSave
<1>2. CASE Next
  BY <1>2, TrackEnvironment, TrackDisk, TrackTick, TrackObserve, TrackReconcile,
     TrackCallbacks DEF Next
<1> QED
  BY <1>1, <1>2

\* If saves succeed, a kill loses quiet updates only: whenever no callback is
\* under way, every incident of the running program is in the active file with
\* its identity and worst zone (an append may fail).
THEOREM TheFileTracksIncidents ==
    ASSUME "save" \notin WriteFaults PROVE Spec => []SnapshotTracks
<1>1. TrackInv => SnapshotTracks
  BY TracksIsSnapshotTracks DEF TrackInv, EndsInSave, SnapshotTracks, Tracked
<1> QED
  BY <1>1, TrackInit, TrackNext, PTL DEF Spec

-----------------------------------------------------------------------------
(* The two files implement the ledger of records.                          *)

\* Writes succeed, nothing expires while the behaviour lasts, and no two sensors
\* share a component.
Durable ==
    /\ WriteFaults = {}
    /\ MaxTime <= Retention
    /\ DistinctComponents

IdsIn(d) == {d[k].id : k \in KeysOf(d)}

\* What the running program works on.
OpenIds == IdsIn(active) \cup IdsIn(pending)

\* What is in the active file is still being worked on, is completed, or is being
\* completed: the next save does not forget it.
NothingForgotten == up => SnapshotIds \subseteq OpenIds \cup Gone

\* Completed incidents are those of the sensors.
GoneOwned == \A id \in Gone : \E k \in Keys : id[1] = Component[k]

FileInv ==
    /\ IdInv
    /\ TrackInv
    /\ now <= MaxTime
    /\ up => torn = FALSE
    /\ NothingForgotten
    /\ GoneOwned

LEMMA FileInit == Init => FileInv
<1> SUFFICES ASSUME Init PROVE FileInv
  OBVIOUS
<1>1. Closing = {} /\ HistoryIds = {}
  BY DEF Init, Closing, HistoryIds, IdsOf
<1> QED
  BY <1>1, IdInit, TrackInit, ConstantsAssumption
     DEF Init, FileInv, NothingForgotten, GoneOwned, Gone

LEMMA MergedIds ==
    ASSUME NEW act \in Incidents, NEW pend \in Incidents,
           \A k \in Keys : Has(act, k) => ~Has(pend, k)
    PROVE  IdsIn(Merged(act, pend)) = IdsIn(act) \cup IdsIn(pend)
<1> DEFINE m == Merged(act, pend)
<1>1. \A k \in Keys : /\ Has(pend, k) => Tracked(m, k, pend[k])
                      /\ ~Has(pend, k) /\ Has(act, k) => Tracked(m, k, act[k])
  BY MergedTracks DEF Tracks
<1>2. \A k \in Keys : Has(m, k) => Has(pend, k) \/ Has(act, k)
  BY DEF Merged, Has
<1> HIDE DEF m
<1>3. \A k \in Keys : Has(m, k) <=> Has(pend, k) \/ Has(act, k)
  BY <1>1, <1>2 DEF Tracked
<1> QED
  BY <1>1, <1>3 DEF IdsIn, KeysOf, Tracked, m

\* The identifiers of the ledger.
LedgerIds == {<<Component[k], t>> : k \in Keys, t \in 0 .. MaxTime}

\* Identifiers of incidents are those of the ledger.
LEMMA OwnedIds ==
    ASSUME FileInv, NEW id \in Id, id[2] <= lastTick,
           NEW k \in Keys, id[1] = Component[k]
    PROVE  id \in LedgerIds
<1>1. id = <<id[1], id[2]>> /\ id[2] \in Nat
  BY DEF Id
<1>2. id[2] <= MaxTime
  BY <1>1, ConstantsAssumption
     DEF FileInv, IdInv, ClockInv, BaseInv, TypeInv, TypeOK
<1>3. id[2] \in 0 .. MaxTime
  BY <1>1, <1>2, ConstantsAssumption
<1> QED
  BY <1>1, <1>3 DEF LedgerIds

LEMMA GoneTypes == IdInv => Gone \subseteq Id
<1> SUFFICES ASSUME IdInv PROVE Gone \subseteq Id
  OBVIOUS
<1>1. history \in Seq(Completed) /\ io \in Seq(Op)
  BY DEF IdInv, BaseInv, TypeInv, TypeOK, Op
<1>2. \A i \in DOMAIN history : history[i] \in Completed
  <2>1. DOMAIN history = 1 .. Len(history)
    BY <1>1, LenProperties
  <2> QED
    BY <1>1, <2>1, ElementOfSeq
<1>3. \A id \in Closing : id \in Id
  BY <1>1, HeadOfIo DEF Closing, Completed
<1> QED
  BY <1>2, <1>3 DEF Gone, HistoryIds, IdsOf, Completed

\* All that the ledger sees, or is going to see, is one of its identifiers.
LEMMA SeenIds ==
    ASSUME FileInv PROVE OpenIds \cup Gone \subseteq LedgerIds
<1>1. ASSUME NEW k \in Keys, NEW d \in {active, pending}, Has(d, k)
      PROVE  d[k].id \in LedgerIds
  <2>1. d[k].id \in Id
    BY <1>1 DEF FileInv, IdInv, BaseInv, TypeInv, TypeOK, Incidents, Has, Incident
  <2>2. d[k].id[1] = Component[k] /\ d[k].id[2] <= lastTick
    BY <1>1 DEF FileInv, IdInv, OwnersInv, OwnedBy
  <2> QED
    BY <2>1, <2>2, OwnedIds
<1>2. ASSUME NEW id \in Gone PROVE id \in LedgerIds
  <2>1. id \in Id /\ id[2] <= lastTick
    BY GoneTypes DEF FileInv, IdInv, PastInv
  <2>2. PICK k \in Keys : id[1] = Component[k]
    BY DEF FileInv, GoneOwned
  <2> QED
    BY <2>1, <2>2, OwnedIds
<1> QED
  BY <1>1, <1>2 DEF OpenIds, IdsIn, KeysOf

\* What stays of FileInv when a step of the running program changes neither file.
FilesKept ==
    /\ now' <= MaxTime
    /\ up' => torn' = FALSE
    /\ NothingForgotten'
    /\ GoneOwned'

LEMMA OpenOrGone ==
    ASSUME FileInv, up, now' = now, torn' = torn, snapshot' = snapshot,
           history' = history, io = <<>>,
           OpenIds \subseteq OpenIds' \cup Closing',
           \A id \in Closing' : \E k \in Keys : id[1] = Component[k]
    PROVE  FilesKept
<1>1. SnapshotIds' = SnapshotIds /\ HistoryIds' = HistoryIds /\ Closing = {}
  BY DEF SnapshotIds, KeysOf, Has, HistoryIds, Closing
<1>2. NothingForgotten'
  BY <1>1 DEF FileInv, NothingForgotten, Gone
<1>3. GoneOwned'
  BY <1>1 DEF FileInv, GoneOwned, Gone
<1> QED
  BY <1>2, <1>3 DEF FilesKept, FileInv

LEMMA NoAppend ==
    ASSUME io' = <<>> \/ \E act, pend : io' = <<SaveOf(act, pend)>>
    PROVE  Closing' = {}
<1>1. \A act, pend : SaveOf(act, pend).op = "save"
  BY DEF SaveOf
<1>2. CASE io' = <<>>
  BY <1>2 DEF Closing
<1>3. ASSUME NEW save, save.op = "save", io' = <<save>> PROVE Closing' = {}
  BY <1>3 DEF Closing
<1> QED
  BY <1>1, <1>2, <1>3

LEMMA FilesTick ==
    ASSUME FileInv,
           \/ TickBegin \/ TickAfterGap \/ TickAborts
           \/ ReconcileBegin \/ ReconcileEnd \/ Flush \/ CloseApp
    PROVE  FilesKept
<1>1. active \in Incidents
  BY DEF FileInv, IdInv, BaseInv, TypeInv, TypeOK
<1>2. /\ up /\ io = <<>> /\ now' = now /\ torn' = torn
      /\ snapshot' = snapshot /\ history' = history /\ pending' = pending
      /\ io' = <<>> \/ \E act, pend : io' = <<SaveOf(act, pend)>>
  BY DEF TickBegin, TickAfterGap, TickAborts, ReconcileBegin, ReconcileEnd, Flush,
     CloseApp, Idle, clockVars, procVars, diskVars, FileInv, IdInv, BaseInv, StoppedInv
<1>3. \A k \in Keys : Has(active, k) => Has(active', k) /\ active'[k].id = active[k].id
  <2>1. CASE active' = active
    BY <2>1
  <2>2. CASE TickAfterGap
    <3> DEFINE gap == [from |-> lastTick, to |-> now]
    <3>1. gap \in Gap
      BY DEF FileInv, IdInv, BaseInv, TypeInv, TypeOK, Gap
    <3>2. \A k \in Keys : Has(active, k) => active'[k] = WithLiveGap(active[k], gap)
      BY <2>2 DEF TickAfterGap
    <3> HIDE DEF gap
    <3>3. \A k \in Keys : Has(active, k) => active[k] \in Incident
      BY <1>1 DEF Incidents, Has
    <3> QED
      BY <3>1, <3>2, <3>3, IdKept, WithLiveGapType, NoneAssumption DEF Has
  <2> QED
    BY <2>1, <2>2 DEF TickBegin, TickAborts, ReconcileBegin, ReconcileEnd, Flush, CloseApp
<1>4. OpenIds \subseteq OpenIds'
  BY <1>2, <1>3 DEF OpenIds, IdsIn, KeysOf
<1>5. Closing' = {}
  BY <1>2, NoAppend
<1> QED
  BY <1>2, <1>4, <1>5, OpenOrGone

LEMMA FilesObserve ==
    ASSUME FileInv, NEW k \in Keys, ObserveSensor(k)
    PROVE  FilesKept
<1>1. active \in Incidents
  BY DEF FileInv, IdInv, BaseInv, TypeInv, TypeOK
<1>2. /\ up /\ io = <<>> /\ now' = now /\ torn' = torn
      /\ snapshot' = snapshot /\ history' = history /\ pending' = pending
  BY DEF ObserveSensor, ReadNothing, ReadPending, ReadQuiet, OpenIncident,
     TouchIncident, CloseIncident, AtSensor, clockVars, procVars, diskVars
<1>3. ASSUME io' = <<>> \/ \E act, pend : io' = <<SaveOf(act, pend)>>,
             \A j \in Keys : Has(active, j) =>
                Has(active', j) /\ active'[j].id = active[j].id
      PROVE  FilesKept
  <2>1. OpenIds \subseteq OpenIds'
    BY <1>2, <1>3 DEF OpenIds, IdsIn, KeysOf
  <2> QED
    BY <1>2, <1>3, <2>1, NoAppend, OpenOrGone
<1>4. CASE ReadNothing(k) \/ \E r \in Zone : ReadPending(k, r) \/ ReadQuiet(k, r)
  <2>1. io' = <<>> /\ active' = active
    BY <1>2, <1>4 DEF ReadNothing, ReadPending, ReadQuiet
  <2> QED
    BY <1>3, <2>1
<1>5. ASSUME NEW r \in Zone, OpenIncident(k, r) PROVE FilesKept
  <2>1. io' = <<SaveOf(active', pending)>> /\ ~Has(active, k)
        /\ \A j \in Keys \ {k} : active'[j] = active[j]
    BY <1>1, <1>5 DEF OpenIncident, Incidents
  <2> QED
    BY <1>3, <2>1 DEF Has
<1>6. ASSUME NEW r \in Zone, TouchIncident(k, r) PROVE FilesKept
  <2>1. /\ io' = <<>> \/ io' = <<SaveOf(active', pending)>>
        /\ active' = [active EXCEPT ![k] = Touched(active[k], alerts'[k], now)]
        /\ Has(active, k)
    BY <1>6 DEF TouchIncident
  <2>2. active[k] \in Incident /\ now \in Nat /\ alerts'[k] \in Zone
    <3>1. Zoned(k, r)
      BY <1>6 DEF TouchIncident
    <3> QED
      BY <1>1, <2>1, <3>1, TypeZoned
         DEF FileInv, IdInv, BaseInv, TypeInv, TypeOK, Incidents, Has
  <2>3. /\ Touched(active[k], alerts'[k], now).id = active[k].id
        /\ Touched(active[k], alerts'[k], now) \in Incident
    BY <2>2, IdKept, TouchedType
  <2>4. \A j \in Keys : Has(active, j) => Has(active', j) /\ active'[j].id = active[j].id
    BY <1>1, <2>1, <2>3, NoneAssumption DEF Incidents, Has
  <2> QED
    BY <1>3, <2>1, <2>4
<1>7. ASSUME NEW r \in Zone, CloseIncident(k, r) PROVE FilesKept
  <2> DEFINE rec == ClosedLive(active[k], r, now)
  <2>1. /\ io' = <<AppendOf(rec), SaveOf(active', pending)>>
        /\ Has(active, k)
        /\ active' = [active EXCEPT ![k] = None]
    BY <1>7 DEF CloseIncident
  <2>2. rec.id = active[k].id
    BY <1>1, <2>1, IdKept DEF Incidents, Has
  <2> HIDE DEF rec
  <2>3. Closing' = {active[k].id}
    <3>1. AppendOf(rec).op = "append" /\ AppendOf(rec).rec = rec
      BY DEF AppendOf
    <3>2. io' # <<>> /\ Head(io') = AppendOf(rec)
      BY <2>1
    <3> QED
      BY <2>2, <3>1, <3>2 DEF Closing
  <2>4. \A j \in Keys \ {k} : active'[j] = active[j]
    BY <1>1, <2>1 DEF Incidents
  <2>5. OpenIds \subseteq OpenIds' \cup Closing'
    BY <1>2, <2>3, <2>4 DEF OpenIds, IdsIn, KeysOf, Has
  <2>6. active[k].id[1] = Component[k]
    BY <2>1 DEF FileInv, IdInv, OwnersInv, OwnedBy
  <2> QED
    BY <1>2, <2>3, <2>5, <2>6, OpenOrGone
<1> QED
  BY <1>4, <1>5, <1>6, <1>7 DEF ObserveSensor

LEMMA FilesReconcile ==
    ASSUME FileInv, NEW k \in Keys, Reconcile(k)
    PROVE  FilesKept
<1>1. active \in Incidents /\ pending \in Incidents /\ alerts \in [Keys -> Zone]
  BY DEF FileInv, IdInv, BaseInv, TypeInv, TypeOK
<1>2. /\ io = <<>> /\ now' = now /\ torn' = torn
      /\ snapshot' = snapshot /\ history' = history
      /\ Has(pending, k) /\ pending' = [pending EXCEPT ![k] = None]
      /\ up
  BY DEF Reconcile, ResumeRestored, CloseRestored, clockVars, diskVars,
     FileInv, IdInv, BaseInv, StoppedInv
<1>3. pending[k] \in Incident /\ RestartGap(k) \in Gap
  BY <1>1, <1>2 DEF Incidents, Has, Incident, RestartGap, Gap,
     FileInv, IdInv, BaseInv, TypeInv, TypeOK
<1>4. \A j \in Keys \ {k} : pending'[j] = pending[j]
  BY <1>1, <1>2 DEF Incidents
<1>5. CASE ResumeRestored(k)
  <2> DEFINE inc == Resumed(pending[k], RestartGap(k), alerts[k])
  <2>1. io' = <<>> /\ active' = [active EXCEPT ![k] = inc]
    BY <1>2, <1>5 DEF ResumeRestored
  <2>2. inc \in Incident /\ inc.id = pending[k].id
    BY <1>1, <1>3, ResumedType, IdKept
  <2> HIDE DEF inc
  <2>3. /\ ~Has(active, k)
        /\ Has(active', k) /\ active'[k].id = pending[k].id
        /\ \A j \in Keys \ {k} : active'[j] = active[j]
    BY <1>1, <1>2, <2>1, <2>2, NoneAssumption
       DEF Incidents, Has, FileInv, IdInv, AlertHasIncident
  <2>4. OpenIds \subseteq OpenIds'
    BY <1>4, <2>3 DEF OpenIds, IdsIn, KeysOf, Has
  <2> QED
    BY <1>2, <2>1, <2>4, NoAppend, OpenOrGone
<1>6. CASE CloseRestored(k)
  <2> DEFINE rec == ClosedAfterGap(pending[k], RestartGap(k), lastVal[k])
  <2>1. io' = <<AppendOf(rec)>> /\ active' = active
    BY <1>6 DEF CloseRestored
  <2>2. rec.id = pending[k].id
    BY <1>3, IdKept
  <2> HIDE DEF rec
  <2>3. Closing' = {pending[k].id}
    <3>1. AppendOf(rec).op = "append" /\ AppendOf(rec).rec = rec
      BY DEF AppendOf
    <3>2. io' # <<>> /\ Head(io') = AppendOf(rec)
      BY <2>1
    <3> QED
      BY <2>2, <3>1, <3>2 DEF Closing
  <2>4. OpenIds \subseteq OpenIds' \cup Closing'
    BY <1>4, <2>1, <2>3 DEF OpenIds, IdsIn, KeysOf, Has
  <2>5. pending[k].id[1] = Component[k]
    BY <1>2 DEF FileInv, IdInv, OwnersInv, OwnedBy
  <2> QED
    BY <1>2, <2>3, <2>4, <2>5, OpenOrGone
<1> QED
  BY <1>5, <1>6 DEF Reconcile

LEMMA FilesDisk ==
    ASSUME Durable, FileInv, AppendIncident \/ SaveSnapshot \/ WriteFails
    PROVE  FilesKept
<1>1. /\ io # <<>> /\ up /\ now' = now /\ up' = up
      /\ active' = active /\ pending' = pending
      /\ active \in Incidents /\ pending \in Incidents
      /\ io \in Seq(Op) /\ io' = Tail(io)
  BY DEF AppendIncident, SaveSnapshot, WriteFails, clockVars, procVars,
         FileInv, IdInv, BaseInv, TypeInv, TypeOK, StoppedInv, Op
<1>2. OpenIds' = OpenIds
  BY <1>1 DEF OpenIds
<1>3. Closing' = {}
  BY <1>1, ClosingDone DEF FileInv, IdInv
<1>4. CASE AppendIncident
  <2>1. /\ history' = Append(history, Head(io).rec) /\ torn' = FALSE
        /\ snapshot' = snapshot /\ Closing = {Head(io).rec.id}
    BY <1>1, <1>4 DEF AppendIncident, FileInv, Closing
  <2>2. HistoryIds' = HistoryIds \cup Closing
    <3>1. history \in Seq(Completed) /\ Head(io).rec \in Completed
      BY <1>1, <1>4, HeadOfIo
         DEF AppendIncident, FileInv, IdInv, BaseInv, TypeInv, TypeOK
    <3> QED
      BY <2>1, <3>1, IdsOfAppend DEF HistoryIds
  <2>3. Gone' = Gone /\ SnapshotIds' = SnapshotIds
    BY <1>3, <2>1, <2>2 DEF Gone, SnapshotIds
  <2> QED
    BY <1>1, <1>2, <2>1, <2>3 DEF FileInv, FilesKept, NothingForgotten, GoneOwned
<1>5. CASE SaveSnapshot
  <2>1. /\ history' = history /\ torn' = torn /\ Closing = {}
        /\ snapshot' = Merged(active, pending)
    BY <1>1, <1>5, WritesLeft DEF SaveSnapshot, Closing, FileInv, TrackInv,
       SavesAreCurrent
  <2>2. SnapshotIds' = OpenIds
    <3>1. \A k \in Keys : Has(active, k) => ~Has(pending, k)
      BY DEF FileInv, IdInv, AlertHasIncident
    <3>2. IdsIn(Merged(active, pending)) = OpenIds
      BY <1>1, <3>1, MergedIds DEF OpenIds
    <3> QED
      BY <2>1, <3>2 DEF SnapshotIds, IdsIn
  <2>3. Gone' = Gone
    BY <1>3, <2>1 DEF Gone, HistoryIds
  <2> QED
    BY <1>1, <1>2, <2>1, <2>2, <2>3
       DEF FileInv, FilesKept, NothingForgotten, GoneOwned
<1>6. ~WriteFails
  BY DEF WriteFails, Durable
<1> QED
  BY <1>4, <1>5, <1>6

\* Nothing has expired, so a start reads the whole history.
LEMMA StartKeepsHistory ==
    ASSUME Durable, FileInv, Start
    PROVE  history' = history /\ torn' = FALSE
<1>1. /\ history \in Seq(Completed) /\ DOMAIN history = 1 .. Len(history)
      /\ Len(history) \in Nat /\ now \in Nat /\ now <= MaxTime
  BY LenProperties DEF FileInv, IdInv, BaseInv, TypeInv, TypeOK
<1>2. ASSUME NEW i \in DOMAIN history PROVE ~Expired(history[i])
  <2>1. history[i] \in Completed
    BY <1>1, ElementOfSeq
  <2>2. history[i].end \in Nat
    BY <2>1 DEF Completed
  <2> QED
    BY <1>1, <2>2, ConstantsAssumption DEF Expired, Durable
<1>3. "save" \notin WriteFaults
  BY DEF Durable
<1>4. PICK n \in 0 .. Len(history) :
          /\ \A i \in DOMAIN history : Expired(history[i]) <=> i <= n
          /\ history' = SubSeq(history, n + 1, Len(history))
          /\ torn' = FALSE
  BY <1>3 DEF Start, LoadHistory
<1>5. n = 0
  <2>1. ASSUME n # 0 PROVE FALSE
    <3>1. 1 \in DOMAIN history /\ 1 <= n
      BY <1>1, <2>1
    <3> QED
      BY <1>2, <1>4, <3>1
  <2> QED
    BY <2>1
<1>6. history' = SubSeq(history, 1, Len(history))
  BY <1>4, <1>5
<1>7. history' \in Seq(Completed) /\ Len(history') = Len(history)
      /\ \A i \in 1 .. Len(history) : history'[i] = history[i]
  <2>1. \A i \in 1 .. Len(history) : history[i] \in Completed
    BY <1>1, ElementOfSeq
  <2> QED
    BY <1>1, <1>6, <2>1, SubSeqProperties
<1>8. history' = history
  BY <1>1, <1>7, SeqEqual
<1> QED
  BY <1>4, <1>8

LEMMA FilesEnvironment ==
    ASSUME Durable, FileInv, Advance \/ Crash \/ Start \/ Exit
    PROVE  FilesKept
<1>1. now \in Nat /\ now <= MaxTime /\ MaxTime \in Nat
  BY ConstantsAssumption DEF FileInv, IdInv, BaseInv, TypeInv, TypeOK
<1>2. CASE Advance
  <2>1. /\ now' = now + 1 /\ now < MaxTime /\ up' = up /\ torn' = torn
        /\ io' = io /\ active' = active /\ pending' = pending
        /\ snapshot' = snapshot /\ history' = history
    BY <1>2 DEF Advance, diskVars
  <2>2. OpenIds' = OpenIds /\ Gone' = Gone /\ SnapshotIds' = SnapshotIds
    BY <2>1 DEF OpenIds, Gone, HistoryIds, Closing, SnapshotIds
  <2> QED
    BY <1>1, <2>1, <2>2 DEF FileInv, FilesKept, NothingForgotten, GoneOwned
<1>3. CASE Crash \/ Exit
  <2>1. /\ now' = now /\ ~up' /\ io' = <<>> /\ history' = history
    BY <1>3 DEF Crash, Exit, Stopped, clockVars, diskVars
  <2>2. Gone' \subseteq Gone
    BY <2>1 DEF Gone, HistoryIds, Closing
  <2> QED
    BY <1>1, <2>1, <2>2 DEF FileInv, FilesKept, NothingForgotten, GoneOwned
<1>4. CASE Start
  <2>1. history' = history /\ torn' = FALSE
    BY <1>4, StartKeepsHistory
  <2>2. /\ now' = now /\ io' = <<>> /\ io = <<>> /\ snapshot' = snapshot
        /\ LoadSnapshot
    BY <1>4 DEF Start, FileInv, IdInv, BaseInv, StoppedInv
  <2>3. Gone' = Gone /\ HistoryIds \subseteq Gone
    BY <2>1, <2>2 DEF Gone, HistoryIds, Closing
  <2>4. ASSUME NEW k \in Keys, Has(snapshot, k), snapshot[k].id \notin HistoryIds
        PROVE  Has(pending', k) /\ pending'[k].id = snapshot[k].id
    BY <2>1, <2>2, <2>4 DEF LoadSnapshot, Has, HistoryIds
  <2>5. SnapshotIds' \subseteq OpenIds' \cup Gone'
    BY <2>2, <2>3, <2>4 DEF SnapshotIds, OpenIds, IdsIn, KeysOf
  <2> QED
    BY <1>1, <2>1, <2>2, <2>3, <2>5 DEF FileInv, FilesKept, NothingForgotten, GoneOwned
<1> QED
  BY <1>2, <1>3, <1>4

LEMMA FileNext == ASSUME Durable PROVE FileInv /\ [Next]_vars => FileInv'
<1> SUFFICES ASSUME FileInv, [Next]_vars PROVE FileInv'
  OBVIOUS
<1>1. IdInv' /\ TrackInv'
  BY IdNext, TrackNext DEF Durable, FileInv
<1>2. CASE UNCHANGED vars
  <2>1. FilesKept
    BY <1>2 DEF vars, FileInv, FilesKept, NothingForgotten, GoneOwned, OpenIds, IdsIn,
       KeysOf, Has, SnapshotIds, Gone, HistoryIds, Closing
  <2> QED
    BY <1>1, <2>1 DEF FileInv, FilesKept
<1>3. CASE Next
  <2>1. FilesKept
    BY <1>3, FilesEnvironment, FilesDisk, FilesTick, FilesObserve, FilesReconcile
       DEF Next
  <2> QED
    BY <1>1, <2>1 DEF FileInv, FilesKept
<1> QED
  BY <1>2, <1>3

LEMMA CompletedId == \A rec \in Completed : rec.id \in Id
BY DEF Completed

\* Every step of the engine that changes one of the files records or completes
\* incidents; and no other step is visible to the ledger.
LEMMA FileStep ==
    ASSUME Durable, FileInv, [Next]_vars
    PROVE  [Ledger!Next]_(Ledger!ledgerVars)
<1> DEFINE completed == [i \in DOMAIN history |-> history[i].id]
           recorded  == SnapshotIds \cup HistoryIds
<1>0. Ledger!Next <=> Ledger!Record \/ \E id \in LedgerIds : Ledger!Complete(id)
  BY DEF Ledger!Next, LedgerIds
<1>1. CASE history' = history /\ snapshot' = snapshot
  <2>1. UNCHANGED <<recorded, completed>>
    BY <1>1 DEF SnapshotIds, HistoryIds
  <2> QED
    BY <2>1 DEF Ledger!ledgerVars
<1>2. CASE SaveSnapshot
  <2>1. history' = history /\ Closing = {} /\ io # <<>>
    BY <1>2 DEF SaveSnapshot, Closing
  <2>2. /\ active' = active /\ pending' = pending /\ up
        /\ active \in Incidents /\ pending \in Incidents
        /\ snapshot' = Merged(active, pending)
    BY <1>2, WritesLeft DEF SaveSnapshot, FileInv, TrackInv, SavesAreCurrent,
       IdInv, BaseInv, TypeInv, TypeOK, StoppedInv, Op
  <2>3. SnapshotIds' = OpenIds
    <3>1. \A k \in Keys : Has(active, k) => ~Has(pending, k)
      BY DEF FileInv, IdInv, AlertHasIncident
    <3>2. IdsIn(Merged(active, pending)) = OpenIds
      BY <2>2, <3>1, MergedIds DEF OpenIds
    <3> QED
      BY <2>2, <3>2 DEF SnapshotIds, IdsIn
  <2>4. recorded \subseteq recorded'
    BY <2>1, <2>2, <2>3 DEF FileInv, NothingForgotten, Gone, HistoryIds
  <2>5. recorded' \subseteq LedgerIds
    BY <2>1, <2>3, SeenIds DEF Gone, HistoryIds
  <2>6. completed' = completed
    BY <2>1
  <2> HIDE DEF completed, recorded
  <2>7. Ledger!Record
    BY <2>4, <2>5, <2>6 DEF Ledger!Record, LedgerIds, completed, recorded
  <2> QED
    BY <1>0, <2>7
<1>3. CASE AppendIncident
  <2> DEFINE id == Head(io).rec.id
  <2>1. /\ io \in Seq(Op) /\ io # <<>> /\ up
        /\ history \in Seq(Completed) /\ Head(io).rec \in Completed
        /\ history' = Append(history, Head(io).rec) /\ snapshot' = snapshot
        /\ Closing = {id}
    <3>1. io \in Seq(Op) /\ io # <<>> /\ history \in Seq(Completed) /\ up
      BY <1>3 DEF AppendIncident, FileInv, IdInv, BaseInv, TypeInv, TypeOK,
         StoppedInv, Op
    <3> QED
      BY <1>3, <3>1, HeadOfIo DEF AppendIncident, FileInv, Closing
  <2>2. id \notin HistoryIds
    BY <2>1 DEF FileInv, IdInv
  <2>3. id \in LedgerIds
    <3>1. id \in Gone
      BY <2>1 DEF Gone
    <3> HIDE DEF id
    <3> QED
      BY <3>1, SeenIds
  <2>4. HistoryIds' = HistoryIds \cup {id} /\ SnapshotIds' = SnapshotIds
    BY <2>1, IdsOfAppend DEF HistoryIds, SnapshotIds
  <2>5. completed' = Append(completed, id)
    <3>1. /\ DOMAIN history = 1 .. Len(history) /\ Len(history) \in Nat
          /\ history' \in Seq(Completed) /\ Len(history') = Len(history) + 1
          /\ DOMAIN history' = 1 .. Len(history')
          /\ \A i \in 1 .. Len(history) : history'[i] = history[i]
          /\ history'[Len(history) + 1] = Head(io).rec
      BY <2>1, LenProperties, AppendProperties
    <3>2. /\ completed = [i \in 1 .. Len(history) |-> history[i].id]
          /\ completed' = [i \in 1 .. Len(history) + 1 |-> history'[i].id]
      BY <3>1
    <3>3. completed \in Seq(Id) /\ Len(completed) = Len(history)
      <4>1. \A i \in 1 .. Len(history) : history[i] \in Completed
        BY <2>1, ElementOfSeq
      <4>2. completed \in [1 .. Len(history) -> Id]
        BY <3>2, <4>1, CompletedId
      <4> QED
        BY <3>1, <3>2, <4>2, SeqDef, LenProperties
    <3>4. id \in Id
      BY <2>1 DEF Completed
    <3> HIDE DEF completed, id
    <3>5. /\ Append(completed, id) \in Seq(Id)
          /\ Len(Append(completed, id)) = Len(history) + 1
          /\ \A i \in 1 .. Len(history) : Append(completed, id)[i] = completed[i]
          /\ Append(completed, id)[Len(history) + 1] = id
      BY <3>3, <3>4, AppendProperties
    <3>6. completed' \in Seq(Id) /\ Len(completed') = Len(history) + 1
      <4>1. \A i \in 1 .. Len(history) + 1 : history'[i] \in Completed
        BY <3>1, ElementOfSeq
      <4>2. completed' \in [1 .. Len(history) + 1 -> Id]
        BY <3>2, <4>1, CompletedId
      <4> QED
        BY <3>1, <3>2, <4>2, SeqDef, LenProperties
    <3>7. \A i \in 1 .. Len(history) + 1 : completed'[i] = Append(completed, id)[i]
      BY <3>1, <3>2, <3>5 DEF id
    <3> QED
      BY <3>5, <3>6, <3>7, SeqEqual
  <2>6. \A i \in DOMAIN completed : completed[i] # id
    BY <2>2 DEF HistoryIds, IdsOf
  <2>7. recorded' = recorded \cup {id}
    BY <2>4
  <2> HIDE DEF completed, recorded, id
  <2>8. PICK i \in LedgerIds : i = id
    BY <2>3
  <2>9. Ledger!Complete(i)
    BY <2>5, <2>6, <2>7, <2>8 DEF Ledger!Complete, completed, recorded
  <2> QED
    BY <1>0, <2>9
<1>4. CASE Start
  <2>1. history' = history /\ snapshot' = snapshot
    BY <1>4, StartKeepsHistory DEF Start
  <2> QED
    BY <1>1, <2>1
<1>5. \/ SaveSnapshot \/ AppendIncident \/ Start
      \/ history' = history /\ snapshot' = snapshot
  BY DEF Next, vars, Advance, Crash, WriteFails, TickBegin, TickAfterGap, TickAborts,
     ObserveSensor, ReadNothing, ReadPending, ReadQuiet, OpenIncident, TouchIncident,
     CloseIncident, AtSensor, Reconcile, ResumeRestored, CloseRestored, ReconcileBegin,
     ReconcileEnd, Flush, CloseApp, Exit, diskVars
<1> QED
  BY <1>1, <1>2, <1>3, <1>4, <1>5

\* If writes succeed and nothing expires, the two files of the engine keep the
\* promise of the ledger whatever the program is killed in: what reached the disk
\* is never forgotten, and is completed once.
THEOREM TheFilesImplementTheLedger == ASSUME Durable PROVE Spec => ImplementsLedger
<1>1. Init => Ledger!Init
  <2> SUFFICES ASSUME Init PROVE Ledger!Init
    OBVIOUS
  <2>1. history = <<>> /\ DOMAIN history = {} /\ snapshot = Empty
    BY DEF Init
  <2>2. SnapshotIds \cup HistoryIds = {}
    BY <2>1, ComponentsOfTypes DEF SnapshotIds, KeysOf, HistoryIds, IdsOf
  <2>3. [i \in DOMAIN history |-> history[i].id] = <<>>
    BY <2>1
  <2> QED
    BY <2>2, <2>3 DEF Ledger!Init
<1>2. FileInv /\ [Next]_vars => [Ledger!Next]_(Ledger!ledgerVars)
  BY FileStep
<1>3. FileInv /\ [Next]_vars => FileInv'
  BY FileNext
<1> QED
  BY <1>1, <1>2, <1>3, FileInit, PTL DEF Spec, ImplementsLedger, Ledger!Spec

-----------------------------------------------------------------------------
(* What a completed record says of the time nobody watched is true, whoever*)
(* remembers that time.  A live incident has a gap for every outage it     *)
(* lived through; one that waits for reconciliation, or is in the file, may*)
(* miss those after it was last observed, which its closing gap covers.    *)

Covers(gaps, from, to) == \E i \in DOMAIN gaps : gaps[i].from <= from /\ to <= gaps[i].to

\* Gaps between start and end that begin by last, in order of their ends.
Orderly(gaps, start, last, end) ==
    \A i \in DOMAIN gaps :
        /\ start <= gaps[i].from /\ gaps[i].from <= last
        /\ gaps[i].from <= gaps[i].to /\ gaps[i].to <= end
        /\ \A j \in DOMAIN gaps : i < j => gaps[i].to < gaps[j].to

\* Every outage that inc lived through lies in one of its gaps.
LiveCovered(inc, outs) ==
    \A o \in outs : StartOf(inc) <= o.from /\ o.from < o.to => Covers(inc.gaps, o.from, o.to)

\* Or begins after it was last observed.
StoredCovered(inc, outs) ==
    \A o \in outs : StartOf(inc) <= o.from /\ o.from < o.to =>
        Covers(inc.gaps, o.from, o.to) \/ inc.lastObs <= o.from

EndCovered(rec, outs) ==
    \A o \in outs : StartOf(rec) <= o.from /\ o.from < o.to /\ o.to <= rec.end =>
        Covers(rec.gaps, o.from, o.to)

\* A record that ended after the last tick has a gap for the time since then.
Since(rec, t) == rec.end > t => Covers(rec.gaps, t, rec.end)

\* An incident as of time t, the last tick having been at tick.
Held(inc, tick, t) ==
    /\ StartOf(inc) <= inc.lastObs /\ inc.lastObs <= tick
    /\ Orderly(inc.gaps, StartOf(inc), tick, t)
    /\ inc.gapPending => inc.exact = "no" /\ inc.gaps # <<>>

\* The three promises of a completed record.
Honest(rec) ==
    /\ rec.reason # "recovered" =>
          /\ rec.exact = "no" /\ rec.gaps # <<>>
          /\ rec.lastAlert <= rec.gaps[Len(rec.gaps)].from
    /\ Orderly(rec.gaps, StartOf(rec), rec.end, rec.end)

\* What writes append to the history, and what they save.
AppendedBy(ops) == {ops[i].rec : i \in {j \in DOMAIN ops : ops[j].op = "append"}}
SavedBy(ops) == {ops[i].snap : i \in {j \in DOMAIN ops : ops[j].op = "save"}}

Ended == Records \cup AppendedBy(io)
Stored == {pending, snapshot} \cup SavedBy(io)

\* What is true of a completed record.
Told(rec) ==
    /\ rec.end <= now
    /\ EndCovered(rec, outages) /\ Since(rec, lastTick) /\ Honest(rec)

AuditInv ==
    /\ lastTick <= now
    /\ phase = "tick" => now = lastTick
    /\ phase = "reconcile" => startedAt < now
    /\ outages \subseteq Gap /\ \A o \in outages : o.to <= lastTick
    /\ \A k \in Keys : Has(active, k) =>
          Held(active[k], lastTick, now) /\ LiveCovered(active[k], outages)
    /\ \A d \in Stored : \A k \in Keys : Has(d, k) =>
          Held(d[k], lastTick, now) /\ StoredCovered(d[k], outages)
    /\ \A k \in Keys : Has(pending, k) =>
          \A i \in DOMAIN pending[k].gaps : pending[k].gaps[i].to <= startedAt
    /\ \A rec \in Ended : Told(rec)

\* AuditNext adds this to a step.
OutageStep ==
    outages' = IF OutageEnds
               THEN outages \cup {[from |-> lastTick, to |-> lastTick']} ELSE outages

\* The time since the last tick becomes an outage, as at a tick and a start.
NewOutage == outages \cup {[from |-> lastTick, to |-> now]}

LEMMA GapTimes ==
    ASSUME NEW gaps \in Seq(Gap)
    PROVE  \A i \in DOMAIN gaps : gaps[i].from \in Nat /\ gaps[i].to \in Nat
<1>1. \A i \in DOMAIN gaps : gaps[i] \in Gap
  BY LenProperties, ElementOfSeq
<1> QED
  BY <1>1 DEF Gap

\* What one more gap does.
LEMMA GapAppended ==
    ASSUME NEW gaps \in Seq(Gap), NEW gap \in Gap
    PROVE  /\ Append(gaps, gap) \in Seq(Gap) /\ Append(gaps, gap) # <<>>
           /\ Append(gaps, gap)[Len(Append(gaps, gap))] = gap
           /\ \A f, t : Covers(gaps, f, t) => Covers(Append(gaps, gap), f, t)
           /\ \A f, t \in Nat :
                 gap.from <= f /\ t <= gap.to => Covers(Append(gaps, gap), f, t)
<1> DEFINE new == Append(gaps, gap)
<1>1. /\ Len(gaps) \in Nat /\ DOMAIN gaps = 1 .. Len(gaps)
      /\ new \in Seq(Gap) /\ DOMAIN new = 1 .. Len(gaps) + 1 /\ Len(new) = Len(gaps) + 1
      /\ \A i \in 1 .. Len(gaps) : new[i] = gaps[i]
      /\ new[Len(gaps) + 1] = gap
  BY LenProperties, AppendProperties
<1> HIDE DEF new
<1>2. Len(gaps) + 1 \in DOMAIN new
  BY <1>1
<1>3. new # <<>>
  <2>1. DOMAIN <<>> = {}
    OBVIOUS
  <2> QED
    BY <1>2, <2>1
<1>4. \A i \in DOMAIN gaps : i \in DOMAIN new /\ new[i] = gaps[i]
  BY <1>1
<1>5. \A f, t : Covers(gaps, f, t) => Covers(new, f, t)
  BY <1>4 DEF Covers
<1>6. \A f, t \in Nat : gap.from <= f /\ t <= gap.to => Covers(new, f, t)
  BY <1>1, <1>2 DEF Covers
<1> QED
  BY <1>1, <1>3, <1>5, <1>6 DEF new

LEMMA OrderlyAppended ==
    ASSUME NEW gaps \in Seq(Gap), NEW gap \in Gap,
           NEW start \in Nat, NEW last \in Nat, NEW end \in Nat,
           Orderly(gaps, start, last, end),
           start <= gap.from, gap.from <= last, gap.from <= gap.to, gap.to <= end,
           \A i \in DOMAIN gaps : gaps[i].to < gap.to
    PROVE  Orderly(Append(gaps, gap), start, last, end)
<1> DEFINE new == Append(gaps, gap)
           n == Len(gaps) + 1
<1>1. /\ Len(gaps) \in Nat /\ DOMAIN gaps = 1 .. Len(gaps)
      /\ DOMAIN new = 1 .. Len(gaps) + 1
      /\ \A i \in 1 .. Len(gaps) : new[i] = gaps[i]
      /\ new[n] = gap
  BY LenProperties, AppendProperties
<1> HIDE DEF new
<1>2. /\ n \in Nat /\ \A i \in DOMAIN gaps : i \in Nat /\ i < n /\ new[i] = gaps[i]
      /\ \A i \in DOMAIN new : i = n \/ i \in DOMAIN gaps
  BY <1>1
<1> HIDE DEF n
<1>3. ASSUME NEW i \in DOMAIN new
      PROVE  /\ start <= new[i].from /\ new[i].from <= last
             /\ new[i].from <= new[i].to /\ new[i].to <= end
  BY <1>1, <1>2 DEF Orderly
<1>4. ASSUME NEW i \in DOMAIN new, NEW j \in DOMAIN new, i < j PROVE new[i].to < new[j].to
  <2>1. i \in DOMAIN gaps
    BY <1>2, <1>4
  <2>2. CASE j = n
    BY <1>1, <1>2, <2>1, <2>2
  <2>3. CASE j \in DOMAIN gaps
    BY <1>2, <1>4, <2>1, <2>3 DEF Orderly
  <2> QED
    BY <1>2, <2>2, <2>3
<1> QED
  BY <1>3, <1>4 DEF Orderly, new

LEMMA OrderlyLater ==
    ASSUME NEW gaps \in Seq(Gap), NEW start,
           NEW last \in Nat, NEW end \in Nat, NEW last2 \in Nat, NEW end2 \in Nat,
           last <= last2, end <= end2, Orderly(gaps, start, last, end)
    PROVE  Orderly(gaps, start, last2, end2)
BY GapTimes DEF Orderly

\* What an incident tells of time.
LEMMA IncidentTimes ==
    ASSUME NEW inc \in Incident
    PROVE  /\ StartOf(inc) \in Nat /\ inc.lastObs \in Nat /\ inc.gaps \in Seq(Gap)
           /\ inc.gapPending \in BOOLEAN
BY DEF Incident, Id, StartOf

LEMMA HeldLater ==
    ASSUME NEW inc \in Incident, NEW tick \in Nat, NEW t \in Nat, NEW tick2 \in Nat, NEW t2 \in Nat,
           tick <= tick2, t <= t2, Held(inc, tick, t)
    PROVE  Held(inc, tick2, t2)
BY IncidentTimes, OrderlyLater DEF Held

\* What is saved is what is held.
LEMMA MergedHeld ==
    ASSUME NEW act \in Incidents, NEW pend \in Incidents, NEW tick, NEW t, NEW outs,
           \A k \in Keys : Has(act, k) => Held(act[k], tick, t) /\ LiveCovered(act[k], outs),
           \A k \in Keys : Has(pend, k) => Held(pend[k], tick, t) /\ StoredCovered(pend[k], outs)
    PROVE  \A k \in Keys : Has(Merged(act, pend), k) =>
              /\ Held(Merged(act, pend)[k], tick, t)
              /\ StoredCovered(Merged(act, pend)[k], outs)
<1>1. ASSUME NEW inc \in Incident, Held(inc, tick, t), StoredCovered(inc, outs)
      PROVE  Held(Persistable(inc), tick, t) /\ StoredCovered(Persistable(inc), outs)
  <2> DEFINE new == Persistable(inc)
  <2>1. /\ new.id = inc.id /\ new.lastObs = inc.lastObs /\ new.gaps = inc.gaps
        /\ new.gapPending = FALSE
    BY DEF Persistable, Incident
  <2> HIDE DEF new
  <2>2. StartOf(new) = StartOf(inc)
    BY <2>1 DEF StartOf
  <2>3. Held(new, tick, t)
    BY <1>1, <2>1, <2>2 DEF Held
  <2>4. StoredCovered(new, outs)
    BY <1>1, <2>1, <2>2 DEF StoredCovered
  <2> QED
    BY <2>3, <2>4 DEF new
<1>2. \A k \in Keys : /\ Has(act, k) => act[k] \in Incident
                      /\ Has(pend, k) => pend[k] \in Incident
  BY DEF Incidents, Has
<1>3. \A k \in Keys : Has(act, k) => StoredCovered(act[k], outs)
  BY DEF LiveCovered, StoredCovered
<1>4. ASSUME NEW k \in Keys, Has(Merged(act, pend), k)
      PROVE  \/ Has(pend, k) /\ Merged(act, pend)[k] = Persistable(pend[k])
             \/ Has(act, k) /\ Merged(act, pend)[k] = Persistable(act[k])
  BY <1>4 DEF Merged, Has
<1> QED
  BY <1>1, <1>2, <1>3, <1>4

\* A suspend gives a live incident the gap that covers it, or it has one already.
LEMMA LiveGapHeld ==
    ASSUME NEW inc \in Incident, NEW tick \in Nat, NEW t \in Nat, NEW outs, tick < t,
           Held(inc, tick, t), LiveCovered(inc, outs), NEW gap, gap = [from |-> tick, to |-> t]
    PROVE  /\ Held(WithLiveGap(inc, gap), t, t)
           /\ LiveCovered(WithLiveGap(inc, gap), outs \cup {gap})
<1> DEFINE new == WithLiveGap(inc, gap)
<1>1. /\ StartOf(inc) \in Nat /\ inc.lastObs \in Nat /\ inc.gaps \in Seq(Gap)
      /\ gap \in Gap /\ gap.from = tick /\ gap.to = t
  BY IncidentTimes DEF Gap
<1>2. /\ StartOf(inc) <= inc.lastObs /\ inc.lastObs <= tick
      /\ Orderly(inc.gaps, StartOf(inc), tick, t)
  BY DEF Held
<1>3. Held(inc, t, t)
  BY HeldLater
<1>4. CASE \E i \in DOMAIN inc.gaps : inc.gaps[i].to = gap.to
  <2>1. new = inc
    BY <1>4 DEF WithLiveGap
  <2>2. PICK i \in DOMAIN inc.gaps : inc.gaps[i].to = gap.to
    BY <1>4
  <2>3. inc.gaps[i].from <= tick /\ t <= inc.gaps[i].to
    BY <1>1, <1>2, <2>2 DEF Orderly
  <2>4. Covers(inc.gaps, tick, t)
    BY <2>3 DEF Covers
  <2>5. LiveCovered(inc, outs \cup {gap})
    BY <1>1, <2>4 DEF LiveCovered
  <2> QED
    BY <1>3, <2>1, <2>5
<1>5. CASE ~\E i \in DOMAIN inc.gaps : inc.gaps[i].to = gap.to
  <2>0. new = [inc EXCEPT !.gaps = Append(inc.gaps, gap), !.exact = "no", !.gapPending = TRUE]
    BY <1>5 DEF WithLiveGap
  <2>1. /\ Append(inc.gaps, gap) \in Seq(Gap) /\ Append(inc.gaps, gap) # <<>>
        /\ \A f, u : Covers(inc.gaps, f, u) => Covers(Append(inc.gaps, gap), f, u)
        /\ \A f, u \in Nat :
              gap.from <= f /\ u <= gap.to => Covers(Append(inc.gaps, gap), f, u)
    BY <1>1, GapAppended
  <2>2. /\ new.id = inc.id /\ new.lastObs = inc.lastObs /\ new.gaps = Append(inc.gaps, gap)
        /\ new.exact = "no"
    BY <2>0 DEF Incident
  <2> HIDE DEF new
  <2>3. StartOf(new) = StartOf(inc)
    BY <2>2 DEF StartOf
  <2>4. Covers(new.gaps, tick, t)
    <3>1. gap.from <= tick /\ t <= gap.to
      BY <1>1
    <3>2. Covers(Append(inc.gaps, gap), tick, t)
      BY <2>1, <3>1
    <3> QED
      BY <2>2, <3>2
  <2>5. LiveCovered(new, outs \cup {gap})
    BY <1>1, <2>1, <2>2, <2>3, <2>4 DEF LiveCovered
  <2>6. \A i \in DOMAIN inc.gaps : inc.gaps[i].to < gap.to
    BY <1>1, <1>2, <1>5, GapTimes DEF Orderly
  <2>7. /\ Orderly(inc.gaps, StartOf(inc), t, t)
        /\ StartOf(inc) <= gap.from /\ gap.from <= t /\ gap.from <= gap.to /\ gap.to <= t
    BY <1>1, <1>2, <1>3 DEF Held
  <2>8. Orderly(new.gaps, StartOf(inc), t, t)
    BY <1>1, <2>2, <2>6, <2>7, OrderlyAppended
  <2>9. inc.lastObs <= t
    BY <1>1, <1>2
  <2> QED
    BY <1>2, <2>1, <2>2, <2>3, <2>5, <2>8, <2>9 DEF Held, new
<1> QED
  BY <1>4, <1>5

\* What is appended and saved by the writes a callback leaves to be made.
LEMMA WritesMade ==
    /\ AppendedBy(<<>>) = {} /\ SavedBy(<<>>) = {}
    /\ \A act, pend :
          /\ AppendedBy(<<SaveOf(act, pend)>>) = {}
          /\ SavedBy(<<SaveOf(act, pend)>>) = {Merged(act, pend)}
    /\ \A rec : /\ AppendedBy(<<AppendOf(rec)>>) = {rec}
                /\ SavedBy(<<AppendOf(rec)>>) = {}
    /\ \A rec, act, pend :
          /\ AppendedBy(<<AppendOf(rec), SaveOf(act, pend)>>) = {rec}
          /\ SavedBy(<<AppendOf(rec), SaveOf(act, pend)>>) = {Merged(act, pend)}
<1>0. /\ \A rec : AppendOf(rec).op = "append" /\ AppendOf(rec).rec = rec
      /\ \A act, pend : /\ SaveOf(act, pend).op = "save"
                        /\ SaveOf(act, pend).snap = Merged(act, pend)
  BY DEF AppendOf, SaveOf
<1>1. AppendedBy(<<>>) = {} /\ SavedBy(<<>>) = {}
  <2>1. DOMAIN <<>> = {}
    OBVIOUS
  <2> QED
    BY <2>1 DEF AppendedBy, SavedBy
<1>2. ASSUME NEW a
      PROVE  /\ a.op = "save" => AppendedBy(<<a>>) = {} /\ SavedBy(<<a>>) = {a.snap}
             /\ a.op = "append" => AppendedBy(<<a>>) = {a.rec} /\ SavedBy(<<a>>) = {}
  <2>1. DOMAIN <<a>> = {1} /\ <<a>>[1] = a
    OBVIOUS
  <2> QED
    BY <2>1 DEF AppendedBy, SavedBy
<1>3. ASSUME NEW a, NEW b, a.op = "append", b.op = "save"
      PROVE  AppendedBy(<<a, b>>) = {a.rec} /\ SavedBy(<<a, b>>) = {b.snap}
  <2>1. DOMAIN <<a, b>> = {1, 2} /\ <<a, b>>[1] = a /\ <<a, b>>[2] = b
    OBVIOUS
  <2> QED
    BY <1>3, <2>1 DEF AppendedBy, SavedBy
<1>4. ASSUME NEW act, NEW pend
      PROVE  /\ AppendedBy(<<SaveOf(act, pend)>>) = {}
             /\ SavedBy(<<SaveOf(act, pend)>>) = {Merged(act, pend)}
  BY <1>0, <1>2
<1>5. ASSUME NEW rec
      PROVE  AppendedBy(<<AppendOf(rec)>>) = {rec} /\ SavedBy(<<AppendOf(rec)>>) = {}
  BY <1>0, <1>2
<1>6. ASSUME NEW rec, NEW act, NEW pend
      PROVE  /\ AppendedBy(<<AppendOf(rec), SaveOf(act, pend)>>) = {rec}
             /\ SavedBy(<<AppendOf(rec), SaveOf(act, pend)>>) = {Merged(act, pend)}
  BY <1>0, <1>3
<1> QED
  BY <1>1, <1>4, <1>5, <1>6

LEMMA AuditTypes ==
    ASSUME BaseInv
    PROVE  /\ now \in Nat /\ lastTick \in Nat /\ startedAt \in Nat
           /\ active \in Incidents /\ pending \in Incidents /\ snapshot \in Incidents
           /\ io \in Seq(Op) /\ history \in Seq(Completed)
           /\ \A d \in Stored \cup {active} : \A k \in Keys : Has(d, k) => d[k] \in Incident
           /\ Ended \subseteq Completed
<1>1. /\ now \in Nat /\ lastTick \in Nat /\ startedAt \in Nat
      /\ active \in Incidents /\ pending \in Incidents /\ snapshot \in Incidents
      /\ io \in Seq(Op) /\ history \in Seq(Completed)
  BY DEF BaseInv, TypeInv, TypeOK, Op
<1>2. \A i \in DOMAIN io : io[i] \in Op
  BY <1>1, LenProperties, ElementOfSeq
<1>3. SavedBy(io) \subseteq Incidents /\ AppendedBy(io) \subseteq Completed
  BY <1>2 DEF SavedBy, AppendedBy, Op, AppendOp, SaveOp
<1>4. Records \subseteq Completed
  <2>1. \A i \in DOMAIN history : history[i] \in Completed
    BY <1>1, LenProperties, ElementOfSeq
  <2> QED
    BY <2>1 DEF Records
<1>5. \A d \in Incidents : \A k \in Keys : Has(d, k) => d[k] \in Incident
  BY DEF Incidents, Has
<1> QED
  BY <1>1, <1>3, <1>4, <1>5 DEF Stored, Ended

\* A callback that samples nothing, and what it makes of the incidents.
LEMMA AuditQuiet ==
    ASSUME BaseInv, AuditInv, UNCHANGED <<now, lastTick, outages>>,
           phase' = "tick" => now = lastTick,
           phase' = "reconcile" => startedAt' < now,
           startedAt' = startedAt \/ pending' = Empty,
           \A k \in Keys : Has(active', k) =>
              \/ Has(active, k) /\ active'[k] = active[k]
              \/ Held(active'[k], lastTick, now) /\ LiveCovered(active'[k], outages),
           \A k \in Keys : Has(pending', k) => Has(pending, k) /\ pending'[k] = pending[k],
           snapshot' \in Stored,
           \A d \in SavedBy(io') : \A k \in Keys : Has(d, k) =>
              d \in Stored \/ (Held(d[k], lastTick, now) /\ StoredCovered(d[k], outages)),
           \A rec \in Ended' : rec \in Ended \/ Told(rec)
    PROVE  AuditInv'
<1>1. /\ lastTick' <= now'
      /\ phase' = "tick" => now' = lastTick'
      /\ phase' = "reconcile" => startedAt' < now'
      /\ outages' \subseteq Gap /\ \A o \in outages' : o.to <= lastTick'
  BY DEF AuditInv
<1>2. \A k \in Keys : Has(active', k) =>
         Held(active'[k], lastTick', now') /\ LiveCovered(active'[k], outages')
  BY DEF AuditInv
<1>3. ASSUME NEW d \in Stored', NEW k \in Keys, Has(d, k)
      PROVE  Held(d[k], lastTick', now') /\ StoredCovered(d[k], outages')
  <2>1. \A e \in Stored : Has(e, k) =>
           Held(e[k], lastTick, now) /\ StoredCovered(e[k], outages)
    BY DEF AuditInv
  <2>2. d = pending' \/ d = snapshot' \/ d \in SavedBy(io')
    BY DEF Stored
  <2>3. CASE d = pending'
    BY <1>3, <2>1, <2>3 DEF Stored
  <2>4. CASE d = snapshot'
    BY <1>3, <2>1, <2>4
  <2>5. CASE d \in SavedBy(io')
    BY <1>3, <2>1, <2>5
  <2> QED
    BY <2>2, <2>3, <2>4, <2>5
<1>4. \A k \in Keys : Has(pending', k) =>
         \A i \in DOMAIN pending'[k].gaps : pending'[k].gaps[i].to <= startedAt'
  BY ComponentsOfTypes DEF AuditInv
<1>5. \A rec \in Ended' : Told(rec)'
  <2>1. \A rec \in Ended' : Told(rec)
    BY DEF AuditInv
  <2> QED
    BY <2>1 DEF Told, EndCovered, Since
<1> QED
  BY <1>1, <1>2, <1>3, <1>4, <1>5 DEF AuditInv

\* A sample is taken: the time since the last may have been an outage.
LEMMA AuditLater ==
    ASSUME BaseInv, AuditInv, NEW outs, outs \subseteq NewOutage
    PROVE  /\ outs \subseteq Gap /\ \A o \in outs : o.to <= now
           /\ \A k \in Keys : Has(active, k) => Held(active[k], now, now)
           /\ \A d \in Stored : \A k \in Keys : Has(d, k) =>
                 Held(d[k], now, now) /\ StoredCovered(d[k], outs)
           /\ \A rec \in Ended : /\ rec.end <= now /\ EndCovered(rec, outs)
                                 /\ Since(rec, now) /\ Honest(rec)
<1>1. /\ now \in Nat /\ lastTick \in Nat /\ lastTick <= now
      /\ outages \subseteq Gap /\ \A o \in outages : o.to <= lastTick
  BY AuditTypes DEF AuditInv
<1>2. outs \subseteq Gap /\ \A o \in outs : o.to <= now
  <2>1. \A o \in outages : o.from \in Nat /\ o.to \in Nat
    BY <1>1 DEF Gap
  <2>2. outs \subseteq outages \cup {[from |-> lastTick, to |-> now]}
    BY DEF NewOutage
  <2> QED
    BY <1>1, <2>1, <2>2 DEF Gap
<1>3. ASSUME NEW d \in Stored \cup {active}, NEW k \in Keys, Has(d, k)
      PROVE  Held(d[k], now, now)
  <2>1. d[k] \in Incident /\ Held(d[k], lastTick, now)
    BY <1>3, AuditTypes DEF AuditInv
  <2> QED
    BY <1>1, <2>1, HeldLater
<1>4. ASSUME NEW d \in Stored, NEW k \in Keys, Has(d, k) PROVE StoredCovered(d[k], outs)
  <2>1. StoredCovered(d[k], outages) /\ d[k].lastObs <= lastTick
    BY <1>4 DEF AuditInv, Held
  <2> QED
    BY <2>1 DEF StoredCovered, NewOutage
<1>5. ASSUME NEW rec \in Ended
      PROVE  rec.end <= now /\ EndCovered(rec, outs) /\ Since(rec, now) /\ Honest(rec)
  <2>1. rec.end \in Nat /\ Told(rec)
    BY AuditTypes DEF AuditInv, Completed
  <2>2. ASSUME lastTick < now, now <= rec.end PROVE Covers(rec.gaps, lastTick, now)
    <3>1. rec.end = now /\ rec.end > lastTick
      BY <1>1, <2>1, <2>2 DEF Told
    <3> QED
      BY <2>1, <3>1 DEF Told, Since
  <2>3. EndCovered(rec, outs)
    BY <2>1, <2>2 DEF Told, EndCovered, NewOutage
  <2>4. Since(rec, now)
    BY <1>1, <2>1 DEF Told, Since
  <2> QED
    BY <2>1, <2>3, <2>4 DEF Told
<1> QED
  BY <1>2, <1>3, <1>4, <1>5

\* A start reads what was saved, and no incident is live.
LEMMA AuditStart ==
    ASSUME BaseInv, AuditInv, OutageStep, Start PROVE AuditInv'
<1>1. /\ now' = now /\ lastTick' = now /\ startedAt' = now /\ phase' = "idle"
      /\ io' = <<>> /\ active' = Empty /\ snapshot' = snapshot
      /\ now \in Nat /\ lastTick \in Nat /\ lastTick <= now
  BY AuditTypes DEF Start, BaseInv, StoppedInv, AuditInv
<1>2. outages' \subseteq NewOutage
  BY <1>1 DEF OutageStep, NewOutage
<1>3. /\ outages' \subseteq Gap /\ \A o \in outages' : o.to <= now
      /\ \A d \in Stored : \A k \in Keys : Has(d, k) =>
            Held(d[k], now, now) /\ StoredCovered(d[k], outages')
      /\ \A rec \in Ended : /\ rec.end <= now /\ EndCovered(rec, outages')
                            /\ Since(rec, now) /\ Honest(rec)
  BY <1>2, AuditLater
<1>4. \A k \in Keys : Has(pending', k) => Has(snapshot, k) /\ pending'[k] = snapshot[k]
  BY DEF Start, LoadSnapshot, Has
<1>5. ASSUME NEW k \in Keys, Has(pending', k), NEW i \in DOMAIN pending'[k].gaps
      PROVE  pending'[k].gaps[i].to <= startedAt'
  <2>1. Held(snapshot[k], now, now)
    BY <1>3, <1>4, <1>5 DEF Stored
  <2> QED
    BY <1>1, <1>4, <1>5, <2>1 DEF Held, Orderly
<1>6. ASSUME NEW d \in Stored', NEW k \in Keys, Has(d, k)
      PROVE  Held(d[k], now, now) /\ StoredCovered(d[k], outages')
  <2>1. d = pending' \/ d = snapshot
    BY <1>1, WritesMade DEF Stored
  <2>2. Has(snapshot, k) /\ d[k] = snapshot[k]
    BY <1>4, <1>6, <2>1
  <2> QED
    BY <1>3, <2>2 DEF Stored
<1>7. Ended' \subseteq Ended
  <2>1. TypeOK /\ LoadHistory
    BY DEF BaseInv, TypeInv, Start
  <2>2. PICK n \in Nat : \A i \in DOMAIN history' :
                 i + n \in DOMAIN history /\ history'[i] = history[i + n]
    BY <2>1, LoadHistoryKeeps
  <2>3. Records' \subseteq Records
    BY <2>2 DEF Records
  <2> QED
    BY <1>1, <2>3, WritesMade DEF Ended
<1>8. \A rec \in Ended' : Told(rec)'
  BY <1>1, <1>3, <1>7 DEF Told
<1>9. \A k \in Keys : ~Has(active', k)
  BY <1>1, ComponentsOfTypes
<1>10. lastTick' <= now' /\ outages' \subseteq Gap /\ \A o \in outages' : o.to <= lastTick'
  BY <1>1, <1>3
<1> QED
  BY <1>1, <1>5, <1>6, <1>8, <1>9, <1>10 DEF AuditInv

\* A tick: after a suspend, every live incident takes the gap.
LEMMA AuditTick ==
    ASSUME BaseInv, AuditInv, OutageStep, TickBegin \/ TickAfterGap PROVE AuditInv'
<1>1. /\ now' = now /\ lastTick' = now /\ startedAt' = startedAt /\ phase' = "tick"
      /\ up /\ up' /\ io = <<>> /\ lastTick < now
      /\ pending' = pending /\ snapshot' = snapshot /\ history' = history
      /\ now \in Nat /\ lastTick \in Nat /\ lastTick <= now
  <2>1. /\ now \in Nat /\ lastTick \in Nat /\ GapThreshold \in Nat /\ GapThreshold > 0
    BY AuditTypes, ConstantsAssumption
  <2>2. lastTick < now
    BY <2>1 DEF TickBegin, TickAfterGap
  <2> QED
    BY <2>1, <2>2 DEF TickBegin, TickAfterGap, Idle, clockVars, procVars, diskVars
<1>2. outages' \subseteq NewOutage
  BY <1>1 DEF OutageStep, NewOutage
<1>3. /\ outages' \subseteq Gap /\ \A o \in outages' : o.to <= now
      /\ \A k \in Keys : Has(active, k) => Held(active[k], now, now)
      /\ \A d \in Stored : \A k \in Keys : Has(d, k) =>
            Held(d[k], now, now) /\ StoredCovered(d[k], outages')
      /\ \A rec \in Ended : /\ rec.end <= now /\ EndCovered(rec, outages')
                            /\ Since(rec, now) /\ Honest(rec)
  BY <1>2, AuditLater
<1>4. \A k \in Keys : Has(active', k) =>
         Held(active'[k], now, now) /\ LiveCovered(active'[k], outages')
  <2>1. CASE TickBegin
    <3>1. active' = active /\ ~(lastTick' - lastTick >= GapThreshold)
      BY <1>1, <2>1, ConstantsAssumption DEF TickBegin
    <3>2. outages' = outages
      BY <1>1, <3>1 DEF OutageStep, OutageEnds
    <3> QED
      BY <1>3, <3>1, <3>2 DEF AuditInv
  <2>2. CASE TickAfterGap
    <3> DEFINE gap == [from |-> lastTick, to |-> now]
    <3>1. outages' = outages \cup {gap}
      BY <1>1, <2>2 DEF TickAfterGap, OutageStep, OutageEnds
    <3>2. \A k \in Keys : Has(active', k) =>
             Has(active, k) /\ active'[k] = WithLiveGap(active[k], gap)
      BY <2>2 DEF TickAfterGap, Has
    <3>3. \A k \in Keys : Has(active, k) =>
             /\ active[k] \in Incident
             /\ Held(active[k], lastTick, now) /\ LiveCovered(active[k], outages)
      BY AuditTypes DEF AuditInv
    <3> HIDE DEF gap
    <3>4. \A k \in Keys : Has(active, k) =>
             /\ Held(WithLiveGap(active[k], gap), now, now)
             /\ LiveCovered(WithLiveGap(active[k], gap), outages \cup {gap})
      BY <1>1, <3>3, LiveGapHeld DEF gap
    <3> QED
      BY <3>1, <3>2, <3>4
  <2> QED
    BY <2>1, <2>2
<1>5. AppendedBy(io') = {} /\ \A d \in SavedBy(io') : d = Merged(active', pending)
  <2>1. io' = <<>> \/ io' = <<SaveOf(active', pending)>>
    BY <1>1 DEF TickBegin, TickAfterGap
  <2> QED
    BY <2>1, WritesMade
<1>6. ASSUME NEW d \in Stored', NEW k \in Keys, Has(d, k)
      PROVE  Held(d[k], now, now) /\ StoredCovered(d[k], outages')
  <2>1. CASE d \in {pending, snapshot}
    BY <1>3, <1>6, <2>1 DEF Stored
  <2>2. CASE d = Merged(active', pending)
    <3>1. active' \in Incidents
      BY TypeNext DEF BaseInv, TypeInv, TypeOK, Next
    <3>2. \A j \in Keys : Has(pending, j) =>
             Held(pending[j], now, now) /\ StoredCovered(pending[j], outages')
      BY <1>3 DEF Stored
    <3>3. pending \in Incidents
      BY AuditTypes
    <3> QED
      BY <1>4, <1>6, <2>2, <3>1, <3>2, <3>3, MergedHeld
  <2> QED
    BY <1>1, <1>5, <2>1, <2>2 DEF Stored
<1>7. Ended' \subseteq Ended
  BY <1>1, <1>5 DEF Ended, Records
<1>8. \A rec \in Ended' : Told(rec)'
  BY <1>1, <1>3, <1>7 DEF Told
<1>9. \A k \in Keys : Has(pending', k) =>
         \A i \in DOMAIN pending'[k].gaps : pending'[k].gaps[i].to <= startedAt'
  BY <1>1 DEF AuditInv
<1>10. lastTick' <= now' /\ outages' \subseteq Gap /\ \A o \in outages' : o.to <= lastTick'
  BY <1>1, <1>3
<1> QED
  BY <1>1, <1>4, <1>6, <1>8, <1>9, <1>10 DEF AuditInv

\* No outage ends in a step in which no sample is taken.
LEMMA OutagesKept ==
    ASSUME BaseInv, OutageStep, lastTick' = lastTick, up' = up \/ ~up' PROVE outages' = outages
<1>1. lastTick \in Nat /\ GapThreshold \in Nat /\ GapThreshold > 0
  BY AuditTypes, ConstantsAssumption
<1>2. up \in BOOLEAN
  BY DEF BaseInv, TypeInv, TypeOK
<1>3. ~OutageEnds
  BY <1>1, <1>2 DEF OutageEnds
<1> QED
  BY <1>3 DEF OutageStep

\* With the gap of the restart, every outage is covered, and the time since the last
\* tick as well.
LEMMA RestartCovers ==
    ASSUME BaseInv, AuditInv, NEW k \in Keys, Has(pending, k), phase = "reconcile"
    PROVE  LET gaps == Append(pending[k].gaps, RestartGap(k))
           IN  /\ gaps \in Seq(Gap) /\ gaps # <<>>
               /\ gaps[Len(gaps)] = RestartGap(k)
               /\ \A o \in outages : StartOf(pending[k]) <= o.from /\ o.from < o.to =>
                     Covers(gaps, o.from, o.to)
               /\ Covers(gaps, lastTick, now)
               /\ Orderly(gaps, StartOf(pending[k]), lastTick, now)
<1> DEFINE gap == RestartGap(k)
           inc == pending[k]
           gaps == Append(inc.gaps, gap)
<1>1. /\ now \in Nat /\ lastTick \in Nat /\ startedAt \in Nat /\ lastTick <= now
      /\ startedAt < now /\ inc \in Incident
  BY AuditTypes DEF AuditInv, Stored
<1>2. /\ StartOf(inc) \in Nat /\ inc.lastObs \in Nat /\ inc.gaps \in Seq(Gap)
  BY <1>1, IncidentTimes
<1>3. gap \in Gap /\ gap.from = inc.lastObs /\ gap.to = now
  BY <1>1, <1>2 DEF RestartGap, Gap
<1>4. /\ Held(inc, lastTick, now) /\ StoredCovered(inc, outages)
      /\ \A i \in DOMAIN inc.gaps : inc.gaps[i].to <= startedAt
  BY DEF AuditInv, Stored
<1>5. /\ outages \subseteq Gap /\ \A o \in outages : o.to <= lastTick
  BY DEF AuditInv
<1> HIDE DEF gap, inc
<1>6. /\ gaps \in Seq(Gap) /\ gaps # <<>> /\ gaps[Len(gaps)] = gap
      /\ \A f, t : Covers(inc.gaps, f, t) => Covers(gaps, f, t)
      /\ \A f, t \in Nat : gap.from <= f /\ t <= gap.to => Covers(gaps, f, t)
  BY <1>2, <1>3, GapAppended
<1>7. Orderly(gaps, StartOf(inc), lastTick, now)
  <2>1. \A i \in DOMAIN inc.gaps : inc.gaps[i].to < gap.to
    BY <1>1, <1>2, <1>3, <1>4, GapTimes
  <2>2. /\ Orderly(inc.gaps, StartOf(inc), lastTick, now)
        /\ StartOf(inc) <= gap.from /\ gap.from <= lastTick
        /\ gap.from <= gap.to /\ gap.to <= now
    BY <1>1, <1>2, <1>3, <1>4 DEF Held
  <2> QED
    BY <1>1, <1>2, <1>3, <2>1, <2>2, OrderlyAppended
<1> HIDE DEF gaps
<1>8. ASSUME NEW o \in outages, StartOf(inc) <= o.from, o.from < o.to
      PROVE  Covers(gaps, o.from, o.to)
  <2>1. o.from \in Nat /\ o.to \in Nat /\ o.to <= gap.to
    BY <1>1, <1>3, <1>5 DEF Gap
  <2>2. Covers(inc.gaps, o.from, o.to) \/ gap.from <= o.from
    BY <1>3, <1>4, <1>8 DEF StoredCovered
  <2> QED
    BY <1>6, <2>1, <2>2
<1>9. Covers(gaps, lastTick, now)
  <2>1. gap.from <= lastTick /\ now <= gap.to
    BY <1>1, <1>3, <1>4 DEF Held
  <2> QED
    BY <1>1, <1>6, <2>1
<1> QED
  BY <1>6, <1>7, <1>8, <1>9 DEF gaps, gap, inc

\* What is saved of what is held.
LEMMA SavedHeld ==
    ASSUME BaseInv, AuditInv, NEW act \in Incidents,
           \A k \in Keys : Has(act, k) =>
              \/ Has(active, k) /\ act[k] = active[k]
              \/ Held(act[k], lastTick, now) /\ LiveCovered(act[k], outages)
    PROVE  \A k \in Keys : Has(Merged(act, pending), k) =>
              /\ Held(Merged(act, pending)[k], lastTick, now)
              /\ StoredCovered(Merged(act, pending)[k], outages)
<1>1. \A k \in Keys : Has(act, k) =>
         Held(act[k], lastTick, now) /\ LiveCovered(act[k], outages)
  BY DEF AuditInv
<1>2. pending \in Incidents /\ \A k \in Keys : Has(pending, k) =>
         Held(pending[k], lastTick, now) /\ StoredCovered(pending[k], outages)
  BY AuditTypes DEF AuditInv, Stored
<1> QED
  BY <1>1, <1>2, MergedHeld

\* A write that is made, or fails, was pending.
LEMMA AuditDisk ==
    ASSUME BaseInv, AuditInv, OutageStep, AppendIncident \/ SaveSnapshot \/ WriteFails
    PROVE  AuditInv'
<1>1. /\ io \in Seq(Op) /\ io # <<>> /\ io' = Tail(io)
      /\ now' = now /\ lastTick' = lastTick /\ up' = up /\ startedAt' = startedAt
      /\ phase' = phase /\ active' = active /\ pending' = pending
      /\ history \in Seq(Completed)
  BY AuditTypes DEF AppendIncident, SaveSnapshot, WriteFails, clockVars, procVars
<1>2. outages' = outages
  BY <1>1, OutagesKept
<1>3. /\ \A i \in DOMAIN io' : i + 1 \in DOMAIN io /\ io'[i] = io[i + 1]
      /\ 1 \in DOMAIN io /\ Head(io) = io[1]
  BY <1>1, WritesLeft
<1>4. AppendedBy(io') \subseteq AppendedBy(io) /\ SavedBy(io') \subseteq SavedBy(io)
  BY <1>3 DEF AppendedBy, SavedBy
<1>5. snapshot' = snapshot \/ snapshot' \in SavedBy(io)
  BY <1>3 DEF AppendIncident, SaveSnapshot, WriteFails, SavedBy
<1>6. Records' \subseteq Ended
  <2>1. CASE history' = history
    BY <2>1 DEF Records, Ended
  <2>2. CASE AppendIncident /\ history' = Append(history, Head(io).rec)
    <3> DEFINE rec == Head(io).rec
    <3>1. rec \in AppendedBy(io)
      BY <1>3, <2>2 DEF AppendIncident, AppendedBy
    <3>2. rec \in Completed
      BY <3>1, AuditTypes DEF Ended
    <3>3. history' = Append(history, rec)
      BY <2>2
    <3> HIDE DEF rec
    <3>4. /\ DOMAIN history = 1 .. Len(history)
          /\ DOMAIN history' = 1 .. Len(history) + 1 /\ Len(history) \in Nat
          /\ \A i \in 1 .. Len(history) : history'[i] = history[i]
          /\ history'[Len(history) + 1] = rec
      BY <1>1, <3>2, <3>3, AppendProperties, LenProperties
    <3> QED
      BY <3>1, <3>4 DEF Records, Ended
  <2> QED
    BY <2>1, <2>2 DEF AppendIncident, SaveSnapshot, WriteFails
<1>7. \A rec \in Ended' : rec \in Ended
  BY <1>4, <1>6 DEF Ended
<1>8. snapshot' \in Stored /\ \A d \in SavedBy(io') : d \in Stored
  BY <1>4, <1>5 DEF Stored
<1> QED
  BY <1>1, <1>2, <1>7, <1>8, AuditQuiet DEF AuditInv

\* A sensor is read at the moment of the last tick.
LEMMA AuditObserve ==
    ASSUME BaseInv, AuditInv, OutageStep, NEW k \in Keys, ObserveSensor(k)
    PROVE  AuditInv'
<1>1. /\ up /\ phase = "tick" /\ io = <<>>
      /\ now' = now /\ lastTick' = lastTick /\ up' = up /\ startedAt' = startedAt
      /\ pending' = pending /\ snapshot' = snapshot /\ history' = history
      /\ phase' \in {"idle", "tick"}
  BY DEF ObserveSensor, ReadNothing, ReadPending, ReadQuiet, OpenIncident, TouchIncident,
     CloseIncident, AtSensor, Advanced, clockVars, procVars, diskVars
<1>2. /\ now \in Nat /\ lastTick = now /\ outages' = outages
      /\ active \in Incidents /\ active' \in Incidents
  <2>1. TypeInv'
    BY TypeNext DEF BaseInv, Next
  <2> QED
    BY <1>1, <2>1, AuditTypes, OutagesKept DEF AuditInv, TypeInv, TypeOK
<1>3. /\ \A j \in Keys : Has(active, j) =>
            /\ active[j] \in Incident
            /\ Held(active[j], lastTick, now) /\ LiveCovered(active[j], outages)
      /\ outages \subseteq Gap /\ \A o \in outages : o.to <= lastTick
  BY AuditTypes DEF AuditInv
<1>4. /\ phase' = "tick" => now = lastTick
      /\ ~(phase' = "reconcile")
      /\ snapshot' \in Stored
      /\ \A j \in Keys : Has(pending', j) => Has(pending, j) /\ pending'[j] = pending[j]
  BY <1>1, <1>2 DEF Stored
<1>5. CASE ReadNothing(k) \/ \E r \in Zone : ReadPending(k, r) \/ ReadQuiet(k, r)
  <2>1. active' = active /\ io' = io
    BY <1>5 DEF ReadNothing, ReadPending, ReadQuiet
  <2>2. Ended' = Ended /\ SavedBy(io') = {}
    BY <1>1, <2>1, WritesMade DEF Ended, Records
  <2> QED
    BY <1>1, <1>2, <1>4, <2>1, <2>2, AuditQuiet
<1>6. ASSUME NEW new, active' = [active EXCEPT ![k] = new],
             io' = <<>> \/ io' = <<SaveOf(active', pending)>>,
             Held(new, lastTick, now), LiveCovered(new, outages)
      PROVE  AuditInv'
  <2>1. \A j \in Keys : Has(active', j) =>
           \/ Has(active, j) /\ active'[j] = active[j]
           \/ Held(active'[j], lastTick, now) /\ LiveCovered(active'[j], outages)
    BY <1>2, <1>6 DEF Incidents, Has
  <2>2. AppendedBy(io') = {} /\ \A d \in SavedBy(io') : d = Merged(active', pending)
    BY <1>6, WritesMade
  <2>3. \A j \in Keys : Has(Merged(active', pending), j) =>
           /\ Held(Merged(active', pending)[j], lastTick, now)
           /\ StoredCovered(Merged(active', pending)[j], outages)
    BY <1>2, <2>1, SavedHeld
  <2>4. \A rec \in Ended' : rec \in Ended
    BY <1>1, <2>2 DEF Ended, Records
  <2> QED
    BY <1>1, <1>2, <1>4, <2>1, <2>2, <2>3, <2>4, AuditQuiet
<1>7. ASSUME NEW r \in Zone, OpenIncident(k, r) PROVE AuditInv'
  <2> DEFINE new == NewIncident(k, alerts'[k], now)
  <2>1. active' = [active EXCEPT ![k] = new] /\ io' = <<SaveOf(active', pending)>>
    BY <1>7 DEF OpenIncident
  <2>2. /\ StartOf(new) = now /\ new.lastObs = now /\ new.gaps = <<>>
        /\ new.gapPending = FALSE
    BY DEF NewIncident, StartOf
  <2> HIDE DEF new
  <2>3. Held(new, lastTick, now)
    <3>1. DOMAIN <<>> = {}
      OBVIOUS
    <3>2. Orderly(<<>>, now, lastTick, now)
      BY <3>1 DEF Orderly
    <3> QED
      BY <1>2, <2>2, <3>2 DEF Held
  <2>4. LiveCovered(new, outages)
    <3>1. \A o \in outages : ~(now <= o.from /\ o.from < o.to)
      BY <1>2, <1>3 DEF Gap
    <3> QED
      BY <2>2, <3>1 DEF LiveCovered
  <2> QED
    BY <1>6, <2>1, <2>3, <2>4
<1>8. ASSUME NEW r \in Zone, TouchIncident(k, r) PROVE AuditInv'
  <2> DEFINE inc == active[k]
             new == Touched(inc, alerts'[k], now)
  <2>1. /\ Has(active, k) /\ active' = [active EXCEPT ![k] = new]
        /\ io' = <<>> \/ io' = <<SaveOf(active', pending)>>
    BY <1>8 DEF TouchIncident
  <2>2. inc \in Incident /\ Held(inc, lastTick, now) /\ LiveCovered(inc, outages)
    BY <1>3, <2>1
  <2> HIDE DEF inc
  <2>3. /\ StartOf(new) = StartOf(inc) /\ new.lastObs = now /\ new.gaps = inc.gaps
        /\ new.gapPending = FALSE
    BY <2>2 DEF Touched, Incident, StartOf
  <2> HIDE DEF new
  <2>4. Held(new, lastTick, now)
    <3>1. StartOf(inc) <= now
      BY <1>2, <2>2, IncidentTimes DEF Held
    <3> QED
      BY <1>2, <2>2, <2>3, <3>1 DEF Held
  <2>5. LiveCovered(new, outages)
    BY <2>2, <2>3 DEF LiveCovered
  <2> QED
    BY <1>6, <2>1, <2>4, <2>5
<1>9. ASSUME NEW r \in Zone, CloseIncident(k, r) PROVE AuditInv'
  <2> DEFINE inc == active[k]
             rec == ClosedLive(inc, r, now)
  <2>1. /\ Has(active, k) /\ active' = [active EXCEPT ![k] = None]
        /\ io' = <<AppendOf(rec), SaveOf(active', pending)>>
    BY <1>9 DEF CloseIncident
  <2>2. inc \in Incident /\ Held(inc, lastTick, now) /\ LiveCovered(inc, outages)
    BY <1>3, <2>1
  <2>3. /\ rec.id = inc.id /\ rec.end = now /\ rec.gaps = inc.gaps
        /\ rec.exact = IF inc.exact = "unset" THEN "yes" ELSE inc.exact
        /\ rec.reason = IF inc.gapPending THEN "recovered_during_gap" ELSE "recovered"
        /\ rec.lastAlert = IF inc.gapPending THEN inc.gaps[Len(inc.gaps)].from ELSE Absent
    BY DEF ClosedLive
  <2> HIDE DEF inc, rec
  <2>4. StartOf(rec) = StartOf(inc) /\ inc.gaps \in Seq(Gap)
    BY <2>2, <2>3, IncidentTimes DEF StartOf
  <2>5. Told(rec)
    <3>1. EndCovered(rec, outages)
      BY <2>2, <2>3, <2>4 DEF LiveCovered, EndCovered
    <3>2. Since(rec, lastTick) /\ rec.end <= now
      BY <1>2, <2>3 DEF Since
    <3>3. Orderly(rec.gaps, StartOf(rec), rec.end, rec.end)
      BY <1>2, <2>2, <2>3, <2>4 DEF Held
    <3>4. ASSUME rec.reason # "recovered"
          PROVE  /\ rec.exact = "no" /\ rec.gaps # <<>>
                 /\ rec.lastAlert <= rec.gaps[Len(rec.gaps)].from
      <4>1. inc.gapPending /\ inc.exact = "no" /\ inc.gaps # <<>>
        BY <2>2, <2>3, <3>4 DEF Held
      <4>2. inc.gaps[Len(inc.gaps)].from \in Nat
        <5>1. Len(inc.gaps) \in DOMAIN inc.gaps
          BY <2>4, <4>1, LenProperties, EmptySeq
        <5> QED
          BY <2>4, <5>1, GapTimes
      <4>3. rec.exact = "no" /\ rec.lastAlert = inc.gaps[Len(inc.gaps)].from
        BY <2>3, <4>1
      <4> QED
        BY <2>3, <4>1, <4>2, <4>3
    <3> QED
      BY <3>1, <3>2, <3>3, <3>4 DEF Told, Honest
  <2>6. \A j \in Keys : Has(active', j) => Has(active, j) /\ active'[j] = active[j]
    BY <1>2, <2>1 DEF Incidents, Has
  <2>7. AppendedBy(io') = {rec} /\ SavedBy(io') = {Merged(active', pending)}
    <3> DEFINE act == active'
               ops == <<AppendOf(rec), SaveOf(act, pending)>>
    <3>1. io' = ops
      BY <2>1
    <3> HIDE DEF act
    <3>2. AppendedBy(ops) = {rec} /\ SavedBy(ops) = {Merged(act, pending)}
      BY WritesMade
    <3> QED
      BY <3>1, <3>2 DEF act
  <2>8. \A j \in Keys : Has(Merged(active', pending), j) =>
           /\ Held(Merged(active', pending)[j], lastTick, now)
           /\ StoredCovered(Merged(active', pending)[j], outages)
    BY <1>2, <2>6, SavedHeld
  <2>9. \A old \in Ended' : old \in Ended \/ Told(old)
    BY <1>1, <2>5, <2>7 DEF Ended, Records
  <2> QED
    BY <1>1, <1>2, <1>4, <2>6, <2>7, <2>8, <2>9, AuditQuiet
<1> QED
  BY <1>5, <1>7, <1>8, <1>9 DEF ObserveSensor

\* The reconciliation takes place after the start.
LEMMA AuditReconcile ==
    ASSUME BaseInv, AuditInv, OutageStep, NEW k \in Keys, Reconcile(k)
    PROVE  AuditInv'
<1> DEFINE inc == pending[k]
           gap == RestartGap(k)
           gaps == Append(inc.gaps, gap)
<1>1. /\ Has(pending, k) /\ phase = "reconcile" /\ io = <<>>
      /\ now' = now /\ lastTick' = lastTick /\ up' = up /\ startedAt' = startedAt
      /\ phase' = phase /\ snapshot' = snapshot /\ history' = history
      /\ pending' = [pending EXCEPT ![k] = None]
  BY DEF Reconcile, ResumeRestored, CloseRestored, clockVars, procVars, diskVars
<1>2. /\ now \in Nat /\ lastTick \in Nat /\ lastTick <= now
      /\ active \in Incidents /\ pending \in Incidents
      /\ inc \in Incident /\ Held(inc, lastTick, now)
  BY <1>1, AuditTypes DEF AuditInv, Stored
<1>3. outages' = outages
  BY <1>1, OutagesKept
<1>4. /\ gaps \in Seq(Gap) /\ gaps # <<>>
      /\ gaps[Len(gaps)] = gap
      /\ \A o \in outages : StartOf(inc) <= o.from /\ o.from < o.to =>
            Covers(gaps, o.from, o.to)
      /\ Covers(gaps, lastTick, now)
      /\ Orderly(gaps, StartOf(inc), lastTick, now)
  BY <1>1, RestartCovers
<1>5. gap.from = inc.lastObs /\ gap.to = now
  BY DEF RestartGap
<1>6. StartOf(inc) \in Nat /\ inc.lastObs \in Nat
  BY <1>2, IncidentTimes
<1> HIDE DEF inc, gap, gaps
<1>7. /\ phase' = "tick" => now = lastTick
      /\ phase' = "reconcile" => startedAt' < now
      /\ snapshot' \in Stored
      /\ \A j \in Keys : Has(pending', j) => Has(pending, j) /\ pending'[j] = pending[j]
  BY <1>1, <1>2 DEF AuditInv, Stored, Incidents, Has
<1>8. CASE ResumeRestored(k)
  <2> DEFINE new == Resumed(inc, gap, alerts[k])
  <2>1. active' = [active EXCEPT ![k] = new] /\ io' = <<>>
    BY <1>1, <1>8 DEF ResumeRestored, inc, gap
  <2>2. /\ StartOf(new) = StartOf(inc) /\ new.lastObs = inc.lastObs /\ new.gaps = gaps
        /\ new.exact = inc.exact /\ new.gapPending = inc.gapPending
    BY <1>2 DEF Resumed, Incident, StartOf, gaps
  <2> HIDE DEF new
  <2>3. Held(new, lastTick, now) /\ LiveCovered(new, outages)
    BY <1>2, <1>4, <2>2 DEF Held, LiveCovered
  <2>4. \A j \in Keys : Has(active', j) =>
           \/ Has(active, j) /\ active'[j] = active[j]
           \/ Held(active'[j], lastTick, now) /\ LiveCovered(active'[j], outages)
    BY <1>2, <2>1, <2>3 DEF Incidents, Has
  <2>5. SavedBy(io') = {} /\ Ended' = Ended
    BY <1>1, <2>1, WritesMade DEF Ended, Records
  <2> QED
    BY <1>1, <1>3, <1>7, <2>4, <2>5, AuditQuiet
<1>9. CASE CloseRestored(k)
  <2> DEFINE rec == ClosedAfterGap(inc, gap, lastVal[k])
  <2>1. active' = active /\ io' = <<AppendOf(rec)>>
    BY <1>9 DEF CloseRestored, inc, gap
  <2>2. /\ StartOf(rec) = StartOf(inc) /\ rec.end = now /\ rec.gaps = gaps
        /\ rec.exact = "no" /\ rec.lastAlert = inc.lastObs
    BY <1>5 DEF ClosedAfterGap, StartOf, gaps
  <2> HIDE DEF rec
  <2>3. Told(rec)
    <3>1. EndCovered(rec, outages) /\ Since(rec, lastTick)
      BY <1>4, <2>2 DEF EndCovered, Since
    <3>2. Orderly(gaps, StartOf(inc), now, now)
      BY <1>2, <1>4, <1>6, OrderlyLater
    <3>3. rec.end <= now /\ rec.lastAlert <= rec.gaps[Len(rec.gaps)].from
      BY <1>2, <1>4, <1>5, <1>6, <2>2
    <3> QED
      BY <1>4, <2>2, <3>1, <3>2, <3>3 DEF Told, Honest
  <2>4. AppendedBy(io') = {rec} /\ SavedBy(io') = {}
    BY <2>1, WritesMade
  <2>5. \A old \in Ended' : old \in Ended \/ Told(old)
    BY <1>1, <2>3, <2>4 DEF Ended, Records
  <2> QED
    BY <1>1, <1>3, <1>7, <2>1, <2>4, <2>5, AuditQuiet
<1> QED
  BY <1>8, <1>9 DEF Reconcile

\* The other steps leave the incidents as they are; time only goes on between two
\* callbacks.
LEMMA AuditOther ==
    ASSUME ReconcileDelay > 0, BaseInv, AuditInv, OutageStep,
           \/ Crash \/ Exit \/ TickAborts
           \/ ReconcileBegin \/ ReconcileEnd \/ Flush \/ CloseApp
    PROVE  AuditInv'
<1>1. /\ UNCHANGED <<now, lastTick, snapshot, history>>
      /\ up' = up \/ ~up'
      /\ phase' = phase \/ phase' \in {"idle", "closing"} \/ ReconcileBegin
      /\ startedAt' = startedAt \/ pending' = Empty
      /\ active' = active \/ active' = Empty
      /\ pending' = pending \/ pending' = Empty
      /\ io' = <<>> \/ io' = io \/ io' = <<SaveOf(active, pending)>>
  BY DEF Crash, Exit, Stopped, TickAborts, ReconcileBegin, ReconcileEnd, Flush, CloseApp,
     clockVars, procVars, diskVars
<1>2. outages' = outages
  BY <1>1, OutagesKept
<1>3. /\ phase' = "tick" => now = lastTick
      /\ phase' = "reconcile" => startedAt' < now
  <2>1. CASE ReconcileBegin
    <3>1. /\ now \in Nat /\ startedAt \in Nat /\ ReconcileDelay \in Nat
      BY AuditTypes, ConstantsAssumption
    <3>2. now >= startedAt + ReconcileDelay /\ startedAt' = startedAt
      BY <2>1 DEF ReconcileBegin
    <3>3. startedAt' < now
      BY <3>1, <3>2
    <3>4. phase' \in {"idle", "reconcile"}
      BY <2>1 DEF ReconcileBegin
    <3> QED
      BY <3>3, <3>4
  <2>2. CASE Crash \/ Exit
    BY <2>2 DEF Crash, Exit, Stopped
  <2>3. CASE TickAborts \/ ReconcileEnd \/ Flush \/ CloseApp
    BY <2>3 DEF TickAborts, ReconcileEnd, Flush, CloseApp, Idle
  <2> QED
    BY <2>1, <2>2, <2>3
<1>4. /\ \A k \in Keys : Has(active', k) => Has(active, k) /\ active'[k] = active[k]
      /\ \A k \in Keys : Has(pending', k) => Has(pending, k) /\ pending'[k] = pending[k]
  BY <1>1, ComponentsOfTypes
<1>5. /\ AppendedBy(io') \subseteq AppendedBy(io)
      /\ \A d \in SavedBy(io') : d \in SavedBy(io) \/ d = Merged(active, pending)
  BY <1>1, WritesMade
<1>6. \A k \in Keys : Has(Merged(active, pending), k) =>
         /\ Held(Merged(active, pending)[k], lastTick, now)
         /\ StoredCovered(Merged(active, pending)[k], outages)
  BY AuditTypes, SavedHeld
<1>7. \A rec \in Ended' : rec \in Ended
  BY <1>1, <1>5 DEF Ended, Records
<1>8. \A d \in SavedBy(io') : \A k \in Keys : Has(d, k) =>
         d \in Stored \/ (Held(d[k], lastTick, now) /\ StoredCovered(d[k], outages))
  BY <1>5, <1>6 DEF Stored
<1>9. snapshot' \in Stored
  BY <1>1 DEF Stored
<1> QED
  BY <1>1, <1>2, <1>3, <1>4, <1>7, <1>8, <1>9, AuditQuiet

LEMMA AuditAdvance ==
    ASSUME BaseInv, AuditInv, OutageStep, Advance PROVE AuditInv'
<1>1. /\ now' = now + 1 /\ lastTick' = lastTick /\ up' = up /\ startedAt' = startedAt
      /\ phase' = phase /\ active' = active /\ pending' = pending /\ io' = io
      /\ snapshot' = snapshot /\ history' = history
  BY DEF Advance, diskVars
<1>2. phase = "idle"
  BY DEF Advance, Idle, BaseInv, StoppedInv
<1>3. outages' = outages /\ Ended' = Ended /\ Stored' = Stored
  BY <1>1, OutagesKept DEF Ended, Stored, Records
<1>4. /\ now \in Nat /\ lastTick \in Nat /\ now' \in Nat /\ now <= now' /\ lastTick <= now'
      /\ \A rec \in Ended : rec.end \in Nat
  BY <1>1, AuditTypes DEF AuditInv, Completed
<1>5. ASSUME NEW d \in Stored \cup {active}, NEW k \in Keys, Has(d, k)
      PROVE  Held(d[k], lastTick', now')
  <2>1. d[k] \in Incident /\ Held(d[k], lastTick, now) /\ lastTick <= lastTick
    BY <1>4, <1>5, AuditTypes DEF AuditInv
  <2> QED
    BY <1>1, <1>4, <2>1, HeldLater
<1>6. \A rec \in Ended' : Told(rec)'
  <2>1. \A rec \in Ended : Told(rec)
    BY DEF AuditInv
  <2>2. \A rec \in Ended : rec.end <= now'
    BY <1>4, <2>1 DEF Told
  <2> QED
    BY <1>1, <1>3, <2>1, <2>2 DEF Told
<1>7. /\ phase' # "tick" /\ phase' # "reconcile" /\ lastTick' <= now'
      /\ outages' \subseteq Gap /\ \A o \in outages' : o.to <= lastTick'
  BY <1>1, <1>2, <1>3, <1>4 DEF AuditInv
<1>8. /\ \A k \in Keys : Has(active', k) => LiveCovered(active'[k], outages')
      /\ \A d \in Stored' : \A k \in Keys : Has(d, k) => StoredCovered(d[k], outages')
      /\ \A k \in Keys : Has(pending', k) =>
            \A i \in DOMAIN pending'[k].gaps : pending'[k].gaps[i].to <= startedAt'
  BY <1>1, <1>3 DEF AuditInv
<1> QED
  BY <1>1, <1>3, <1>5, <1>6, <1>7, <1>8 DEF AuditInv

LEMMA AuditPreserved ==
    ASSUME ReconcileDelay > 0
    PROVE  BaseInv /\ AuditInv /\ [AuditNext]_auditVars => BaseInv' /\ AuditInv'
<1> SUFFICES ASSUME BaseInv, AuditInv, [AuditNext]_auditVars PROVE BaseInv' /\ AuditInv'
  OBVIOUS
<1>1. CASE UNCHANGED auditVars
  <2>1. UNCHANGED vars /\ outages' = outages
    BY <1>1 DEF auditVars
  <2>2. BaseInv'
    BY <2>1, BaseNext
  <2>3. AuditInv'
    BY <2>1 DEF vars, AuditInv, Ended, Stored, Records, Told
  <2> QED
    BY <2>2, <2>3
<1>2. CASE AuditNext
  <2>1. Next /\ OutageStep
    BY <1>2 DEF AuditNext, OutageStep
  <2>2. BaseInv'
    BY <2>1, BaseNext
  <2>3. AuditInv'
    BY <2>1, AuditAdvance, AuditStart, AuditDisk, AuditTick, AuditObserve, AuditReconcile,
       AuditOther DEF Next
  <2> QED
    BY <2>2, <2>3
<1> QED
  BY <1>1, <1>2

LEMMA AuditBegins == AuditInit => BaseInv /\ AuditInv
<1> SUFFICES ASSUME AuditInit PROVE BaseInv /\ AuditInv
  OBVIOUS
<1>1. BaseInv
  BY BaseInit DEF AuditInit
<1>2. /\ outages = {} /\ phase = "idle" /\ io = <<>> /\ history = <<>> /\ now = 0 /\ lastTick = 0
      /\ active = Empty /\ pending = Empty /\ snapshot = Empty
  BY DEF AuditInit, Init
<1>3. Ended = {}
  <2>1. DOMAIN <<>> = {}
    OBVIOUS
  <2> QED
    BY <1>2, <2>1, WritesMade DEF Ended, Records
<1>4. Stored = {Empty}
  BY <1>2, WritesMade DEF Stored
<1> QED
  BY <1>1, <1>2, <1>3, <1>4, ComponentsOfTypes DEF AuditInv

\* Whatever the sequence of suspends, kills, failed writes and restarts, a completed
\* record hides none of the time nobody watched: each such interval the incident was
\* open through lies in a gap of the record, a recovery nobody saw has no exact
\* duration, and the gaps are intervals of the incident's life in order of their ends.
\* The last needs the reconciliation to come later than the start, as it does
\* (RECONCILE_DELAY_MS is 8000).
THEOREM CompletedRecordsAreHonest ==
    ASSUME ReconcileDelay > 0 PROVE AuditSpec => []OutagesAreTrue
<1>1. AuditInv => OutagesAreTrue
  <2> SUFFICES ASSUME AuditInv PROVE OutagesAreTrue
    OBVIOUS
  <2>1. \A rec \in Records : Told(rec)
    BY DEF AuditInv, Ended
  <2>2. EveryOutageIsRecorded
    BY <2>1 DEF EveryOutageIsRecorded, OutagesOf, Told, EndCovered, Covers
  <2>3. UncertainRecoveryIsInexact
    BY <2>1 DEF UncertainRecoveryIsInexact, Told, Honest
  <2>4. GapsWithinIncident
    BY <2>1 DEF GapsWithinIncident, Told, Honest, Orderly
  <2> QED
    BY <2>2, <2>3, <2>4 DEF OutagesAreTrue
<1> QED
  BY <1>1, AuditBegins, AuditPreserved, PTL DEF AuditSpec
=============================================================================
