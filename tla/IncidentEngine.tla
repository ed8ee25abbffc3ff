--------------------------- MODULE IncidentEngine ---------------------------
(***************************************************************************)
(* The incident engine of app.py: the debounced alerts of a set of         *)
(* sensors, the incidents opened, updated and closed from them on every    *)
(* monitoring tick, and the two files that make incidents survive a close, *)
(* a crash or a suspend.                                                   *)
(*                                                                         *)
(* Everything here runs on the Tk thread, one callback after the other, so *)
(* two callbacks never interleave.  What does interleave is the disk: each *)
(* write a callback makes is a step of its own, and the process can be     *)
(* killed, and a write can fail, between any two of them.                  *)
(***************************************************************************)
EXTENDS Zones, Sequences

CONSTANTS
    NKeys,          \* sensors, in the order update_data visits them
    Component,      \* the component of a sensor (several DIMMs are one "ram")
    Readings,       \* the readings a sensor can show
    SkipsNone,      \* sensors update_data leaves out of a tick without reading
    RedDebounced,   \* sensors whose RED waits like any other zone (network)
    ReconcileDelay, \* RECONCILE_DELAY_MS
    GapThreshold,   \* MONITORING_DISCONTINUITY_S
    Retention,      \* INCIDENT_RETENTION_DAYS
    WriteFaults,    \* the kinds of write that may raise OSError
    None,           \* the absence of a dictionary entry
    MaxTime,        \* bound on the clock
    MaxStarts       \* bound on the number of times the program is started

Keys == 1 .. NKeys

ASSUME ConstantsAssumption ==
    /\ NKeys \in Nat \ {0}
    /\ Component \in [Keys -> Nat]
    /\ Readings \in [Keys -> SUBSET Reading]
    /\ SkipsNone \subseteq Keys
    /\ RedDebounced \subseteq Keys
    /\ ReconcileDelay \in Nat
    /\ GapThreshold \in Nat \ {0}
    /\ Retention \in Nat
    /\ WriteFaults \subseteq {"append", "save"}
    /\ MaxTime \in Nat
    /\ MaxStarts \in Nat

VARIABLES
    now,         \* the wall clock
    starts,      \* how often the program was started
    \* volatile state of the running program
    up,          \* is it running?
    startedAt,   \* when it was started
    phase,       \* what the Tk thread is doing
    cursor,      \* the next sensor of the tick under way
    lastTick,    \* _last_tick_wall_time
    zones,       \* *_zone_state: debounce state of every sensor
    alerts,      \* active_alerts: the zone alerted, GREEN when there is none
    lastVal,     \* last_component_values
    active,      \* incidents_active
    pending,     \* incident_restore_pending
    dirty,       \* _active_incidents_dirty
    reconciled,  \* has the one-shot reconcile timer fired?
    io,          \* writes the current callback has still to make
    \* the disk
    history,     \* INCIDENTS_PATH: completed incidents, oldest first
    torn,        \* does it end in half a line?
    snapshot     \* ACTIVE_INCIDENTS_PATH: incidents not completed yet

clockVars == <<now, starts>>
diskVars  == <<history, torn, snapshot>>
procVars  == <<up, startedAt, reconciled>>
vars == <<now, starts, up, startedAt, phase, cursor, lastTick, zones, alerts,
          lastVal, active, pending, dirty, reconciled, io, history, torn, snapshot>>

-----------------------------------------------------------------------------
\* Incidents.
Id  == Nat \X Nat                        \* f"{component}-{int(now * 1000)}"
Gap == [from : Nat, to : Nat]            \* last_sample_before, first_sample_after

Exactness == {"unset", "no", "yes"}      \* duration_exact, "unset" while absent
Reason == {"recovered", "recovered_during_gap", "sensor_unavailable"}
Absent == -1                             \* a timestamp the record does not have

Incident == [id : Id, max : Zone, lastObs : Nat, gaps : Seq(Gap),
             exact : Exactness, gapPending : BOOLEAN]

ASSUME NoneAssumption == None \notin Incident

\* incidents_active, incident_restore_pending and the active file are
\* dictionaries from sensors to incidents.
Incidents == [Keys -> Incident \cup {None}]
Empty     == [k \in Keys |-> None]
Has(d, k) == d[k] # None
KeysOf(d) == {k \in Keys : Has(d, k)}

Completed == [id : Id, max : Zone, lastObs : Nat, gaps : Seq(Gap),
              exact : Exactness, end : Nat, reason : Reason,
              lastAlert : Nat \cup {Absent}, recovered : Reading]

\* id is <<component, start_timestamp>>.
StartOf(inc) == inc.id[2]

\* The operators named Bug... are mutants, as in Zones.

\* The identifier does not say when the incident started.
BugNewIncident(k, zone, t) ==
    [id |-> <<Component[k], 0>>, max |-> zone, lastObs |-> t, gaps |-> <<>>,
     exact |-> "unset", gapPending |-> FALSE]

NewIncident(k, zone, t) ==
    [id |-> <<Component[k], t>>, max |-> zone, lastObs |-> t, gaps |-> <<>>,
     exact |-> "unset", gapPending |-> FALSE]

Escalates(inc, zone) == zone > inc.max

Touched(inc, zone, t) ==
    [inc EXCEPT !.max = IF Escalates(inc, zone) THEN zone ELSE @,
                !.lastObs = t,
                !.gapPending = FALSE]

\* Only the first gap of an incident is recorded.
BugWithLiveGap(inc, gap) ==
    IF inc.gaps # <<>> THEN inc
    ELSE [inc EXCEPT !.gaps = Append(@, gap), !.exact = "no", !.gapPending = TRUE]

\* _append_gap_once and what _incidents_record_live_gap does with it.
WithLiveGap(inc, gap) ==
    IF \E i \in DOMAIN inc.gaps : inc.gaps[i].to = gap.to
    THEN inc
    ELSE [inc EXCEPT !.gaps = Append(@, gap), !.exact = "no", !.gapPending = TRUE]

\* Resumes without looking at the zone alerted now.
BugResumed(inc, gap, zone) == [inc EXCEPT !.gaps = Append(@, gap)]

\* The still-alerting branch of _reconcile_restored_incidents.
Resumed(inc, gap, zone) ==
    [inc EXCEPT !.gaps = Append(@, gap),
                !.max = IF Escalates(inc, zone) THEN zone ELSE @]

\* _incident_close.
ClosedLive(inc, value, t) ==
    [id |-> inc.id, max |-> inc.max, lastObs |-> inc.lastObs, gaps |-> inc.gaps,
     exact |-> IF inc.exact = "unset" THEN "yes" ELSE inc.exact,
     end |-> t,
     reason |-> IF inc.gapPending THEN "recovered_during_gap" ELSE "recovered",
     lastAlert |-> IF inc.gapPending THEN inc.gaps[Len(inc.gaps)].from ELSE Absent,
     recovered |-> value]

\* Leaves duration_exact to its default.
BugClosedExact(inc, gap, value) ==
    [id |-> inc.id, max |-> inc.max, lastObs |-> inc.lastObs,
     gaps |-> Append(inc.gaps, gap),
     exact |-> IF inc.exact = "unset" THEN "yes" ELSE inc.exact,
     end |-> gap.to,
     reason |-> IF value = NoReading THEN "sensor_unavailable"
                                     ELSE "recovered_during_gap",
     lastAlert |-> gap.from,
     recovered |-> value]

\* Ends the incident where it was last observed.
BugClosedEarly(inc, gap, value) ==
    [id |-> inc.id, max |-> inc.max, lastObs |-> inc.lastObs,
     gaps |-> Append(inc.gaps, gap),
     exact |-> "no",
     end |-> gap.from,
     reason |-> IF value = NoReading THEN "sensor_unavailable"
                                     ELSE "recovered_during_gap",
     lastAlert |-> gap.from,
     recovered |-> value]

\* _close_incident_after_gap.
ClosedAfterGap(inc, gap, value) ==
    [id |-> inc.id, max |-> inc.max, lastObs |-> inc.lastObs,
     gaps |-> Append(inc.gaps, gap),
     exact |-> "no",
     end |-> gap.to,
     reason |-> IF value = NoReading THEN "sensor_unavailable"
                                     ELSE "recovered_during_gap",
     lastAlert |-> gap.from,
     recovered |-> value]

\* _incident_to_persistable: _live_gap_pending never reaches the file.
Persistable(inc) == [inc EXCEPT !.gapPending = FALSE]

\* Saves only the incidents that were reconciled.
BugMerged(act, pend) ==
    [k \in Keys |-> IF Has(act, k) THEN Persistable(act[k]) ELSE None]

\* What _save_active_incidents writes: active, overridden by pending.
Merged(act, pend) ==
    [k \in Keys |-> IF Has(pend, k) THEN Persistable(pend[k])
                    ELSE IF Has(act, k) THEN Persistable(act[k])
                    ELSE None]

IdsOf(hist) == {hist[i].id : i \in DOMAIN hist}
HistoryIds == IdsOf(history)
SnapshotIds == {snapshot[k].id : k \in KeysOf(snapshot)}

AppendOp == [op : {"append"}, rec : Completed]
SaveOp   == [op : {"save"}, snap : Incidents]

AppendOf(rec) == [op |-> "append", rec |-> rec]
SaveOf(act, pend) == [op |-> "save", snap |-> Merged(act, pend)]

-----------------------------------------------------------------------------
\* Nothing is left of the program but its files.
Stopped ==
    /\ up' = FALSE
    /\ phase' = "idle"
    /\ cursor' = 1
    /\ zones' = [k \in Keys |-> ColdZone(0)]
    /\ alerts' = [k \in Keys |-> GREEN]
    /\ lastVal' = [k \in Keys |-> NoReading]
    /\ active' = Empty
    /\ pending' = Empty
    /\ dirty' = FALSE
    /\ reconciled' = FALSE
    /\ io' = <<>>
    /\ startedAt' = 0

Init ==
    /\ now = 0
    /\ starts = 0
    /\ up = FALSE
    /\ startedAt = 0
    /\ phase = "idle"
    /\ cursor = 1
    /\ lastTick = 0
    /\ zones = [k \in Keys |-> ColdZone(0)]
    /\ alerts = [k \in Keys |-> GREEN]
    /\ lastVal = [k \in Keys |-> NoReading]
    /\ active = Empty
    /\ pending = Empty
    /\ dirty = FALSE
    /\ reconciled = FALSE
    /\ io = <<>>
    /\ history = <<>>
    /\ torn = FALSE
    /\ snapshot = Empty

\* The Tk loop is between two callbacks; and a callback has the disk to itself.
Idle == up /\ phase = "idle" /\ io = <<>>

-----------------------------------------------------------------------------
\* Environment.

Advance ==
    /\ Idle \/ ~up
    /\ now < MaxTime
    /\ now' = now + 1
    /\ UNCHANGED <<starts, up, startedAt, phase, cursor, lastTick, zones, alerts,
                   lastVal, active, pending, dirty, reconciled, io, diskVars>>

\* A kill or a power cut; a write to the history under way may be cut in two.
Crash ==
    /\ up
    /\ Stopped
    /\ \/ torn' = torn
       \/ io # <<>> /\ Head(io).op = "append" /\ torn' = TRUE
    /\ UNCHANGED <<clockVars, lastTick, history, snapshot>>

Expired(rec) == rec.end + Retention < now

\* load_incidents reads the lines that parse, drops the expired ones (the oldest,
\* for lines are appended in the order incidents end) and rewrites the file.  If
\* the rewrite fails the file stays as it is.
LoadHistory ==
    \/ \E n \in 0 .. Len(history) :
          /\ \A i \in DOMAIN history : Expired(history[i]) <=> i <= n
          /\ history' = SubSeq(history, n + 1, Len(history))
          /\ torn' = FALSE
    \/ "save" \in WriteFaults /\ UNCHANGED <<history, torn>>

\* No idempotency guard.
BugLoadSnapshot == pending' = snapshot

\* load_active_incidents drops what the history it can still read already has.
LoadSnapshot ==
    pending' = [k \in Keys |->
                  IF Has(snapshot, k) /\ snapshot[k].id \notin IdsOf(history')
                  THEN snapshot[k] ELSE None]

\* __init__ and build.
Start ==
    /\ ~up
    /\ starts < MaxStarts
    /\ now + ReconcileDelay <= MaxTime
    /\ starts' = starts + 1
    /\ up' = TRUE
    /\ startedAt' = now
    /\ lastTick' = now
    /\ zones' = [k \in Keys |-> ColdZone(now)]
    /\ LoadHistory
    /\ LoadSnapshot
    /\ UNCHANGED <<now, phase, cursor, alerts, lastVal, active, dirty, reconciled,
                   io, snapshot>>

-----------------------------------------------------------------------------
\* The disk: the writes of a callback, one at a time.

AppendIncident ==
    /\ io # <<>>
    /\ Head(io).op = "append"
    \* a line appended to half a line is part of that unreadable line
    /\ history' = IF torn THEN history ELSE Append(history, Head(io).rec)
    /\ torn' = FALSE
    /\ io' = Tail(io)
    /\ UNCHANGED <<clockVars, procVars, phase, cursor, lastTick, zones, alerts,
                   lastVal, active, pending, dirty, snapshot>>

SaveSnapshot ==
    /\ io # <<>>
    /\ Head(io).op = "save"
    /\ snapshot' = Head(io).snap
    /\ io' = Tail(io)
    /\ UNCHANGED <<clockVars, procVars, phase, cursor, lastTick, zones, alerts,
                   lastVal, active, pending, dirty, history, torn>>

\* OSError is caught and ignored by _persist_incident and _save_active_incidents.
WriteFails ==
    /\ io # <<>>
    /\ Head(io).op \in WriteFaults
    /\ io' = Tail(io)
    /\ \/ torn' = torn
       \/ Head(io).op = "append" /\ torn' = TRUE
    /\ UNCHANGED <<clockVars, procVars, phase, cursor, lastTick, zones, alerts,
                   lastVal, active, pending, dirty, history, snapshot>>

-----------------------------------------------------------------------------
\* update_data: the discontinuity check, then every sensor in turn.

TickBegin ==
    /\ Idle
    /\ now > lastTick
    /\ now - lastTick < GapThreshold
    /\ lastTick' = now
    /\ phase' = "tick"
    /\ cursor' = 1
    /\ UNCHANGED <<clockVars, procVars, zones, alerts, lastVal, active, pending,
                   dirty, io, diskVars>>

TickAfterGap ==
    /\ Idle
    /\ now - lastTick >= GapThreshold
    /\ lastTick' = now
    /\ phase' = "tick"
    /\ cursor' = 1
    /\ active' = [k \in Keys |->
                     IF Has(active, k)
                     THEN WithLiveGap(active[k], [from |-> lastTick, to |-> now])
                     ELSE None]
    /\ io' = IF KeysOf(active) = {} THEN <<>> ELSE <<SaveOf(active', pending)>>
    /\ UNCHANGED <<clockVars, procVars, zones, alerts, lastVal, pending, dirty,
                   diskVars>>

\* Leaving sensor k for the next one, or ending the tick.
Advanced(k) ==
    /\ cursor' = IF k = NKeys THEN 1 ELSE k + 1
    /\ phase' = IF k = NKeys THEN "idle" ELSE "tick"

\* The tick has come to sensor k, which reads r.
AtSensor(k, r) ==
    /\ up
    /\ phase = "tick"
    /\ io = <<>>
    /\ cursor = k
    /\ r \in Readings[k]
    /\ Advanced(k)
    /\ UNCHANGED <<clockVars, procVars, lastTick, pending, diskVars>>

\* _update_*_zone for a reading r of sensor k, then the first line of
\* _incident_observe.
Zoned(k, r) ==
    LET st == ZoneStep(zones[k], r, now, k \notin RedDebounced)
    IN  /\ zones' = [zones EXCEPT ![k] = st]
        /\ alerts' = IF st.confirmed = zones[k].confirmed THEN alerts
                     ELSE [alerts EXCEPT ![k] = st.confirmed]
        /\ lastVal' = [lastVal EXCEPT ![k] = r]

\* No value this tick: the alert, and any incident, stay as they are.
ReadNothing(k) ==
    /\ AtSensor(k, NoReading)
    /\ lastVal' = IF k \in SkipsNone THEN lastVal
                                     ELSE [lastVal EXCEPT ![k] = NoReading]
    /\ UNCHANGED <<zones, alerts, active, dirty, io>>

\* A restored incident is not touched before it is reconciled.
ReadPending(k, r) ==
    /\ AtSensor(k, r)
    /\ r # NoReading
    /\ Has(pending, k)
    /\ Zoned(k, r)
    /\ UNCHANGED <<active, dirty, io>>

ReadQuiet(k, r) ==
    /\ AtSensor(k, r)
    /\ r # NoReading
    /\ ~Has(pending, k) /\ ~Has(active, k)
    /\ Zoned(k, r)
    /\ alerts'[k] = GREEN
    /\ UNCHANGED <<active, dirty, io>>

\* _incident_open saves at once; the _incident_touch after it changes nothing
\* that is in the file, and marks the state dirty.
OpenIncident(k, r) ==
    /\ AtSensor(k, r)
    /\ r # NoReading
    /\ ~Has(pending, k) /\ ~Has(active, k)
    /\ Zoned(k, r)
    /\ alerts'[k] # GREEN
    /\ active' = [active EXCEPT ![k] = NewIncident(k, alerts'[k], now)]
    /\ io' = <<SaveOf(active', pending)>>
    /\ dirty' = TRUE

\* An escalation only marks the state dirty.
BugTouchLazily(k, r) ==
    /\ AtSensor(k, r)
    /\ r # NoReading
    /\ ~Has(pending, k) /\ Has(active, k)
    /\ Zoned(k, r)
    /\ alerts'[k] # GREEN
    /\ active' = [active EXCEPT ![k] = Touched(@, alerts'[k], now)]
    /\ dirty' = TRUE
    /\ UNCHANGED io

\* A quiet update does not mark the state dirty.
BugTouchSilently(k, r) ==
    /\ AtSensor(k, r)
    /\ r # NoReading
    /\ ~Has(pending, k) /\ Has(active, k)
    /\ Zoned(k, r)
    /\ alerts'[k] # GREEN
    /\ active' = [active EXCEPT ![k] = Touched(@, alerts'[k], now)]
    /\ io' = IF Escalates(active[k], alerts'[k])
             THEN <<SaveOf(active', pending)>> ELSE <<>>
    /\ UNCHANGED dirty

TouchIncident(k, r) ==
    /\ AtSensor(k, r)
    /\ r # NoReading
    /\ ~Has(pending, k)
    /\ Has(active, k)
    /\ Zoned(k, r)
    /\ alerts'[k] # GREEN
    /\ active' = [active EXCEPT ![k] = Touched(@, alerts'[k], now)]
    /\ IF Escalates(active[k], alerts'[k])
       THEN io' = <<SaveOf(active', pending)>> /\ dirty' = dirty
       ELSE io' = <<>> /\ dirty' = TRUE

CloseIncident(k, r) ==
    /\ AtSensor(k, r)
    /\ r # NoReading
    /\ ~Has(pending, k)
    /\ Has(active, k)
    /\ Zoned(k, r)
    /\ alerts'[k] = GREEN
    /\ active' = [active EXCEPT ![k] = None]
    /\ io' = <<AppendOf(ClosedLive(active[k], r, now)), SaveOf(active', pending)>>
    /\ dirty' = dirty

\* An exception between two sensors ends the tick; poll() logs it and goes on.
TickAborts ==
    /\ up
    /\ phase = "tick"
    /\ io = <<>>
    /\ phase' = "idle"
    /\ cursor' = 1
    /\ UNCHANGED <<clockVars, procVars, lastTick, zones, alerts, lastVal, active,
                   pending, dirty, io, diskVars>>

-----------------------------------------------------------------------------
\* _reconcile_restored_incidents, once per start.

\* Gives up when no tick has run yet.
BugReconcileBegin ==
    /\ Idle
    /\ ~reconciled
    /\ now >= startedAt + ReconcileDelay
    /\ reconciled' = TRUE
    /\ phase' = IF KeysOf(pending) = {} \/ lastTick = startedAt
                THEN "idle" ELSE "reconcile"
    /\ UNCHANGED <<clockVars, up, startedAt, cursor, lastTick, zones, alerts,
                   lastVal, active, pending, dirty, io, diskVars>>

ReconcileBegin ==
    /\ Idle
    /\ ~reconciled
    /\ now >= startedAt + ReconcileDelay
    /\ reconciled' = TRUE
    /\ phase' = IF KeysOf(pending) = {} THEN "idle" ELSE "reconcile"
    /\ UNCHANGED <<clockVars, up, startedAt, cursor, lastTick, zones, alerts,
                   lastVal, active, pending, dirty, io, diskVars>>

RestartGap(k) == [from |-> pending[k].lastObs, to |-> now]

ResumeRestored(k) ==
    /\ phase = "reconcile"
    /\ io = <<>>
    /\ Has(pending, k)
    /\ alerts[k] # GREEN
    /\ active' = [active EXCEPT ![k] =
                    Resumed(pending[k], RestartGap(k), alerts[k])]
    /\ pending' = [pending EXCEPT ![k] = None]
    /\ UNCHANGED <<clockVars, procVars, phase, cursor, lastTick, zones, alerts,
                   lastVal, dirty, io, diskVars>>

CloseRestored(k) ==
    /\ phase = "reconcile"
    /\ io = <<>>
    /\ Has(pending, k)
    /\ alerts[k] = GREEN
    /\ pending' = [pending EXCEPT ![k] = None]
    /\ io' = <<AppendOf(ClosedAfterGap(pending[k], RestartGap(k), lastVal[k]))>>
    /\ UNCHANGED <<clockVars, procVars, phase, cursor, lastTick, zones, alerts,
                   lastVal, active, dirty, diskVars>>

ReconcileEnd ==
    /\ phase = "reconcile"
    /\ io = <<>>
    /\ KeysOf(pending) = {}
    /\ phase' = "idle"
    /\ io' = <<SaveOf(active, pending)>>
    /\ UNCHANGED <<clockVars, procVars, cursor, lastTick, zones, alerts, lastVal,
                   active, pending, dirty, diskVars>>

-----------------------------------------------------------------------------
\* _flush_active_incidents_periodic: dirty is cleared whether or not the write
\* succeeds.
Flush ==
    /\ Idle
    /\ dirty
    /\ io' = <<SaveOf(active, pending)>>
    /\ dirty' = FALSE
    /\ UNCHANGED <<clockVars, procVars, phase, cursor, lastTick, zones, alerts,
                   lastVal, active, pending, diskVars>>

\* close(): save, then destroy.
CloseApp ==
    /\ Idle
    /\ phase' = "closing"
    /\ io' = <<SaveOf(active, pending)>>
    /\ UNCHANGED <<clockVars, procVars, cursor, lastTick, zones, alerts, lastVal,
                   active, pending, dirty, diskVars>>

Exit ==
    /\ phase = "closing"
    /\ io = <<>>
    /\ Stopped
    /\ UNCHANGED <<clockVars, lastTick, diskVars>>

-----------------------------------------------------------------------------
ObserveSensor(k) ==
    \/ ReadNothing(k)
    \/ \E r \in Zone : \/ ReadPending(k, r) \/ ReadQuiet(k, r)
                       \/ OpenIncident(k, r) \/ TouchIncident(k, r)
                       \/ CloseIncident(k, r)

Reconcile(k) == ResumeRestored(k) \/ CloseRestored(k)

Next ==
    \/ Advance \/ Crash \/ Start
    \/ AppendIncident \/ SaveSnapshot \/ WriteFails
    \/ TickBegin \/ TickAfterGap \/ TickAborts
    \/ \E k \in Keys : ObserveSensor(k) \/ Reconcile(k)
    \/ ReconcileBegin \/ ReconcileEnd
    \/ Flush \/ CloseApp \/ Exit

Spec == Init /\ [][Next]_vars

(***************************************************************************)
(* The clock does not stop; a callback that runs comes to its end, since   *)
(* every write returns; and Tk serves its due timers in order, so a timer  *)
(* is not starved by the other callbacks.  Nothing makes the user start or *)
(* close the program, or a sensor recover.                                 *)
(***************************************************************************)
Fairness ==
    /\ WF_vars(Advance)
    /\ WF_vars(AppendIncident) /\ WF_vars(SaveSnapshot)
    /\ WF_vars(\E k \in Keys : ObserveSensor(k))
    /\ WF_vars(\E k \in Keys : Reconcile(k)) /\ WF_vars(ReconcileEnd)
    /\ WF_vars(Exit)
    /\ SF_vars(ReconcileBegin) /\ SF_vars(Flush)

FairSpec == Spec /\ Fairness

-----------------------------------------------------------------------------
\* Every variable holds a value of its kind.
TypeOK ==
    /\ now \in Nat
    /\ starts \in Nat
    /\ up \in BOOLEAN
    /\ startedAt \in Nat
    /\ phase \in {"idle", "tick", "reconcile", "closing"}
    /\ cursor \in Keys
    /\ lastTick \in Nat
    /\ zones \in [Keys -> ZoneState]
    /\ alerts \in [Keys -> Zone]
    /\ lastVal \in [Keys -> Reading]
    /\ active \in Incidents
    /\ pending \in Incidents
    /\ dirty \in BOOLEAN
    /\ reconciled \in BOOLEAN
    /\ io \in Seq(AppendOp \cup SaveOp)
    /\ history \in Seq(Completed)
    /\ torn \in BOOLEAN
    /\ snapshot \in Incidents

\* No two lines of the completed history are of the same incident, however
\* often the program is killed between _persist_incident's append and the save
\* that drops the incident from the active file (the idempotency guard of
\* load_active_incidents).
CompletedOnce ==
    \A i, j \in DOMAIN history : history[i].id = history[j].id => i = j

\* An incident the program still works on is never one of the completed
\* history: what a stale active file brings back is not opened a second time.
NotReopened ==
    \A k \in Keys :
        /\ Has(active, k) => active[k].id \notin HistoryIds
        /\ Has(pending, k) => pending[k].id \notin HistoryIds

\* The incident engine never opens or closes "on a different schedule than the
\* alert engine" (_incident_observe): outside the reconciliation window a sensor
\* has an open incident exactly while it has an alert, and the incident's worst
\* zone is at least the zone alerted now.
AlertHasIncident ==
    \A k \in Keys :
        /\ Has(active, k) <=> alerts[k] # GREEN /\ ~Has(pending, k)
        /\ Has(active, k) => alerts[k] <= active[k].max

\* Openings, escalations and completions are on disk as soon as the callback
\* that made them is over, so that a crash can only lose quiet updates: every
\* incident in memory is in the active file, with its identity and worst zone.
SnapshotTracks ==
    up /\ phase # "reconcile" /\ io = <<>> =>
        \A k \in KeysOf(active) \cup KeysOf(pending) :
            LET inc == IF Has(pending, k) THEN pending[k] ELSE active[k]
            IN  /\ Has(snapshot, k)
                /\ snapshot[k].id = inc.id
                /\ snapshot[k].max = inc.max

\* The two files together keep the promise of RecordLedger.
Ledger == INSTANCE RecordLedger WITH
    Ids <- {<<Component[k], t>> : k \in Keys, t \in 0 .. MaxTime},
    recorded <- SnapshotIds \cup HistoryIds,
    completed <- [i \in DOMAIN history |-> history[i].id]

\* A recorded incident is never forgotten, whatever the program is killed in,
\* and is completed at most once: IncidentEngine implements RecordLedger.
ImplementsLedger == Ledger!Spec

\* A restored incident does not stay in limbo, where no reading of its sensor
\* counts: it is resumed or closed, unless the program stops first.
PendingIsReconciled ==
    \A k \in Keys : Has(pending, k) ~> ~Has(pending, k)

\* Every observation of an open incident reaches the active file although only
\* openings, escalations and completions are written at once, unless the
\* incident ends or the program stops first.
QuietUpdateReachesDisk ==
    \A k \in Keys : \A t \in 0 .. MaxTime :
        Has(active, k) /\ active[k].lastObs = t ~>
            \/ ~Has(active, k)
            \/ Has(snapshot, k) /\ snapshot[k].lastObs >= t
=============================================================================
