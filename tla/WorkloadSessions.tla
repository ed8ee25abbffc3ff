-------------------------- MODULE WorkloadSessions --------------------------
(***************************************************************************)
(* The workload sessions of app.py: candidates and their debounce, idle    *)
(* grace, time accounting, live gaps, the two session files, restore and   *)
(* reconciliation, and the linking of closed incidents.                    *)
(*                                                                         *)
(* Everything runs on the Tk thread, one callback after the other; the     *)
(* process can be killed between any two writes of a callback.  Workload   *)
(* keys are 1 .. NKeys.                                                    *)
(***************************************************************************)
EXTENDS Integers, Sequences, FiniteSets

CONSTANTS
    NKeys,           \* number of workloads
    Samples,         \* SESSION_START_DEBOUNCE_SAMPLES
    SampleGap,       \* SESSION_GAP_THRESHOLD_S
    IdleGrace,       \* SESSION_IDLE_GRACE_S
    ReconcileDelay,  \* SESSION_RECONCILE_DELAY_MS
    GapThreshold,    \* MONITORING_DISCONTINUITY_S
    None,            \* the absence of a dictionary entry
    MaxTime,         \* bound on the clock
    MaxStarts,       \* bound on the number of times the program is started
    MaxIncidents     \* bound on the incidents that close

Keys == 1 .. NKeys

ASSUME SessionConstants ==
    /\ NKeys \in Nat \ {0}
    /\ Samples \in Nat \ {0}
    /\ SampleGap \in Nat \ {0}
    /\ IdleGrace \in Nat \ {0}
    /\ ReconcileDelay \in Nat
    /\ GapThreshold \in Nat \ {0}
    /\ MaxTime \in Nat
    /\ MaxStarts \in Nat
    /\ MaxIncidents \in Nat

VARIABLES
    now,         \* the wall clock
    starts,      \* how many times the program was started
    \* the process
    up,          \* is it running?
    startedAt,   \* when it was started
    phase,       \* the callback under way, or "idle"
    lastTick,    \* _last_tick_wall_time
    sessTick,    \* _session_last_tick_time
    sessions,    \* workload_sessions: candidates and confirmed sessions
    pending,     \* session_restore_pending
    activity,    \* last_workload_activity
    dirty,       \* _active_sessions_dirty
    reconciled,  \* has _reconcile_restored_sessions had its only run?
    linked,      \* _session_linked_incident_ids
    io,          \* writes the current callback has still to make
    \* the disk
    history,     \* SESSIONS_PATH: completed sessions, oldest first
    snapshot,    \* ACTIVE_SESSIONS_PATH
    incidents,   \* incidents_recent, as the incident engine keeps it on disk
    \* history variables
    outages,     \* the unobserved intervals so far
    streak       \* the last ticks in an unbroken row that saw the workload active

clockVars == <<now, starts>>
procVars  == <<up, startedAt, reconciled>>
tickVars  == <<lastTick, sessTick, activity, linked, streak>>
diskVars  == <<history, snapshot, incidents>>
vars == <<now, starts, up, startedAt, phase, lastTick, sessTick, sessions, pending,
          activity, dirty, reconciled, linked, io, history, snapshot, incidents,
          outages, streak>>

-----------------------------------------------------------------------------
Gap      == [from : Nat, to : Nat]        \* last_sample_before, first_sample_after
Incident == [at : Nat, workload : Keys]   \* end_timestamp, dominant_workload

Session == [confirmed : BOOLEAN, consecutive : 0 .. Samples, start : Nat,
            lastActive : Nat, lastObs : Nat, zoneTime : Nat, gaps : Seq(Gap),
            incidents : SUBSET Incident]

ASSUME NoSession == None \notin Session

\* session_id is f"{key}-{start}".
Completed == [id : Keys \X Nat, end : Nat, exact : BOOLEAN, zoneTime : Nat,
              gaps : Seq(Gap), incidents : SUBSET Incident,
              reason : {"idle_grace_expired", "ended_during_gap"}]

Activity == [at : Nat, active : BOOLEAN]

Sessions  == [Keys -> Session \cup {None}]
Empty     == [k \in Keys |-> None]
Has(d, k) == d[k] # None
Confirmed(d, k) == Has(d, k) /\ d[k].confirmed

\* The operators named Bug... are mutants: a definition with one plausible
\* mistake, used by no specification here.

\* _new_session_record.
NewSession(t) ==
    [confirmed |-> FALSE, consecutive |-> 0, start |-> t, lastActive |-> t,
     lastObs |-> t, zoneTime |-> 0, gaps |-> <<>>, incidents |-> {}]

\* Counts a suspend as watched.
BugCounted(from, to) == to - from

\* dt: a distance between two ticks that is too long is nobody's time.
Counted(from, to) == IF to - from <= SampleGap THEN to - from ELSE 0

\* _session_apply_sample and the debounce of _session_observe_tick.  The count
\* of consecutive samples matters up to the threshold.
Sampled(rec, dt, t) ==
    LET n == IF rec.consecutive < Samples THEN rec.consecutive + 1 ELSE Samples
    IN  [rec EXCEPT !.consecutive = n,
                    !.confirmed = @ \/ n >= Samples,
                    !.zoneTime = @ + dt,
                    !.lastActive = t,
                    !.lastObs = t]

\* _append_gap_once.
WithGap(rec, gap) ==
    IF \E i \in DOMAIN rec.gaps : rec.gaps[i].to = gap.to
    THEN rec ELSE [rec EXCEPT !.gaps = Append(@, gap)]

\* _finalize_session_record.
Finalized(k, rec, t, uncertain, gap) ==
    [id |-> <<k, rec.start>>, end |-> t,
     exact |-> ~uncertain /\ rec.gaps = <<>>,
     zoneTime |-> rec.zoneTime,
     gaps |-> IF uncertain THEN Append(rec.gaps, gap) ELSE rec.gaps,
     incidents |-> rec.incidents,
     reason |-> IF uncertain THEN "ended_during_gap" ELSE "idle_grace_expired"]

\* Saves only what is not waiting for reconciliation.
BugMerged(sess, pend) ==
    [k \in Keys |-> IF Confirmed(sess, k) THEN [sess[k] EXCEPT !.consecutive = 0]
                    ELSE None]

\* What _save_active_sessions writes: confirmed sessions, overridden by pending
\* ones; _session_to_persistable drops the debounce count.
Merged(sess, pend) ==
    [k \in Keys |-> IF Has(pend, k) THEN [pend[k] EXCEPT !.consecutive = 0]
                    ELSE IF Confirmed(sess, k) THEN [sess[k] EXCEPT !.consecutive = 0]
                    ELSE None]

HistoryIds == {history[i].id : i \in DOMAIN history}
SnapshotIds == {<<k, snapshot[k].start>> : k \in {j \in Keys : Has(snapshot, j)}}

AppendOf(rec) == [op |-> "append", rec |-> rec]
SaveOf(sess, pend) == [op |-> "save", snap |-> Merged(sess, pend)]

-----------------------------------------------------------------------------
\* Nothing is left of the program but its files.
Stopped ==
    /\ up' = FALSE
    /\ startedAt' = 0
    /\ phase' = "idle"
    /\ sessions' = Empty
    /\ pending' = Empty
    /\ activity' = Empty
    /\ dirty' = FALSE
    /\ reconciled' = FALSE
    /\ linked' = {}
    /\ io' = <<>>
    /\ streak' = [k \in Keys |-> <<>>]

Init ==
    /\ now = 0
    /\ starts = 0
    /\ up = FALSE
    /\ startedAt = 0
    /\ phase = "idle"
    /\ lastTick = 0
    /\ sessTick = 0
    /\ sessions = Empty
    /\ pending = Empty
    /\ activity = Empty
    /\ dirty = FALSE
    /\ reconciled = FALSE
    /\ linked = {}
    /\ io = <<>>
    /\ history = <<>>
    /\ snapshot = Empty
    /\ incidents = {}
    /\ outages = {}
    /\ streak = [k \in Keys |-> <<>>]

\* The Tk loop is between two callbacks.
Idle == up /\ phase = "idle" /\ io = <<>>

-----------------------------------------------------------------------------
\* Environment.

Advance ==
    /\ Idle \/ ~up
    /\ now < MaxTime
    /\ now' = now + 1
    /\ UNCHANGED <<starts, procVars, phase, tickVars, sessions, pending, dirty, io,
                   diskVars, outages>>

\* A kill or a power cut.  A line cut in two is dropped by the next load_sessions,
\* as if its append had not begun.
Crash ==
    /\ up
    /\ Stopped
    /\ UNCHANGED <<clockVars, lastTick, sessTick, diskVars, outages>>

\* The incident engine completes an incident whose dominant workload is k.
IncidentCloses(k) ==
    /\ Idle
    /\ Cardinality(incidents) < MaxIncidents
    /\ incidents' = incidents \cup {[at |-> now, workload |-> k]}
    /\ UNCHANGED <<clockVars, procVars, phase, tickVars, sessions, pending, dirty, io,
                   history, snapshot, outages>>

\* load_sessions, load_active_sessions (with its idempotency guard) and what
\* __init__ sets.
Start ==
    /\ ~up
    /\ starts < MaxStarts
    /\ now + ReconcileDelay <= MaxTime
    /\ starts' = starts + 1
    /\ up' = TRUE
    /\ startedAt' = now
    /\ lastTick' = now
    /\ sessTick' = now
    /\ pending' = [k \in Keys |->
                     IF Has(snapshot, k) /\ <<k, snapshot[k].start>> \notin HistoryIds
                     THEN snapshot[k] ELSE None]
    /\ outages' = IF starts = 0 THEN outages
                  ELSE outages \cup {[from |-> lastTick, to |-> now]}
    /\ UNCHANGED <<now, phase, sessions, activity, dirty, reconciled, linked, io,
                   diskVars, streak>>

-----------------------------------------------------------------------------
\* The disk: the writes of a callback, one at a time.

AppendSession ==
    /\ io # <<>>
    /\ Head(io).op = "append"
    /\ history' = Append(history, Head(io).rec)
    /\ io' = Tail(io)
    /\ UNCHANGED <<clockVars, procVars, phase, tickVars, sessions, pending, dirty,
                   snapshot, incidents, outages>>

SaveSnapshot ==
    /\ io # <<>>
    /\ Head(io).op = "save"
    /\ snapshot' = Head(io).snap
    /\ io' = Tail(io)
    /\ UNCHANGED <<clockVars, procVars, phase, tickVars, sessions, pending, dirty,
                   history, incidents, outages>>

-----------------------------------------------------------------------------
\* update_data: the discontinuity check first, _session_observe_tick last.

\* _detect_monitoring_discontinuity and _sessions_record_live_gap.
IsGap == now - lastTick >= GapThreshold
AfterGap ==
    [k \in Keys |->
        IF Has(sessions, k) /\ IsGap
        THEN WithGap(sessions[k], [from |-> lastTick, to |-> now])
        ELSE sessions[k]]

Ticks ==
    /\ Idle
    /\ now > lastTick
    /\ lastTick' = now
    /\ outages' = IF IsGap THEN outages \cup {[from |-> lastTick, to |-> now]}
                  ELSE outages

\* A candidate that misses a tick is kept.
BugAfterTick(k, rec, act) ==
    IF Has(pending, k) THEN rec
    ELSE IF k \in act
         THEN Sampled(IF rec = None THEN NewSession(now) ELSE rec,
                      Counted(sessTick, now), now)
         ELSE rec

\* Opens a candidate for a workload that waits for its reconciliation.
BugAfterTickPending(k, rec, act) ==
    IF k \in act
    THEN Sampled(IF rec = None THEN NewSession(now) ELSE rec,
                 Counted(sessTick, now), now)
    ELSE IF rec # None /\ ~rec.confirmed THEN None ELSE rec

\* What a tick makes of the session rec of workload k, if the workloads act are
\* active: nothing while k waits for its reconciliation, another sample, or the
\* end of a candidate.
AfterTick(k, rec, act) ==
    IF Has(pending, k) THEN rec
    ELSE IF k \in act
         THEN Sampled(IF rec = None THEN NewSession(now) ELSE rec,
                      Counted(sessTick, now), now)
         ELSE IF rec # None /\ ~rec.confirmed THEN None ELSE rec

LastTicks(seq) ==
    IF Len(seq) > Samples THEN SubSeq(seq, Len(seq) - Samples + 1, Len(seq)) ELSE seq

\* The workloads seen are in last_cpu_top or last_gpu_top, those in act use enough
\* of a processor.
ObserveTick(seen, act) ==
    /\ Ticks
    /\ phase' = "tick"
    /\ sessTick' = now
    /\ activity' = [k \in Keys |-> IF k \in seen THEN [at |-> now, active |-> k \in act]
                                   ELSE activity[k]]
    /\ sessions' = [k \in Keys |-> AfterTick(k, AfterGap[k], act)]
    /\ dirty' = (dirty \/ AfterGap # sessions \/ \E k \in act : ~Has(pending, k))
    /\ streak' = [k \in Keys |-> IF k \in act THEN LastTicks(Append(streak[k], now))
                                 ELSE <<>>]
    /\ UNCHANGED <<clockVars, procVars, pending, linked, io, diskVars>>

\* Something else in update_data raises, which poll survives: the tick ends
\* before the sessions are looked at.
TickAborts ==
    /\ Ticks
    /\ sessions' = AfterGap
    /\ dirty' = (dirty \/ AfterGap # sessions)
    /\ UNCHANGED <<clockVars, procVars, phase, sessTick, activity, linked, streak,
                   pending, io, diskVars>>

IdleTooLong(k) ==
    /\ Confirmed(sessions, k)
    /\ ~Has(pending, k)
    /\ now - sessions[k].lastActive >= IdleGrace

\* _session_close, of a session whose grace has run out.
CloseIdle(k) ==
    /\ phase = "tick"
    /\ io = <<>>
    /\ IdleTooLong(k)
    /\ sessions' = [sessions EXCEPT ![k] = None]
    /\ io' = <<AppendOf(Finalized(k, sessions[k], now, FALSE, None)),
               SaveOf(sessions', pending)>>
    /\ UNCHANGED <<clockVars, procVars, phase, tickVars, pending, dirty, diskVars,
                   outages>>

\* Does not remember which incidents it has looked at.
BugLookedAt == linked

LookedAt == incidents

\* _session_link_incidents: every incident that closed since the last tick goes to
\* the session its workload has now, if any, and is never looked at again.
TickEnds ==
    /\ phase = "tick"
    /\ io = <<>>
    /\ \A k \in Keys : ~IdleTooLong(k)
    /\ phase' = "idle"
    /\ sessions' = [k \in Keys |->
          IF Confirmed(sessions, k)
          THEN [sessions[k] EXCEPT
                  !.incidents = @ \cup {inc \in incidents \ linked : inc.workload = k}]
          ELSE sessions[k]]
    /\ linked' = LookedAt
    /\ dirty' = (dirty \/ sessions' # sessions)
    /\ UNCHANGED <<clockVars, procVars, lastTick, sessTick, activity, streak, pending,
                   io, diskVars, outages>>

-----------------------------------------------------------------------------
\* _reconcile_restored_sessions, once after every start.

ReconcileBegin ==
    /\ Idle
    /\ ~reconciled
    /\ now - startedAt >= ReconcileDelay
    /\ reconciled' = TRUE
    /\ phase' = IF pending = Empty THEN "idle" ELSE "reconcile"
    /\ UNCHANGED <<clockVars, up, startedAt, tickVars, sessions, pending, dirty, io,
                   diskVars, outages>>

RestartGap(k) == [from |-> pending[k].lastObs, to |-> now]

StillActive(k) ==
    /\ Has(activity, k)
    /\ activity[k].active
    /\ now - activity[k].at <= IdleGrace

\* Forgets the gap of a session that goes on.
BugResumed(rec, gap, at) == [rec EXCEPT !.lastActive = at, !.lastObs = at]

Resumed(rec, gap, at) ==
    [rec EXCEPT !.gaps = Append(@, gap), !.lastActive = at, !.lastObs = at]

ResumeRestored(k) ==
    /\ phase = "reconcile"
    /\ io = <<>>
    /\ Has(pending, k)
    /\ StillActive(k)
    /\ sessions' = [sessions EXCEPT ![k] =
                      Resumed(pending[k], RestartGap(k), activity[k].at)]
    /\ pending' = [pending EXCEPT ![k] = None]
    /\ UNCHANGED <<clockVars, procVars, phase, tickVars, dirty, io, diskVars, outages>>

CloseRestored(k) ==
    /\ phase = "reconcile"
    /\ io = <<>>
    /\ Has(pending, k)
    /\ ~StillActive(k)
    /\ pending' = [pending EXCEPT ![k] = None]
    /\ io' = <<AppendOf(Finalized(k, pending[k], now, TRUE, RestartGap(k))),
               SaveOf(sessions, pending')>>
    /\ UNCHANGED <<clockVars, procVars, phase, tickVars, sessions, dirty, diskVars,
                   outages>>

ReconcileEnds ==
    /\ phase = "reconcile"
    /\ io = <<>>
    /\ pending = Empty
    /\ phase' = "idle"
    /\ io' = <<SaveOf(sessions, pending)>>
    /\ UNCHANGED <<clockVars, procVars, tickVars, sessions, pending, dirty, diskVars,
                   outages>>

-----------------------------------------------------------------------------
\* _flush_active_sessions_periodic.
Flush ==
    /\ Idle
    /\ dirty
    /\ io' = <<SaveOf(sessions, pending)>>
    /\ dirty' = FALSE
    /\ UNCHANGED <<clockVars, procVars, phase, tickVars, sessions, pending, diskVars,
                   outages>>

\* close(): save, then destroy.
CloseApp ==
    /\ Idle
    /\ phase' = "closing"
    /\ io' = <<SaveOf(sessions, pending)>>
    /\ UNCHANGED <<clockVars, procVars, tickVars, sessions, pending, dirty, diskVars,
                   outages>>

Exit ==
    /\ phase = "closing"
    /\ io = <<>>
    /\ Stopped
    /\ UNCHANGED <<clockVars, lastTick, sessTick, diskVars, outages>>

-----------------------------------------------------------------------------
Observe == \E seen \in SUBSET Keys : \E act \in SUBSET seen : ObserveTick(seen, act)

Reconcile(k) == ResumeRestored(k) \/ CloseRestored(k)

Next ==
    \/ Advance \/ Crash \/ Start
    \/ AppendSession \/ SaveSnapshot
    \/ Observe \/ TickAborts \/ TickEnds
    \/ \E k \in Keys : IncidentCloses(k) \/ CloseIdle(k) \/ Reconcile(k)
    \/ ReconcileBegin \/ ReconcileEnds
    \/ Flush \/ CloseApp \/ Exit

Spec == Init /\ [][Next]_vars

-----------------------------------------------------------------------------
\* Every variable holds a value of its kind.
TypeOK ==
    /\ now \in Nat
    /\ starts \in Nat
    /\ up \in BOOLEAN
    /\ startedAt \in Nat
    /\ phase \in {"idle", "tick", "reconcile", "closing"}
    /\ lastTick \in Nat
    /\ sessTick \in Nat
    /\ sessions \in Sessions
    /\ pending \in Sessions
    /\ activity \in [Keys -> Activity \cup {None}]
    /\ dirty \in BOOLEAN
    /\ reconciled \in BOOLEAN
    /\ linked \in SUBSET Incident
    /\ io \in Seq([op : {"append"}, rec : Completed] \cup [op : {"save"}, snap : Sessions])
    /\ history \in Seq(Completed)
    /\ snapshot \in Sessions
    /\ incidents \in SUBSET Incident
    /\ outages \in SUBSET Gap
    /\ streak \in [Keys -> Seq(Nat)]

Records == {history[i] : i \in DOMAIN history}

\* No workload has two sessions at a time, over all the lives of the program: its
\* sessions end before the next begins, so its hours are not counted twice.
SessionsAreDisjoint ==
    /\ \A i, j \in DOMAIN history :
          i < j /\ history[i].id[1] = history[j].id[1] =>
              history[i].end <= history[j].id[2]
    /\ \A rec \in Records : \A d \in {sessions, pending} :
          Has(d, rec.id[1]) => rec.end <= d[rec.id[1]].start

\* A spike never opens a session: one is confirmed only when its workload was
\* active in every tick since its start, and in enough of them.
ConfirmedWasSustained ==
    [][\A k \in Keys :
          Confirmed(sessions', k) /\ ~Confirmed(sessions, k) /\ ~Has(pending, k) =>
              /\ Len(streak'[k]) = Samples
              /\ sessions'[k].start <= streak'[k][1]]_vars

\* What was not watched is never passed off as watched: every suspend and restart
\* a session lived through lies within one of its monitoring_gaps, even if the
\* program is killed in between, and a session with such a gap is not exact.
EveryOutageIsRecorded ==
    \A rec \in Records : \A o \in outages :
        rec.id[2] <= o.from /\ o.from < o.to /\ o.to <= rec.end =>
            /\ ~rec.exact
            /\ \E i \in DOMAIN rec.gaps : rec.gaps[i].from <= o.from /\ o.to <= rec.gaps[i].to

\* The time units of a record's life that are in none of its gaps.
Watched(rec) ==
    {t \in rec.id[2] .. rec.end - 1 :
        \A i \in DOMAIN rec.gaps : t \notin rec.gaps[i].from .. rec.gaps[i].to - 1}

\* "do not count unmonitored gaps": zone and foreground time add up to no more
\* than the watched time, and one sample at the start and after each gap.
TimeIsWatched ==
    \A rec \in Records :
        rec.zoneTime <= Cardinality(Watched(rec)) + SampleGap * (1 + Len(rec.gaps))

\* An incident is linked to one session at most, whatever is restored, and to one
\* of its own workload that was going on when the incident ended.
LinkedOnce ==
    /\ \A rec \in Records : \A inc \in rec.incidents :
          inc.workload = rec.id[1] /\ inc.at \in rec.id[2] .. rec.end
    /\ \A i, j \in DOMAIN history :
          i # j => history[i].incidents \cap history[j].incidents = {}
    /\ \A k \in Keys : \A d \in {sessions, pending} : Has(d, k) =>
          \A inc \in d[k].incidents :
              /\ inc.workload = k /\ d[k].start <= inc.at
              /\ \A rec \in Records : inc \notin rec.incidents

\* The two files together keep the promise of RecordLedger.
Ledger == INSTANCE RecordLedger WITH
    Ids <- Keys \X (0 .. MaxTime),
    recorded <- SnapshotIds \cup HistoryIds,
    completed <- [i \in DOMAIN history |-> history[i].id]

\* A session that has reached the disk is never forgotten, whatever the program is
\* killed in, and is completed at most once.
ImplementsLedger == Ledger!Spec
=============================================================================
