------------------------------- MODULE Windows -------------------------------
(***************************************************************************)
(* The windows of what was recorded: History over the incidents, Sessions  *)
(* over the workload sessions, and Analytics, from which either is         *)
(* reached.  Each shows what it read last through filters of its own,      *)
(* while records are added, grow old, and other windows drill down into    *)
(* it.                                                                     *)
(*                                                                         *)
(* Analytics outlives the History it was opened from, and Sessions the     *)
(* Analytics: both are followed until another is opened in their place.    *)
(***************************************************************************)
EXTENDS Values, Integers, FiniteSets

CONSTANTS
    Incidents,   \* completed incidents
    Sessions,    \* completed sessions
    PartOf,      \* the component and severity of each incident
    WorkloadOf,  \* the workload of each record, "Not identified" being one of them
    FoundIn,     \* pairs of a text and a record whose workload has the text somewhere in it
    MaxClicks    \* bound on what is done in a behaviour

ASSUME WindowConstants ==
    /\ IsFiniteSet(Incidents) /\ Incidents \cap Sessions = {} /\ DOMAIN WorkloadOf = Incidents \cup Sessions
    /\ \A r \in DOMAIN WorkloadOf : <<WorkloadOf[r], r>> \in FoundIn
    /\ MaxClicks \in Nat

VARIABLES
    stored,     \* the records in the two files
    recent,     \* those that ended within a range that is not "All"
    history,    \* the History window, None if there is none; "owns" says that its
                \* analytics_window is the one followed
    sessionsWin,  \* the Sessions window
    analytics,  \* the Analytics window: [range, counts, selected, owns], the last of Sessions
    dialog,     \* the file dialog that is open: None, "filtered" or the record to export
    outcome,    \* what was just done: a file written, a record or workload shown, or None
    clicks

windowVars ==
    <<stored, recent, history, sessionsWin, analytics, dialog, outcome, clicks>>

Records == Incidents \cup Sessions
Typed == {None} \cup {WorkloadOf[r] : r \in Records}

\* What can be set: a range, a component with a severity, the text of a workload.
Filters ==
    [range : {"All", "24h"}, component : {"All"} \cup {PartOf[i] : i \in Incidents}, workload : Typed]
NoFilter == [range |-> "All", component |-> "All", workload |-> None]

\* Mutant, used by no specification: the text of a workload is not looked at.
BugMatches(filter, r) ==
    filter.component # "All" => r \in Incidents /\ PartOf[r] = filter.component

\* A text finds every workload that contains it.
Matches(filter, r) ==
    /\ filter.component # "All" => r \in Incidents /\ PartOf[r] = filter.component
    /\ filter.workload # None => <<filter.workload, r>> \in FoundIn

Within(range, r) == range = "All" \/ r \in recent

\* _apply_filters and _populate_table: what is selected is deleted with the rows.
Applied(t) ==
    [t EXCEPT !.rows = {r \in t.loaded : Matches(t.filter, r) /\ Within(t.filter.range, r)},
              !.selected = None]

\* _reload, with what could be read.
TableReloaded(t, read) == Applied([t EXCEPT !.loaded = read])

\* read_incidents_file, read_sessions_file: nothing if the file cannot be read.
Reads(kind) == {stored \cap kind, {}}

Opened(filter) ==
    [loaded |-> {}, rows |-> {}, filter |-> filter, selected |-> None, detail |-> None,
     pending |-> FALSE, owns |-> FALSE]

\* Mutant, used by no specification: the filters are reset once the rows are made.
BugDrilledDown(t, read, r) ==
    LET reloaded == [TableReloaded(t, read) EXCEPT !.filter = NoFilter]
    IN IF r \in reloaded.rows
       THEN [reloaded EXCEPT !.selected = r, !.detail = r, !.pending = TRUE]
       ELSE reloaded

\* select_*_by_id: the filters are reset, what is there now is read, and the record is
\* selected if it was among it.
DrilledDown(t, read, r) ==
    LET reloaded == TableReloaded([t EXCEPT !.filter = NoFilter], read)
    IN IF r \in reloaded.rows
       THEN [reloaded EXCEPT !.selected = r, !.detail = r, !.pending = TRUE]
       ELSE reloaded

WindowsInit ==
    /\ stored \in {{}, Records}
    /\ recent = stored
    /\ history = None
    /\ sessionsWin = None
    /\ analytics = None
    /\ dialog = None
    /\ outcome = None
    /\ clicks = 0

Click == clicks < MaxClicks /\ clicks' = clicks + 1
NoOutcome == outcome' = None

-----------------------------------------------------------------------------
\* The stores.

RecordCompleted ==
    /\ Click /\ NoOutcome
    /\ \E r \in Records \ stored : stored' = stored \cup {r} /\ recent' = recent \cup {r}
    /\ UNCHANGED <<history, sessionsWin, analytics, dialog>>

RecordAges ==
    /\ Click /\ NoOutcome
    /\ \E r \in recent : recent' = recent \ {r}
    /\ UNCHANGED <<stored, history, sessionsWin, analytics, dialog>>

-----------------------------------------------------------------------------
\* History and Sessions.

UsesHistory == Click /\ UNCHANGED <<stored, recent, sessionsWin, analytics>>
UsesSessions == Click /\ UNCHANGED <<stored, recent, history, analytics, dialog>>

\* App.open_history: an existing window is refreshed.
OpenedHistory(read) ==
    IF history = None THEN TableReloaded(Opened(NoFilter), read) ELSE TableReloaded(history, read)

OpenHistory ==
    /\ UsesHistory /\ NoOutcome
    /\ \E read \in Reads(Incidents) : history' = OpenedHistory(read)
    /\ UNCHANGED dialog

CloseHistory ==
    /\ UsesHistory /\ NoOutcome
    /\ history # None /\ dialog = None
    /\ history' = None
    /\ UNCHANGED dialog

CloseSessions ==
    /\ UsesSessions /\ NoOutcome
    /\ sessionsWin # None
    /\ sessionsWin' = None

\* The chips, menus and the text: each sets one part of the filter.
Refiltered(t) ==
    {Applied([t EXCEPT !.filter = f]) :
        f \in {g \in Filters : Cardinality({x \in DOMAIN g : g[x] # t.filter[x]}) = 1}}

FilterHistory ==
    /\ UsesHistory /\ NoOutcome
    /\ history # None
    /\ history' \in Refiltered(history)
    /\ UNCHANGED dialog

FilterSessions ==
    /\ UsesSessions /\ NoOutcome
    /\ sessionsWin # None
    /\ sessionsWin' \in Refiltered(sessionsWin)
    /\ sessionsWin'.filter.component = "All"

\* The tree selects, and tells _on_select later.
Selected(t) == {[t EXCEPT !.selected = r, !.pending = TRUE] : r \in t.rows}

\* _on_select: what is selected by then, if anything is.
DetailOf(t) ==
    [t EXCEPT !.detail = IF t.selected = None THEN @ ELSE t.selected, !.pending = FALSE]

SelectIncident ==
    /\ UsesHistory /\ NoOutcome
    /\ history # None
    /\ history' \in Selected(history)
    /\ UNCHANGED dialog

SelectSession ==
    /\ UsesSessions /\ NoOutcome
    /\ sessionsWin # None
    /\ sessionsWin' \in Selected(sessionsWin)

IncidentIsShown ==
    /\ history # None /\ history.pending
    /\ history' = DetailOf(history)
    /\ NoOutcome
    /\ UNCHANGED <<stored, recent, sessionsWin, analytics, dialog, clicks>>

SessionIsShown ==
    /\ sessionsWin # None /\ sessionsWin.pending
    /\ sessionsWin' = DetailOf(sessionsWin)
    /\ NoOutcome
    /\ UNCHANGED <<stored, recent, history, analytics, dialog, clicks>>

RefreshSessions ==
    /\ UsesSessions /\ NoOutcome
    /\ sessionsWin # None
    /\ \E read \in Reads(Sessions) : sessionsWin' = TableReloaded(sessionsWin, read)

-----------------------------------------------------------------------------
\* Exports.  Other windows stay alive while the file dialog is open.

\* _export_filtered and _export_selected, up to the dialog.
IncidentExportBegins ==
    /\ UsesHistory /\ NoOutcome
    /\ history # None /\ dialog = None
    /\ \/ history.rows # {} /\ dialog' = "filtered"
       \/ history.selected # None /\ dialog' = history.selected
    /\ UNCHANGED history

\* What is written: the rows and filters of the moment the dialog ends, or the incident
\* that was selected when it began.
Payload ==
    IF dialog = "filtered" THEN [file |-> "filtered", filter |-> history.filter, records |-> history.rows]
    ELSE [file |-> "selected", filter |-> NoFilter, records |-> {dialog}]

\* The dialog is cancelled, or the file cannot be written, or it is.
IncidentExportEnds ==
    /\ UsesHistory
    /\ dialog # None
    /\ dialog' = None
    /\ outcome' \in {None, Payload}
    /\ UNCHANGED history

-----------------------------------------------------------------------------
\* Analytics.

\* compute_workload_stats, and the same of sessions.  Durations and peaks are left out.
WorkloadStats(w, these) ==
    LET count(kind) == Cardinality({r \in these \cap kind : WorkloadOf[r] = w})
    IN [incidents |-> count(Incidents), sessions |-> count(Sessions)]

\* _recompute: the workloads with incidents or sessions in range, and how many of each.
Computed(range, incidents, sessions) ==
    LET these == {r \in incidents \cup sessions : Within(range, r)}
    IN [w \in {WorkloadOf[r] : r \in these} |-> WorkloadStats(w, these)]

NewAnalytics(incidents, sessions) ==
    [range |-> "All", counts |-> Computed("All", incidents, sessions), selected |-> None,
     owns |-> FALSE]

OpenAnalytics ==
    /\ Click /\ NoOutcome
    /\ history # None /\ (history.owns => analytics = None)
    /\ \E incidents \in Reads(Incidents), sessions \in Reads(Sessions) :
           analytics' = NewAnalytics(incidents, sessions)
    /\ history' = [history EXCEPT !.owns = TRUE]
    /\ UNCHANGED <<stored, recent, sessionsWin, dialog>>

UsesAnalytics == Click /\ analytics # None /\ UNCHANGED <<stored, recent>>

CloseAnalytics ==
    /\ UsesAnalytics /\ NoOutcome
    /\ analytics' = None
    /\ UNCHANGED <<history, sessionsWin, dialog>>

Recompute ==
    /\ UsesAnalytics /\ NoOutcome
    /\ \E range \in {"All", "24h"}, incidents \in Reads(Incidents), sessions \in Reads(Sessions) :
           analytics' = [analytics EXCEPT !.range = range, !.counts = Computed(range, incidents, sessions)]
    /\ UNCHANGED <<history, sessionsWin, dialog>>

\* The selected workload stays, whatever the rows are later.
SelectWorkload ==
    /\ UsesAnalytics /\ NoOutcome
    /\ \E w \in DOMAIN analytics.counts : analytics' = [analytics EXCEPT !.selected = w]
    /\ UNCHANGED <<history, sessionsWin, dialog>>

\* _view_incidents: History, refreshed, with this workload and its other filters.
ViewIncidents ==
    /\ UsesAnalytics
    /\ analytics.selected # None
    /\ \E read \in Reads(Incidents) :
           history' = Applied([OpenedHistory(read) EXCEPT !.filter.workload = analytics.selected])
    /\ outcome' = [viewed |-> analytics.selected]
    /\ UNCHANGED <<sessionsWin, analytics, dialog>>

\* open_sessions: its own window, filtered if a workload is selected, or a new one.
OpenedSessions(own, workload, read) ==
    IF own /\ sessionsWin # None
    THEN IF workload = None THEN sessionsWin
         ELSE TableReloaded([sessionsWin EXCEPT !.filter.workload = workload], read)
    ELSE TableReloaded(Opened([NoFilter EXCEPT !.workload = workload]), read)

OpenSessions ==
    /\ UsesAnalytics /\ NoOutcome
    /\ \E read \in Reads(Sessions) :
           sessionsWin' = OpenedSessions(analytics.owns, analytics.selected, read)
    /\ analytics' = [analytics EXCEPT !.owns = TRUE]
    /\ UNCHANGED <<history, dialog>>

-----------------------------------------------------------------------------
\* Markers of the other windows: _on_marker_click.

IncidentMarker ==
    /\ Click
    /\ \E i \in stored \cap Incidents, first, second \in Reads(Incidents) :
           /\ history' = DrilledDown(OpenedHistory(first), second, i)
           /\ outcome' = [record |-> i]
    /\ UNCHANGED <<stored, recent, sessionsWin, analytics, dialog>>

\* By way of History and Analytics, which are opened where they are not.
SessionMarker ==
    /\ Click
    /\ \E s \in stored \cap Sessions, incidents \in Reads(Incidents), sessions \in Reads(Sessions) :
       LET there == history # None /\ history.owns /\ analytics # None
           window == IF there THEN analytics ELSE NewAnalytics(incidents, sessions)
       IN /\ history' = [OpenedHistory(incidents) EXCEPT !.owns = TRUE]
          /\ analytics' = [window EXCEPT !.owns = TRUE]
          /\ sessionsWin' = DrilledDown(OpenedSessions(window.owns, window.selected, sessions), sessions, s)
          /\ outcome' = [record |-> s]
    /\ UNCHANGED <<stored, recent, dialog>>

-----------------------------------------------------------------------------
WindowsNext ==
    \/ RecordCompleted \/ RecordAges
    \/ OpenHistory \/ CloseHistory \/ FilterHistory \/ SelectIncident \/ IncidentIsShown
    \/ CloseSessions \/ FilterSessions \/ SelectSession \/ SessionIsShown \/ RefreshSessions
    \/ IncidentExportBegins \/ IncidentExportEnds
    \/ OpenAnalytics \/ CloseAnalytics \/ Recompute \/ SelectWorkload \/ ViewIncidents
    \/ OpenSessions \/ IncidentMarker \/ SessionMarker

\* A table has the records it read that its filters let through, but for those that have
\* grown old since; and what is selected is shown below it, or about to be.
TableIsTrue(t) ==
    /\ \A r \in t.rows : r \in t.loaded /\ Matches(t.filter, r)
    /\ \A r \in t.loaded \ t.rows : ~Matches(t.filter, r) \/ ~Within(t.filter.range, r)
    /\ t.selected \in t.rows \cup {None}
    /\ t.selected # None /\ ~t.pending => t.detail = t.selected

\* A marker's record is selected and shown, whatever the filters were, if it could be read.
Arrived(r) ==
    LET t == IF r \in Incidents THEN history ELSE sessionsWin
    IN /\ t.rows = t.loaded
       /\ r \in t.loaded => t.selected = r /\ t.detail = r

\* VIEW INCIDENTS shows all that Analytics counted of the workload, unless History's other
\* filters hide some or the file could not be read; and of other workloads only those in
\* whose name this one occurs.
WorkloadIsViewed(w) ==
    /\ \A i \in history.rows : WorkloadOf[i] = w \/ <<w, i>> \in FoundIn
    /\ \/ history.filter # [NoFilter EXCEPT !.workload = w]
       \/ history.loaded = {} \/ w \notin DOMAIN analytics.counts
       \/ Cardinality({i \in history.rows : WorkloadOf[i] = w}) >= analytics.counts[w].incidents

\* An exported file has nothing but what the filters written into it let through.
ExportIsTrue(e) == \A r \in e.records : Matches(e.filter, r)

WindowsAreTrue ==
    /\ history # None => TableIsTrue(history)
    /\ sessionsWin # None => TableIsTrue(sessionsWin)
    /\ outcome # None =>
           CASE "record" \in DOMAIN outcome -> Arrived(outcome.record)
             [] "viewed" \in DOMAIN outcome -> WorkloadIsViewed(outcome.viewed)
             [] OTHER -> ExportIsTrue(outcome)
=============================================================================
