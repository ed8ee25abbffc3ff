------------------------------ MODULE Reports ------------------------------
(***************************************************************************)
(* The health reports of app.py: the period that is due, generation by     *)
(* the timer, explicit regeneration, and the store that holds one report   *)
(* of each period, against evidence that comes late, that retention takes  *)
(* away, that is lost with a damaged file or that cannot be read.          *)
(*                                                                         *)
(* The clock counts half days.  A report is kept as the evidence it was    *)
(* built from.  Its conclusions are a function of that.                    *)
(***************************************************************************)
EXTENDS Values, Periods

CONSTANTS
    KeptDays,      \* TELEMETRY_, INCIDENT_ and SESSION_RETENTION_DAYS
    WindowDays,    \* EXPERIMENT_WINDOW_DAYS
    FirstInstant,  \* the clock when the behaviour begins
    LastInstant,   \* bound on the clock
    Pasts,         \* what earlier runs may have left in the stores
    MaxRecords,    \* bound on the incidents, the sessions and the changes of these runs
    MaxRuns,       \* bound on the starts of the program
    MaxUpsets      \* bound on faults of the stores and regenerations

ASSUME CalendarConstants ==
    /\ {KeptDays, WindowDays} \subseteq Nat \ {0}
    /\ {FirstInstant, LastInstant, MaxRecords, MaxRuns, MaxUpsets} \subseteq Nat
    /\ Cardinality({m \in MonthStarts : 2 * m <= FirstInstant}) > 1
    /\ \E m \in MonthStarts : 2 * m > LastInstant

Episodes == {"incidents", "sessions"}  \* the stores of what has a beginning and an end
Stores == Episodes \cup {"telemetry", "experiments"}

ASSUME PastsAssumption ==
    \A past \in Pasts :
        /\ past = [s \in Stores |-> past[s]]
        /\ \A s \in Episodes : \A r \in past[s] : r.to \in Nat
        /\ past["telemetry"] \subseteq Nat

VARIABLES
    clock,     \* the wall clock
    runs,      \* how often the program was started
    up,        \* whether it runs
    looked,    \* whether the timer has fired since time last passed
    upsets,    \* how many faults and regenerations there have been
    open,      \* when the active incident and the active session began, or None
    held,      \* of each store what it holds: closed incidents, completed sessions, the
               \* half days with telemetry, the instants of the changes the user marked
    reports,   \* the reports store
    happened   \* history: all that was ever stored, but what was lost with a damaged file

reportVars == <<clock, runs, up, looked, upsets, open, held, reports, happened>>

-----------------------------------------------------------------------------
Today == clock \div 2

\* overlapping_incidents and overlapping_sessions: to touch an end is enough.
Overlapping(records, from, to) == {r \in records : r.from <= to /\ r.to >= from}

Within(halfDays, from, to) == {t \in halfDays : from <= t /\ t < to}

\* A store that cannot be read is taken for an empty one.
Seen(stores, unread) == [s \in Stores |-> IF s \in unread THEN {} ELSE stores[s]]

\* experiment_window_bounds at the end of a period: what lies on each side of a change.
Side(change, period) ==
    LET end == 2 * period.to
    IN  Min({end - change, change - (end - 2 * KeptDays), 2 * WindowDays})

\* What compute_experiment_report compares.
Comparison(change, seen, period) ==
    LET from == change - Side(change, period)
        to   == change + Side(change, period)
    IN  [at        |-> change,
         sessions  |-> Overlapping(seen["sessions"], from, to),
         telemetry |-> Within(seen["telemetry"], from, to)]

\* A side has at least a day, and the comparison reaches into the period.
Compares(change, period) ==
    /\ Side(change, period) >= 2
    /\ change + Side(change, period) >= 2 * period.from

\* What build_report_payload reads.  The changes look back before the period, and
\* compute_recommendations at all sessions that are stored.
EvidenceOf(seen, period) ==
    [incidents |-> Overlapping(seen["incidents"], 2 * period.from, 2 * period.to),
     sessions  |-> Overlapping(seen["sessions"], 2 * period.from, 2 * period.to),
     telemetry |-> Within(seen["telemetry"], 2 * period.from, 2 * period.to),
     changes   |-> {Comparison(c, seen, period) :
                        c \in {m \in seen["experiments"] : Compares(m, period)}},
     advice    |-> seen["sessions"]]

Cutoff == clock - 2 * KeptDays

-----------------------------------------------------------------------------
ReportsInit ==
    /\ clock = FirstInstant
    /\ runs = 0
    /\ up = FALSE
    /\ looked = FALSE
    /\ upsets = 0
    /\ open = [e \in Episodes |-> None]
    /\ held \in Pasts
    /\ reports = <<>>
    /\ happened = held

Recorded(store, entries) ==
    /\ held' = [held EXCEPT ![store] = @ \cup entries]
    /\ happened' = [happened EXCEPT ![store] = @ \cup entries]

\* Of these runs there may be more.
Spare ==
    Cardinality({e \in Episodes : open[e] # None})
    + Cardinality({r \in happened["incidents"] \cup happened["sessions"] : r.to >= FirstInstant})
    + Cardinality({c \in happened["experiments"] : c >= FirstInstant}) < MaxRecords

\* Half a day, of which there is telemetry if the program runs.  The timer, which
\* fires every 15 minutes, fires in it.
HalfDay ==
    /\ clock < LastInstant
    /\ up => looked
    /\ looked' = FALSE
    /\ clock' = clock + 1
    /\ Recorded("telemetry", IF up THEN {clock} ELSE {})
    /\ UNCHANGED <<runs, up, upsets, open, reports>>

\* An incident opens, or a session is confirmed.
Begins(e) ==
    /\ up /\ open[e] = None
    /\ Spare
    /\ open' = [open EXCEPT ![e] = clock]
    /\ UNCHANGED <<clock, runs, up, looked, upsets, held, reports, happened>>

\* It ends, and its record is appended to the file.
Ends(e) ==
    /\ up /\ open[e] # None
    /\ open' = [open EXCEPT ![e] = None]
    /\ Recorded(e, {[from |-> open[e], to |-> clock]})
    /\ UNCHANGED <<clock, runs, up, looked, upsets, reports>>

\* The user marks a change of the hardware.
MarkChange ==
    /\ up /\ Spare
    /\ Recorded("experiments", {clock})
    /\ UNCHANGED <<clock, runs, up, looked, upsets, open, reports>>

\* The start prunes all but the changes.
ProgramStarts ==
    /\ ~up /\ runs < MaxRuns
    /\ up' = TRUE
    /\ runs' = runs + 1
    /\ held' = [s \in Stores |->
                   CASE s \in Episodes     -> {r \in held[s] : r.to >= Cutoff}
                     [] s = "telemetry"    -> {t \in held[s] : t + 1 >= Cutoff}
                     [] s = "experiments"  -> held[s]]
    /\ UNCHANGED <<clock, looked, upsets, open, reports, happened>>

ProgramStops ==
    /\ up
    /\ up' = FALSE /\ looked' = FALSE
    /\ UNCHANGED <<clock, runs, upsets, open, held, reports, happened>>

\* open_telemetry_db finds the file damaged and moves it aside.
TelemetryMovedAside ==
    /\ up /\ held["telemetry"] # {}
    /\ upsets < MaxUpsets
    /\ upsets' = upsets + 1
    /\ held' = [held EXCEPT !["telemetry"] = {}]
    /\ happened' = [happened EXCEPT !["telemetry"] = @ \ held["telemetry"]]
    /\ UNCHANGED <<clock, runs, up, looked, open, reports>>

\* open_reports_db finds the file damaged and moves it aside.
StoreMovedAside ==
    /\ up /\ reports # <<>>
    /\ upsets < MaxUpsets
    /\ upsets' = upsets + 1
    /\ reports' = <<>>
    /\ UNCHANGED <<clock, runs, up, looked, open, held, happened>>

\* What a report was built without is history: nothing in it tells.
Built(period, unread, regenerated, expired) ==
    [evidence |-> EvidenceOf(Seen(held, unread), period), unread |-> unread,
     regenerated |-> regenerated, expired |-> expired]

\* save_report without replace: INSERT OR IGNORE.
Saved(due, unread) ==
    [p \in DOMAIN reports \cup due |->
        IF p \in DOMAIN reports THEN reports[p] ELSE Built(p, unread, FALSE, FALSE)]

\* _check_due_reports: generate_due_reports looks up the previous period of each
\* type, a failing lookup counting as no report, builds and saves what is missing.
\* Stores may be unreadable, and any of the saves may fail, or be skipped for the
\* exception of an earlier one.
CheckDueReports ==
    LET previous == {PreviousCompletedPeriod(t, Today) : t \in Types} IN
    /\ up
    /\ \E overlooked, unsaved \in SUBSET previous, unread \in SUBSET Stores :
           LET due == (overlooked \cup {p \in previous : p \notin DOMAIN reports}) \ unsaved
           IN  /\ upsets' = upsets + Cardinality(overlooked) + Cardinality(unsaved)
                                   + Cardinality(unread)
               /\ upsets' <= MaxUpsets
               /\ reports' = Saved(due, unread)
    /\ looked' = TRUE
    /\ UNCHANGED <<clock, runs, up, open, held, happened>>

\* Mutant, used by no specification: looks at the end of the period.
BugExpired(period) == 2 * period.to < Cutoff

Expired(period) == 2 * period.from < Cutoff

\* regenerate_report, from what can be read of what the stores still hold.
Regenerate(period) ==
    /\ up /\ period \in DOMAIN reports
    /\ \E unread \in SUBSET Stores :
           /\ upsets' = upsets + 1 + Cardinality(unread)
           /\ upsets' <= MaxUpsets
           /\ reports' = [reports EXCEPT ![period] =
                             Built(period, unread, TRUE, Expired(period))]
    /\ UNCHANGED <<clock, runs, up, looked, open, held, happened>>

ReportsNext ==
    \/ HalfDay \/ ProgramStarts \/ ProgramStops \/ MarkChange
    \/ \E e \in Episodes : Begins(e) \/ Ends(e)
    \/ TelemetryMovedAside \/ StoreMovedAside \/ CheckDueReports
    \/ \E p \in DOMAIN reports : Regenerate(p)

-----------------------------------------------------------------------------
\* Built from less of its own period than there ever was, as far as that was not lost
\* with a damaged file and could be read.
Thinner(report, period) ==
    LET full == EvidenceOf(Seen(happened, report.unread), period)
    IN  \/ report.evidence.incidents # full.incidents
        \/ report.evidence.sessions # full.sessions
        \/ report.evidence.telemetry # full.telemetry

\* However lookups, reads and saves fail, files are lost and evidence comes late or is
\* pruned: a report is of a period that is over; what it once concluded changes by
\* regeneration only; and one that was rebuilt after retention took away of its period
\* says that its source has expired.  The program says nothing of what was lost or could
\* not be read, nor of what the changes and the advice, which look back before the
\* period, no longer find.
ReportsStand ==
    [][\A p \in DOMAIN reports' :
          /\ 2 * p.to <= clock
          /\ (p \in DOMAIN reports /\ reports'[p] # reports[p]) =>
                /\ reports'[p].regenerated
                /\ Thinner(reports'[p], p) => reports'[p].expired]_reportVars
=============================================================================
