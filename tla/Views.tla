-------------------------------- MODULE Views --------------------------------
(***************************************************************************)
(* The windows that show an analysis of what is recorded, computed when    *)
(* they are opened and refreshed and never by a poll: trends, the history  *)
(* of a sensor, the timeline, the reports, and those with nothing to       *)
(* choose (recommendations, fan response, maintenance, connections).       *)
(*                                                                         *)
(* A behaviour is one of a single kind of window.  Facts are what such     *)
(* windows are about: workloads with sessions, buckets, entries or stored  *)
(* reports, each with a version.  A read that fails has no facts.          *)
(***************************************************************************)
EXTENDS Values, Integers, FiniteSets, FiniteSetsExt

CONSTANTS
    Facts,      \* what there may be, numbered in the order it is listed
    KindOf,     \* the kind of an entry, the type of a report
    AgeOf,      \* how far back an entry or a bucket is
    MaxChanges  \* bound on what is done in a behaviour

ASSUME ViewConstants ==
    Facts \subseteq Nat \ {0} /\ AgeOf \in [Facts -> Nat] /\ MaxChanges \in Nat

VARIABLES
    screen,   \* the kind of window
    version,  \* of each fact, 0 while there is none
    view,     \* the window that its opener follows, None if there is none
    strays,   \* windows still open whose opener is gone
    owner,    \* is the window that opens this one there?
    export,   \* the file dialog: None, or [name, facts, group], what will be written
    written,  \* the file just written, or None
    changes

viewVars == <<screen, version, view, strays, owner, export, written, changes>>

Screens == {"plain", "settings", "trends", "sensor", "timeline", "reports"}

\* Slots of App: one for the settings, one for each sensor.  The others are History's.
OwnedByApp == {"settings", "sensor"}

\* Windows with a menu of ranges.  A range reaches back to an age, so a longer one has all
\* that a shorter one has.
Ranged == {"sensor", "timeline"}
Ranges == {AgeOf[f] : f \in Facts}

EntryKinds == {KindOf[f] : f \in Facts}

NoFacts == [f \in Facts |-> 0]
Present(seen) == {f \in Facts : seen[f] # 0}

\* What a read may give.
Read == {version, NoFacts}

\* What can be chosen: a workload; a range, and in the timeline the kinds that are listed;
\* a type of report or all.
Options ==
    CASE screen \in {"plain", "settings"} -> {None}
      [] screen = "trends" -> Facts \cup {None}
      [] screen = "sensor" -> Ranges
      [] screen = "timeline" -> [range : Ranges, kinds : SUBSET EntryKinds]
      [] screen = "reports" -> EntryKinds \cup {None}

\* The part of a choice that something is computed for.
ScopeOf(choice) == IF screen = "timeline" THEN choice.range ELSE choice

\* What is read for a choice: what is in the range, the type of the reports.
Asked(choice, seen) ==
    CASE screen \in Ranged -> [f \in Facts |-> IF AgeOf[f] <= ScopeOf(choice) THEN seen[f] ELSE 0]
      [] screen = "reports" /\ choice # None ->
             [f \in Facts |-> IF KindOf[f] = choice THEN seen[f] ELSE 0]
      [] OTHER -> seen

ViewsInit ==
    /\ screen \in Screens
    /\ version \in [Facts -> {0, 1}]
    /\ view = None
    /\ strays = 0
    /\ owner = TRUE
    /\ export = None
    /\ written = None
    /\ changes = 0

Step == changes < MaxChanges /\ changes' = changes + 1 /\ UNCHANGED screen

\* Something is recorded, changed or pruned.
FactChanges ==
    /\ Step
    /\ \E f \in Facts : version' = [version EXCEPT ![f] = IF @ = 0 THEN 1 ELSE 0]
    /\ written' = None
    /\ UNCHANGED <<view, strays, owner, export>>

-----------------------------------------------------------------------------
\* Reading and listing.

\* The rows of a table: the entries of the kinds that are ticked, or all.
Rows(choice, seen) ==
    IF screen = "timeline" THEN {f \in Present(seen) : KindOf[f] \in choice.kinds} ELSE Present(seen)

\* The picker of a workload keeps its choice while that is listed.
Picked(choice, seen) ==
    IF screen # "trends" \/ Present(seen) = {} \/ choice \in Present(seen) THEN choice
    ELSE Min(Present(seen))

\* What a window says of a choice, and of what it was computed from.
Said(choice, seen) ==
    IF screen = "trends" /\ choice \notin Present(seen) THEN None
    ELSE [of |-> ScopeOf(choice), seen |-> seen]

\* Mutant, used by no specification: the summary counts the entries that are listed.
BugSummary(rows, seen) == rows

\* The summary line and the table's first column of figures: of all that was read.
Summary(rows, seen) == Present(seen)

\* _render: rows without a selection.
Rendered(v) ==
    LET rows == Rows(v.choice, v.seen)
    IN [v EXCEPT !.rows = rows, !.selected = None,
                 !.detail = IF rows = {} THEN None ELSE v.detail]

\* _reload and _recompute.  A list of reports selects its first row, and the tree tells
\* _on_select later.
Recomputed(v, seen) ==
    LET choice == Picked(v.choice, seen)
        listed == Rendered([v EXCEPT !.choice = choice, !.seen = seen])
        first == screen = "reports" /\ listed.rows # {}
    IN [listed EXCEPT !.said = Said(choice, seen),
                      !.summary = Summary(listed.rows, seen),
                      !.selected = IF first THEN Min(listed.rows) ELSE None,
                      !.pending = first \/ v.pending]

Blank(choice) ==
    [choice |-> choice, seen |-> NoFacts, rows |-> {}, selected |-> None, detail |-> None,
     said |-> None, summary |-> {}, pending |-> FALSE]

\* What a window of this kind begins with: a range of those in its menu, all kinds and types.
FirstRange == CHOOSE r \in Ranges : TRUE
FirstChoice ==
    CASE screen = "timeline" -> [range |-> FirstRange, kinds |-> EntryKinds]
      [] screen = "sensor" -> FirstRange
      [] OTHER -> None

-----------------------------------------------------------------------------
\* Windows.

Unwritten == written' = None /\ UNCHANGED <<version, export>>

\* open_*: the window that is there is raised as it is.
Open ==
    /\ Step /\ Unwritten
    /\ owner \/ screen \in OwnedByApp
    /\ IF view # None THEN UNCHANGED view
       ELSE \E seen \in Read : view' = Recomputed(Blank(FirstChoice), Asked(FirstChoice, seen))
    /\ UNCHANGED <<strays, owner>>

Close ==
    /\ Step /\ Unwritten
    /\ export = None
    /\ \/ view # None /\ view' = None /\ UNCHANGED strays
       \/ strays > 0 /\ strays' = strays - 1 /\ UNCHANGED view
    /\ UNCHANGED owner

\* Mutant, used by no specification: the slot goes with the window that filled it.
BugOrphaned == view

\* Does the window lose its opener with History?
Orphaned == IF screen \in OwnedByApp THEN None ELSE view

\* History is closed and opened again: its new window has no others.
HistoryReopened ==
    /\ Step /\ Unwritten
    /\ owner' = ~owner
    /\ IF owner /\ Orphaned # None THEN view' = None /\ strays' = strays + 1
       ELSE UNCHANGED <<view, strays>>

Refresh ==
    /\ Step /\ Unwritten
    /\ view # None
    /\ \E seen \in Read : view' = Recomputed(view, Asked(view.choice, seen))
    /\ UNCHANGED <<strays, owner>>

\* A menu or checkbox.  The workload is looked up among those read last, and only its
\* report is computed again; the boxes of the timeline list again what was read, and its
\* menu of ranges reads again, with the boxes as they are.
Choose ==
    /\ Step /\ Unwritten
    /\ view # None
    /\ \E choice \in Options \ {view.choice} :
       LET chosen == [view EXCEPT !.choice = choice]
       IN CASE screen = "timeline" /\ choice.range = view.choice.range -> view' = Rendered(chosen)
            [] screen = "timeline" /\ choice.range # view.choice.range ->
                   /\ choice.kinds = view.choice.kinds
                   /\ \E seen \in Read : view' = Recomputed(chosen, Asked(choice, seen))
            [] screen = "trends" ->
                   /\ choice \in Present(view.seen)
                   /\ \E seen \in Read :
                          view' = [chosen EXCEPT !.said = [of |-> choice, seen |-> seen]]
            [] OTHER -> \E seen \in Read : view' = Recomputed(chosen, Asked(choice, seen))
    /\ UNCHANGED <<strays, owner>>

Select ==
    /\ Step /\ Unwritten
    /\ view # None /\ screen \in {"timeline", "reports"}
    /\ \E f \in view.rows : view' = [view EXCEPT !.selected = f, !.pending = TRUE]
    /\ UNCHANGED <<strays, owner>>

\* _on_select: what is selected by then, as it was read.
DetailIsShown ==
    /\ view # None /\ view.pending
    /\ view' = [view EXCEPT !.pending = FALSE,
                            !.detail = IF view.selected = None THEN @
                                       ELSE [of |-> view.selected, at |-> view.seen[view.selected]]]
    /\ Unwritten
    /\ UNCHANGED <<screen, strays, owner, changes>>

-----------------------------------------------------------------------------
\* Reports and exports.

\* _regenerate: of what is stored now, if that can be replaced; the list is read again.
Regenerate ==
    /\ Step
    /\ screen = "reports" /\ view # None /\ view.selected # None
    /\ written' = None
    /\ \/ UNCHANGED <<version, view>>
       \/ /\ version[view.selected] \in {1, 2}
          /\ version' = [version EXCEPT ![view.selected] = @ + 1]
          /\ \E seen \in {version', NoFacts} : view' = Recomputed(view, Asked(view.choice, seen))
    /\ UNCHANGED <<strays, owner, export>>

\* _export_json, _export: the name of the file is made before the dialog is open.  A report
\* is the one selected then, a history what the window has when it closes.
Exporting(v) ==
    IF screen = "reports" THEN [name |-> v.selected, facts |-> [f \in {v.selected} |-> v.seen[f]]]
    ELSE [name |-> v.choice, facts |-> v.seen]

ViewExportBegins ==
    /\ Step
    /\ view # None /\ export = None
    /\ \/ screen = "reports" /\ view.selected # None
       \/ screen = "sensor" /\ Present(view.seen) # {}
    /\ export' = Exporting(view)
    /\ written' = None
    /\ UNCHANGED <<version, view, strays, owner>>

\* The header of a history names the range its buckets were read for.
ViewExportEnds ==
    /\ Step
    /\ export # None
    /\ export' = None
    /\ written' \in {None, IF screen = "reports" THEN export
                           ELSE [name |-> view.said.of, facts |-> view.seen]}
    /\ UNCHANGED <<version, view, strays, owner>>

ViewsNext ==
    \/ FactChanges \/ Open \/ Close \/ HistoryReopened \/ Refresh \/ Choose \/ Select \/ DetailIsShown
    \/ Regenerate \/ ViewExportBegins \/ ViewExportEnds

-----------------------------------------------------------------------------
\* What a window says is of one choice and one read, whichever of its menus were used
\* since: but the report on a workload may be newer than the digest above it.  All that it
\* has is of the range it names.  Figures on the whole do not depend on what is listed, what
\* is listed is what was read, and what is selected is shown below, or about to be.
ViewIsTrue(v) ==
    /\ v.said # None => /\ v.said.of = ScopeOf(v.choice)
                        /\ screen # "trends" => v.said.seen = v.seen
    /\ screen \in Ranged => \A f \in Present(v.seen) : AgeOf[f] <= v.said.of
    /\ v.summary = Present(v.seen)
    /\ v.rows = Rows(v.choice, v.seen)
    /\ v.selected \in v.rows \cup {None}
    /\ v.selected # None /\ ~v.pending => v.detail = [of |-> v.selected, at |-> v.seen[v.selected]]

\* A file has one report under its name, or a history of no more than the range it names;
\* the settings are open once, and so is the history of a sensor.
ViewsAreTrue ==
    /\ view # None => ViewIsTrue(view)
    /\ written # None =>
           IF screen = "reports" THEN DOMAIN written.facts = {written.name}
           ELSE \A f \in Present(written.facts) : AgeOf[f] <= written.name
    /\ screen \in OwnedByApp => strays = 0
=============================================================================
