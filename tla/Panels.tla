------------------------------- MODULE Panels -------------------------------
(***************************************************************************)
(* The panels of the dashboard and of the APPS and USAGE tabs: rows kept   *)
(* from poll to poll.  A row is found again by the identity of its sensor, *)
(* or by its parent, name and type while the bridge gives no identifier.   *)
(*                                                                         *)
(* A behaviour is one of a single panel.  The frames rows are drawn in are *)
(* numbered, and the number of a destroyed frame is used again.            *)
(***************************************************************************)
EXTENDS Values, Integers, Sequences, FiniteSets, FiniteSetsExt

CONSTANTS
    NameOf,    \* the parent, name and type, or the vendor and model, of what a panel may
               \* show, in the order it is reported
    Readings,  \* values
    RowLimit   \* rows of a panel that has a limit

ASSUME PanelConstants ==
    /\ NameOf \in Seq(Range(NameOf))
    /\ 0 \in Readings
    /\ RowLimit \in Nat

VARIABLES
    panel,     \* which panel this is
    reported,  \* what the last poll said of each: [identified, value], or None
    rows,      \* the row cache: key |-> [frame, text, opens]
    frames,    \* the frames that exist
    notice,    \* the label of an empty panel: [visible, packed]
    earlier    \* [keys, frame] before the last poll: the key of each, and the frame of a key

panelVars == <<panel, reported, rows, frames, notice, earlier>>

Units == DOMAIN NameOf

\* Panels of sensors, where a key may change; the others have one key for good.
OfSensors == {"fans", "voltages", "drives", "board", "dimms"}
PanelKinds == OfSensors \cup {"gpu", "devices", "apps"}

Legacy(unit) == <<"name", NameOf[unit]>>

\* sensor_identity; a sub-sensor of the GPU; vendor and name of a card; a PID or a disk.
IdentityOf(report, unit) ==
    IF \/ panel \in OfSensors /\ ~report[unit].identified
       \/ panel = "devices"
    THEN Legacy(unit)
    ELSE <<"id", unit>>

\* What a row shows: a zero is a probe without a reading for a drive and on the board.
Text(value) ==
    CASE panel \in {"fans", "voltages"} -> IF value = None THEN 0 ELSE value
      [] panel \in {"drives", "board"} -> IF value = 0 THEN None ELSE value
      [] OTHER -> value

\* Panels whose rows open the history of their sensor.
Opening == {"drives", "dimms"}

\* The units that get a row: what is reported, of which some panels show the first few.
Listed(report) ==
    LET present == {u \in Units : report[u] # None}
    IN IF panel \in {"drives", "devices", "gpu"} THEN present
       ELSE {u \in present : Cardinality({x \in present : x <= u}) <= RowLimit}

NoReport == [u \in Units |-> None]

\* The sub-sensors of the GPU are there together; the others come and go.
Reports ==
    [Units -> {None} \cup [identified : IF panel \in OfSensors THEN BOOLEAN ELSE {TRUE},
                           value : {None} \cup Readings]]

Complete(report) == report = NoReport \/ \A u \in Units : report[u] # None

NoRows == [k \in {} |-> None]

PanelsInit ==
    /\ panel \in PanelKinds
    /\ reported = NoReport
    /\ rows = NoRows
    /\ frames = {}
    /\ notice = [visible |-> FALSE, packed |-> FALSE]
    /\ earlier = [keys |-> NoRows, frame |-> NoRows]

-----------------------------------------------------------------------------
\* Mutant, used by no specification: a row is found under its first key only.
BugFound(cache, key, legacy) == cache

\* The row of a sensor that has got an identifier takes its new key.
Found(cache, key, legacy) ==
    IF panel \notin OfSensors \/ key \in DOMAIN cache \/ legacy \notin DOMAIN cache THEN cache
    ELSE [k \in (DOMAIN cache \ {legacy}) \cup {key} |->
             IF k = key THEN cache[legacy] ELSE cache[k]]

FreeFrame(taken) == Min(1 .. Cardinality(taken) + 1 \ taken)

\* What a click opens: _bind_click binds a frame once, to what it is updated with first.
NewRow(s, key) ==
    [frame |-> FreeFrame(s.frames), text |-> None,
     opens |-> IF panel \in Opening THEN key ELSE None]

\* A row that is there, updated, or a new one.
Updated(s, key, text) ==
    LET row == IF key \in DOMAIN s.rows THEN s.rows[key] ELSE NewRow(s, key)
    IN [rows |-> [k \in DOMAIN s.rows \cup {key} |->
                     IF k = key THEN [row EXCEPT !.text = text] ELSE s.rows[k]],
        frames |-> s.frames \cup {row.frame}]

\* One of the specs of _sync_rows.
Synced(report, s, u) ==
    LET key == IdentityOf(report, u)
    IN Updated([s EXCEPT !.rows = Found(@, key, Legacy(u))], key, Text(report[u].value))

\* All of them, in the order they are reported.
AllSynced(report) ==
    LET after[n \in 0 .. Len(NameOf)] ==
            IF n = 0 THEN [rows |-> rows, frames |-> frames]
            ELSE IF n \in Listed(report) THEN Synced(report, after[n - 1], n) ELSE after[n - 1]
    IN after[Len(NameOf)]

\* The rows that are not among the keys seen are destroyed.
Swept(s, seen) ==
    [rows |-> Restrict(s.rows, DOMAIN s.rows \cap seen),
     frames |-> s.frames \ {s.rows[k].frame : k \in DOMAIN s.rows \ seen}]

KeysOf(report) == {IdentityOf(report, u) : u \in Listed(report)}

\* _toggle_visible
Toggled(n, show) == IF show = n.visible THEN n ELSE [visible |-> show, packed |-> show]

\* The panel's part of update_data: its specs, _sync_rows and the label.
SyncRows ==
    /\ reported' \in Reports
    /\ panel = "gpu" => Complete(reported')
    /\ LET swept == Swept(AllSynced(reported'), KeysOf(reported'))
       IN rows' = swept.rows /\ frames' = swept.frames
    /\ notice' = Toggled(notice, reported' = NoReport)
    /\ earlier' = [keys |-> [u \in Listed(reported) |-> IdentityOf(reported, u)],
                   frame |-> [k \in DOMAIN rows |-> rows[k].frame]]
    /\ UNCHANGED panel

PanelsNext == SyncRows

-----------------------------------------------------------------------------
\* The names under which a row may have been handed to a sensor that is new to the panel
\* under its identifier.
HandedOver ==
    {Legacy(u) : u \in {x \in Listed(reported) :
                           panel \in OfSensors /\ IdentityOf(reported, x) \notin DOMAIN earlier.frame}}

\* A panel shows what the last poll reported, one row for each identity, with the last
\* reading that has it; but the row of a sensor without identifier may be missing for a
\* poll, when one of the same name has just got its identifier.  No frame is shared or
\* left over, and the label is there exactly while nothing is.
RowsAreTrue ==
    LET of(k) == Max({u \in Listed(reported) : IdentityOf(reported, u) = k})
    IN /\ DOMAIN rows \subseteq KeysOf(reported)
       /\ KeysOf(reported) \ DOMAIN rows \subseteq HandedOver
       /\ frames = {rows[k].frame : k \in DOMAIN rows}
       /\ Cardinality(frames) = Cardinality(DOMAIN rows)
       /\ \A k \in DOMAIN rows : rows[k].text = Text(reported[of(k)].value)
       /\ notice.packed = notice.visible

Alone(u) == \A o \in Units : NameOf[o] = NameOf[u] /\ reported[o] # None => o = u

\* A sensor keeps its row while it is reported under a name no other has, when it gets an
\* identifier too; and so does what has an identifier throughout.
RowsAreKept ==
    \A u \in DOMAIN earlier.keys \cap Listed(reported) :
        LET key == IdentityOf(reported, u)
        IN /\ earlier.keys[u] \in DOMAIN earlier.frame
           /\ Alone(u) \/ earlier.keys[u] = <<"id", u>>
           /\ earlier.keys[u] \in {key, Legacy(u)}
           => rows[key].frame = earlier.frame[earlier.keys[u]]

\* A click on a row opens the history of the sensor the row shows, as the comment of
\* _bind_click has it: "a sensor whose identity actually changes gets a brand NEW
\* widget".
ClicksOpenWhatIsShown == \A k \in DOMAIN rows : rows[k].opens \in {None, k}
=============================================================================
