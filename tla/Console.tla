------------------------------ MODULE Console ------------------------------
(***************************************************************************)
(* The program at its screen.  The worker samples and hands its snapshots  *)
(* over; the Tk thread takes them, judges the zone of a sensor, and keeps  *)
(* rows, tables, the event log and its many windows, which read the        *)
(* records of the past.  The parts modelled here share no state that the   *)
(* model keeps, so a behaviour is one of a single part.                    *)
(***************************************************************************)
EXTENDS ZoneDebounce, SnapshotQueue, Samplers, ProcessTables, Panels, Windows, Views, Markers,
        EventLog, Chronicle, Answers, Settings

VARIABLE part  \* the part this behaviour is about

ConsoleParts ==
    {"zone", "queue", "samplers", "tables", "panels", "windows", "views", "markers", "log",
     "records", "answers", "settings"}

consoleVars ==
    <<part, vars, handOverVars, samplerVars, tableVars, panelVars, windowVars, viewVars,
      markerVars, logVars, chronicleVars, answerVars, settingsVars>>

\* What a part begins with matters to itself only.
ConsoleInit ==
    /\ part \in ConsoleParts
    /\ Init
    /\ HandOverInit
    /\ SamplersInit /\ (part # "samplers" => kind = "intel" /\ there = {} /\ sampler = Empty)
    /\ TablesInit /\ (part # "tables" => \A p \in ProcessIds : processes[p] = None)
    /\ PanelsInit /\ (part # "panels" => panel = "fans")
    /\ WindowsInit /\ (part # "windows" => stored = {})
    /\ ViewsInit /\ (part # "views" => screen = "plain" /\ version = NoFacts)
    /\ MarkersInit
    /\ LogInit
    /\ ChronicleInit /\ (part # "records" => chronicle = <<>>)
    /\ AnswersInit
    /\ SettingsInit
    /\ part # "settings" => configFile = None /\ account = CHOOSE a \in Accounts : TRUE

Observing ==
    /\ part = "zone" /\ Next
    /\ UNCHANGED <<part, handOverVars, samplerVars, tableVars, panelVars, windowVars, viewVars,
                   markerVars, logVars, chronicleVars, answerVars, settingsVars>>

HandingOver ==
    /\ part = "queue" /\ HandOverNext
    /\ UNCHANGED <<part, vars, samplerVars, tableVars, panelVars, windowVars, viewVars,
                   markerVars, logVars, chronicleVars, answerVars, settingsVars>>

Sampling ==
    /\ part = "samplers" /\ SamplersNext
    /\ UNCHANGED <<part, vars, handOverVars, tableVars, panelVars, windowVars, viewVars,
                   markerVars, logVars, chronicleVars, answerVars, settingsVars>>

Tabulating ==
    /\ part = "tables" /\ TablesNext
    /\ UNCHANGED <<part, vars, handOverVars, samplerVars, panelVars, windowVars, viewVars,
                   markerVars, logVars, chronicleVars, answerVars, settingsVars>>

Displaying ==
    /\ part = "panels" /\ PanelsNext
    /\ UNCHANGED <<part, vars, handOverVars, samplerVars, tableVars, windowVars, viewVars,
                   markerVars, logVars, chronicleVars, answerVars, settingsVars>>

Browsing ==
    /\ part = "windows" /\ WindowsNext
    /\ UNCHANGED <<part, vars, handOverVars, samplerVars, tableVars, panelVars, viewVars,
                   markerVars, logVars, chronicleVars, answerVars, settingsVars>>

Viewing ==
    /\ part = "views" /\ ViewsNext
    /\ UNCHANGED <<part, vars, handOverVars, samplerVars, tableVars, panelVars, windowVars,
                   markerVars, logVars, chronicleVars, answerVars, settingsVars>>

Marking ==
    /\ part = "markers" /\ MarkersNext
    /\ UNCHANGED <<part, vars, handOverVars, samplerVars, tableVars, panelVars, windowVars,
                   viewVars, logVars, chronicleVars, answerVars, settingsVars>>

Logging ==
    /\ part = "log" /\ LogNext
    /\ UNCHANGED <<part, vars, handOverVars, samplerVars, tableVars, panelVars, windowVars,
                   viewVars, markerVars, chronicleVars, answerVars, settingsVars>>

Recording ==
    /\ part = "records" /\ ChronicleNext
    /\ UNCHANGED <<part, vars, handOverVars, samplerVars, tableVars, panelVars, windowVars,
                   viewVars, markerVars, logVars, answerVars, settingsVars>>

Answering ==
    /\ part = "answers" /\ AnswersNext
    /\ UNCHANGED <<part, vars, handOverVars, samplerVars, tableVars, panelVars, windowVars,
                   viewVars, markerVars, logVars, chronicleVars, settingsVars>>

Configuring ==
    /\ part = "settings" /\ SettingsNext
    /\ UNCHANGED <<part, vars, handOverVars, samplerVars, tableVars, panelVars, windowVars,
                   viewVars, markerVars, logVars, chronicleVars, answerVars>>

ConsoleNext ==
    \/ Observing \/ HandingOver \/ Sampling \/ Tabulating \/ Displaying
    \/ Browsing \/ Viewing \/ Marking \/ Logging \/ Recording \/ Answering
    \/ Configuring

\* The worker and the Tk thread are scheduled for ever; nothing is promised of a user.
ConsoleFairness ==
    /\ WF_handOverVars(part = "queue" /\ Worker)
    /\ WF_handOverVars(part = "queue" /\ Poll)

ConsoleSpec == ConsoleInit /\ [][ConsoleNext]_consoleVars /\ ConsoleFairness

-----------------------------------------------------------------------------
\* What is measured is true up to the row that shows it: nothing of Windows is lost track
\* of, the tables of who used the processor agree with each other, and each row is of one
\* sensor and its last reading.
UsageIsTrue == HandlesAreHeld /\ TablesAgree /\ RowsAreTrue /\ RowsAreKept

\* What the windows show is true, however long one has been open and whatever was done in
\* others: each table and pane is of what was last read, and of one thing; and the
\* settings are the ones requests are made with.
ScreensAreTrue == WindowsAreTrue /\ ViewsAreTrue /\ SettingsAreTrue

\* What is kept is found again: records and markers by their identifiers and times, and
\* events in the window as in the file; and who asks about a time is not told that there
\* was less than there was.
RecordsAreFound == IdsIdentify /\ TimelineSplits /\ MarkersAreTrue /\ LogIsTrue /\ AnswersAreTrue
=============================================================================
