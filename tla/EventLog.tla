------------------------------ MODULE EventLog ------------------------------
(***************************************************************************)
(* The event log: a file of lines that outlives the program, the last      *)
(* MaxEvents of it in memory, and the first MaxRows of those as rows that  *)
(* are added one by one.  A line that a crash cuts short takes the next    *)
(* one with it, as that is appended to the same line.                      *)
(*                                                                         *)
(* The threads of the evidence pipe append to the file too, which the      *)
(* panel shows after the next start.  Where two lines are appended at the  *)
(* same time one may be lost: that one is taken for a failed write.        *)
(***************************************************************************)
EXTENDS Integers, Sequences

CONSTANTS
    MaxEvents,  \* maxlen of the deque
    MaxRows,    \* rows of the EVENT LOG panel
    KeptAge,    \* LOG_RETENTION_DAYS
    LastDay,    \* bound on the days of a behaviour
    MaxLogged   \* bound on its events

ASSUME LogConstants ==
    {MaxEvents, MaxRows, KeptAge, LastDay, MaxLogged} \subseteq Nat /\ MaxRows <= MaxEvents

VARIABLES
    logDay,    \* the day
    logged,    \* how many events there were: each is [n, at, pipe]
    loaded,    \* how many there were when the program began
    logFile,   \* the readable lines, oldest first
    cutShort,  \* does the file end in a line without an end?
    running,   \* does the program run?
    events,    \* newest first
    logRows,   \* what the rows show
    logEmpty,  \* is "No events yet." shown?
    adrift     \* has the program failed to read or write the file since it began?

logVars == <<logDay, logged, loaded, logFile, cutShort, running, events, logRows, logEmpty, adrift>>

LogInit ==
    /\ logDay = 0
    /\ logged = 0
    /\ loaded = 0
    /\ logFile = <<>>
    /\ cutShort = FALSE
    /\ running = FALSE
    /\ events = <<>>
    /\ logRows = <<>>
    /\ logEmpty = FALSE
    /\ adrift = FALSE

First(n, s) == SubSeq(s, 1, IF Len(s) < n THEN Len(s) ELSE n)

\* appendleft on the deque
Pushed(e, s) == First(MaxEvents, <<e>> \o s)

\* Mutant, used by no specification: the rows are not trimmed.
BugRowAdded(e) == <<e>> \o logRows

\* _append_log_row: one row above the others, and none beyond the cap.
RowAdded(e) == First(MaxRows, <<e>> \o logRows)

NextEvent(pipe) == [n |-> logged + 1, at |-> logDay, pipe |-> pipe]

\* log_event.  A failed write is not reported.
LogEvent ==
    /\ running /\ logged < MaxLogged
    /\ logged' = logged + 1
    /\ LET e == NextEvent(FALSE)
       IN /\ events' = Pushed(e, events)
          /\ logRows' = RowAdded(e)
          /\ \/ /\ logFile' = IF cutShort THEN logFile ELSE Append(logFile, e)
                /\ cutShort' = FALSE
                /\ adrift' = (adrift \/ cutShort)
             \/ adrift' = TRUE /\ UNCHANGED <<logFile, cutShort>>
    /\ logEmpty' = FALSE
    /\ UNCHANGED <<logDay, loaded, running>>

\* _log_pipe_event, which must not touch the panel from its thread.
LogPipeEvent ==
    /\ running /\ logged < MaxLogged
    /\ logged' = logged + 1
    /\ \/ /\ logFile' = IF cutShort THEN logFile ELSE Append(logFile, NextEvent(TRUE))
          /\ cutShort' = FALSE
       \/ UNCHANGED <<logFile, cutShort>>
    /\ UNCHANGED <<logDay, loaded, running, events, logRows, logEmpty, adrift>>

\* The program is killed, perhaps while it writes a line.
Killed ==
    /\ running
    /\ running' = FALSE
    /\ events' = <<>> /\ logRows' = <<>> /\ logEmpty' = FALSE
    /\ \/ UNCHANGED <<logged, cutShort>>
       \/ logged < MaxLogged /\ logged' = logged + 1 /\ cutShort' = TRUE
    /\ adrift' = FALSE
    /\ UNCHANGED <<logDay, loaded, logFile>>

\* render_log: every row anew.
Rerendered(list) ==
    /\ events' = list
    /\ logRows' = First(MaxRows, list)
    /\ logEmpty' = (list = <<>>)

\* atomic_write_lines: a new file replaces the old one.
Replaced(lines) ==
    /\ logFile' = lines
    /\ cutShort' = FALSE

\* Lines appended to the deque from the left, one after the other.
NewestLines(lines) == First(MaxEvents, [i \in 1 .. Len(lines) |-> lines[Len(lines) + 1 - i]])

\* load_events: what is young enough, which are the last lines, is shown and the file
\* rewritten, all of it or nothing.  If it cannot be read nothing is shown, not even that
\* there is nothing.
StartProgram ==
    /\ ~running
    /\ running' = TRUE
    /\ loaded' = logged
    /\ \/ /\ adrift' = (logFile # <<>>)
          /\ UNCHANGED <<logFile, cutShort, events, logRows, logEmpty>>
       \/ \E n \in 0 .. Len(logFile) :
             LET kept == SubSeq(logFile, n + 1, Len(logFile))
             IN /\ \A i \in DOMAIN logFile : logFile[i].at < logDay - KeptAge <=> i <= n
                /\ Rerendered(NewestLines(kept))
                /\ \/ Replaced(kept) /\ adrift' = FALSE
                   \/ adrift' = (n # 0) /\ UNCHANGED <<logFile, cutShort>>
    /\ UNCHANGED <<logDay, logged>>

\* Mutant, used by no specification: the lines are kept.
BugCleared == logFile

Cleared == <<>>

\* clear_log: the window first, then the file.
ClearLog ==
    /\ running
    /\ Rerendered(<<>>)
    /\ \/ logFile' = Cleared /\ cutShort' = FALSE /\ adrift' = FALSE
       \/ adrift' = (adrift \/ logFile # <<>>) /\ UNCHANGED <<logFile, cutShort>>
    /\ UNCHANGED <<logDay, logged, loaded, running>>

LogDayPasses ==
    /\ logDay < LastDay
    /\ logDay' = logDay + 1
    /\ UNCHANGED <<logged, loaded, logFile, cutShort, running, events, logRows, logEmpty, adrift>>

LogNext == LogEvent \/ LogPipeEvent \/ Killed \/ StartProgram \/ ClearLog \/ LogDayPasses

-----------------------------------------------------------------------------
\* read_event_log_file: what load_events finds too, without touching the file.
ReadLog == {logFile[i] : i \in DOMAIN logFile}

\* timeline_log_events: the entries of the timeline of a window.  Those of the pipe are of
\* a kind it never shows.
LogEventsOf(from, to) == {e \in ReadLog : ~e.pipe /\ from <= e.at /\ e.at <= to}

\* The file is in order, and so, newest first, are the events, whose newest are the rows,
\* however they were added.  Unless the file failed, the panel has all that is in it but
\* what the pipe wrote since the program began, down to some event if it is full, and each
\* entry of its own is on the timeline of its day, which reads the file anew.
LogIsTrue ==
    running =>
        /\ logRows = First(MaxRows, events)
        /\ logEmpty => logRows = <<>>
        /\ \A i, j \in DOMAIN events : i < j => events[i].n > events[j].n
        /\ \A i, j \in DOMAIN logFile : i < j => logFile[i].n < logFile[j].n
        /\ ~adrift =>
              LET inPanel == {events[i] : i \in DOMAIN events}
                  inFile == {e \in ReadLog : e.pipe => e.n <= loaded}
              IN /\ inPanel \subseteq inFile
                 /\ \A e \in inFile \ inPanel : Len(events) = MaxEvents /\ \A o \in inPanel : e.n < o.n
                 /\ \A e \in inPanel : e.pipe \/ e \in LogEventsOf(e.at, e.at)
=============================================================================
