# Thermal Watch in TLA+

Models, model-checking runs and machine-checked proofs for Thermal Watch, the
Windows hardware monitor in this repository. The program is `app.py`: one Tk
process with a sampling thread, a handful of timers, a local pipe, and a few
small files in which its history survives a close, a crash or a suspend. Beside it run
the elevated sensor bridge (`sensor_bridge_v3.ps1`), the evidence tool
(`thermal_watch_evidence_cli.py`) and, in the same process, the AI package `ai/`.

1. [The system](#1-the-system)
2. [Modules](#2-modules)
3. [Runs](#3-runs)
4. [Fairness](#4-fairness)
5. [Proofs](#5-proofs)
6. [What the runs found](#6-what-the-runs-found)
7. [Limits of the models](#7-limits-of-the-models)
8. [Not modelled](#8-not-modelled)
9. [Plan](#9-plan)

## 1. The system

Line numbers are of `app.py` unless a file is named.

| Part | State it keeps | Operations | What is hard | What makes it correct |
|---|---|---|---|---|
| **Zone engines** 79-191, 12590-12852, 12977-13017 | confirmed and pending zone of each sensor, `active_alerts` | one update per tick and sensor | time-based debounce, silent ticks, sleep | an alert is never worse than the last value, comes when a zone is held, and not before |
| **Incident engine** 11314-11618, 12340-12469 | `incidents_active`, `incident_restore_pending`, `_active_incidents_dirty`, two files | open, touch, close; save, flush; load, reconcile; live gap | crashes and failing writes between two files, restart before the alert engine has settled, suspends | an incident exists exactly while its alert does, is completed once, is not forgotten, and its record is honest about unobserved time |
| **Workload sessions** 11861-12225 | candidates, confirmed sessions, `session_restore_pending`, two files | observe, confirm, idle out, close, restore, reconcile, link incidents | as for incidents, with per-tick accounting | time is attributed once and never over a gap |
| **Worker and poll loop** 11110-11235, 13731-13784 | `q` (maxsize 2), `stop_event`, the tick count, `_lhm` | put, evict, put again; drain, update, re-arm; destroy | two threads on one bounded queue | the newest snapshot survives, order is kept, polling and the thread's end are certain |
| **Monitoring gap detection** 11513-11606 | `_last_tick_wall_time` | one check per tick | wall clock | one gap per outage, in every store |
| **Telemetry** 650-1121, 12228-12338 | bucket in progress, SQLite store, legacy JSONL | observe, finalise, split at a gap, prune, migrate | damage, a migration that is repeated, views computed four ways | buckets tile watched time, and every view says what the samples said |
| **Evidence ids, coverage gaps** 1416-1470, 3481-3600 | none: functions of the stores | assign, derive | retention, torn lines, midnight | an id names one record |
| **Evidence snapshot and pipe** 11621-11850, `thermal_watch_evidence_pipe.py`, `thermal_watch_evidence_cli.py` | cache under a lock, snapshot file, pipe instances | flush, accept, answer, stop | threads against the Tk thread, shutdown | an answer is one whole snapshot, claims no coverage it has not, and the server stops |
| **AI ask mode** 9318-9840, `ai/` | one request in flight, adapter, settings | ask, tool calls, guard, poll, save settings | late answers, settings that change | one question at a time, and nothing shown that its evidence contradicts |
| **Sensor bridge supervision** 6512-6636, 11242-11275, `sensor_bridge_v3.ps1`, `launch.ps1` | mutex, heartbeat and status files, last recovery attempt | check, spawn, admit, publish | timeouts against a slow start, identifiers used again | a dead bridge is replaced |
| **Network rates** 6252-6509, `sensor_bridge_v3.ps1` 330-599 | capture totals and names, file, previous counters | capture, publish, compare | restarts, resets, stale files | what moved is counted once |
| **Nox, fan and memory alerts** 12606-12630, 12688-12715, 12854-12881 | pending times, `nox_alert_armed`, fan curve | one update per tick | hysteresis | one message per excursion |
| **Reports** 3718-4200, 10434-10453 | SQLite table | due periods, generate, regenerate | repeated generation, evidence that expires, is lost or cannot be read | a report stands as first concluded |
| **Analytics** 1474-2980, 4443-4546 | none | baselines, anomalies, trends, diagnostics, outlook | boundaries, small samples | analyses of one history agree |
| **Experiments** 2987-3300, 8700-8860 | JSONL file | append, delete, report | two windows over one file | a deletion takes what was selected |
| **Questions** 4623-4912 | none | intent, window, answer | calendar, evidence that is still in progress | what happened is not denied |
| **Timeline, event log** 3391-3640, 11282-11312, 12471-12541 | deque, rows, JSONL file | log, load, clear, merge | threads that append, torn lines | window and file tell the same |
| **Samplers, process tables** 5043-5730 | PDH queries, adapter handle, previous counters | collect, expand, connect | hot-plug, failed calls, reused PIDs | no handle is lost; nobody used more than there was |
| **Panels, windows** 6671-10200, 12884-12945, 13240-13700 | row cache, tables, selections, dialogs | sync, reload, filter, drill down, export | windows that stay open while the stores move on | what is shown is of one read |

How they interact. The worker thread samples everything into one dictionary
and hands it over through the queue; `poll` on the Tk thread drains the queue to the
newest snapshot and calls `update_data`, which first looks for a monitoring gap
and then walks the sensors in a fixed order: each one's zone engine updates
`active_alerts`, then the incident engine looks at what the zone engine did, and
at the end the session engine observes the tick and the panels are redrawn.
All timers (reconcile, flush, reports, evidence, bridge) are Tk callbacks, so
they never interleave with a tick, only with each other at callback boundaries.
What does interleave is the disk: the process can die between any two writes of
one callback, and the next process reads whatever was there. Only the worker,
the pipe's threads and AI requests run on threads of their own; the bridge is
another process, known by the files it publishes.

## 2. Modules

A module header says what it abstracts. `PROJECT.json` maps every definition
to the lines it translates.

| Module | Models | Composed in |
|---|---|---|
| `Zones`, `ZoneDebounce` | the debounce rule, and one sensor's zone and alert over a run of the program | `Console`, `IncidentEngine` (`Zones`) |
| `RecordLedger` | what a store promises: a pair of files (active, completed) (abstract) | refined by the next two |
| `IncidentEngine`, `IncidentAudit` | zone and incident engines of several sensors with both files; with an observer of every unobserved interval | |
| `WorkloadSessions` | the session engine with its two files, restore, and the linking of incidents | |
| `SnapshotQueue` | `worker`, `poll`, `destroy` | `Console` |
| `Telemetry`, `TelemetryViews` | buckets and store; charts, summaries, totals, gaps and their identifiers | |
| `EvidenceAnswers` | the evidence operations, one request against one snapshot | `EvidencePipe`, `AskAI` |
| `EvidencePipe` | publication, cache, accept thread, connection threads, shutdown | `AskAI` |
| `GroundingGuard` | the review of a claim | `AskAI` |
| `AskAI` | questions, tool calls and windows; and all who ask for evidence, against publication and shutdown | |
| `BridgeWatch`, `NetworkRates`, `TickAlerts`, `Reports`, `AnalysisHistory`, `Periods` | one part each, see below | `Upkeep` |
| `Periods`, `Analytics` | the calendar, with the hour questions are asked at; means, spreads, trends and the analyses, as operators | `Reports`, `AnalysisHistory`, `Upkeep` |
| `Samplers`, `ProcessTables`, `Panels`, `Windows`, `Views`, `Markers`, `EventLog`, `Chronicle`, `Answers`, `Settings` | one part each, see below | `Console` |
| `Values` | the constant `None` | |
| `*_proofs` | theorems about the module they are named after; `IncidentEngine_proofs` also about `IncidentAudit`, `AskAI_proofs` about `EvidencePipe` and the guard, `Upkeep_proofs` about `NetworkRates`, `TickAlerts`, `Reports`, `Periods`, `Analytics` and `AnalysisHistory`, `Console_proofs` about all the parts of `Console` | |
| `Extrema` | lemmas: some naturals have a least, the library's `Min` and `Max` are among their sets, and what sums over finite sets are | `Telemetry_proofs`, `AskAI_proofs`, `Upkeep_proofs`, `Console_proofs` |
| `MC*` | sensors, readings, records and zone tables of the runs | |

`Console` and `Upkeep` put parts side by side that share no state the models keep.
A behaviour of theirs is one of a single part (the variable `part`): interleaving
independent parts would multiply the states and add no case. Parts that do share
state (the incident engine with its zones and files, the sessions with incidents, the
pipe with publication and shutdown) are each in one module or one composition.

### Zones

A zone is its severity, so `ZONE_SEVERITY[a] > ZONE_SEVERITY[b]` is `a > b`. A
reading of None is `NoReading`. The three sensor engines repeat one rule over
three sets of variables; it is written once. The network engine is the same
rule over two of the zones with "RED is immediate" switched off
(`RedAtOnce = FALSE`, and `RedDebounced` in `IncidentEngine`). `ZoneDebounce`
has the actions `Observe` (a value) and `Silence` (a tick without one).

### IncidentEngine

Every callback that touches incident state is an action, or a chain of actions
where the order of its effects can be seen from outside:

| Code | Actions |
|---|---|
| `update_data`: gap check, then the sensors in turn | `TickBegin` or `TickAfterGap`; then for each sensor one of `ReadNothing`, `ReadPending`, `ReadQuiet`, `OpenIncident`, `TouchIncident`, `CloseIncident`; `TickAborts` for an exception on the way, which `poll` logs and survives |
| `_persist_incident`, `_save_active_incidents` | a callback leaves the list of writes it makes in `io`; `AppendIncident`, `SaveSnapshot` and `WriteFails` carry them out one at a time. No other callback starts before `io` is empty, as on the Tk thread; `Crash` can come between any two |
| `__init__`, `load_incidents`, `load_active_incidents` | `Start` |
| `_reconcile_restored_incidents` | `ReconcileBegin`, then one `ResumeRestored` or `CloseRestored` per incident (in any order: the dictionary's), then `ReconcileEnd` with the single save |
| `_flush_active_incidents_periodic` | `Flush` |
| `close`, `destroy` | `CloseApp`, `Exit` |
| the kill, the power cut | `Crash`; an append under way can leave half a line (`torn`), which the next append continues and every reader skips |

`snapshot` is the active-incident file (written through a temporary file and
replaced, hence atomic), `history` the completed-incident file. Incidents carry
what the properties need: identity, worst zone, last observation, gaps,
`duration_exact` and the one-tick flag `_live_gap_pending`. An identifier is the
pair of component and opening time, as in `f"{component}-{int(now * 1000)}"`.

### WorkloadSessions

| Code | Actions |
|---|---|
| `update_data`: gap check, then at its end `_session_observe_tick` | `ObserveTick` (samples, debounce, lost candidates), `CloseIdle` once for each session whose grace has run out, `TickEnds` with the linking of incidents; `TickAborts` when `update_data` raises before the sessions' turn, which leaves `_session_last_tick_time` behind `_last_tick_wall_time` |
| `load_sessions`, `load_active_sessions`, `__init__` | `Start` |
| `_reconcile_restored_sessions` | `ReconcileBegin`, then `ResumeRestored` or `CloseRestored` for each, then `ReconcileEnds` |
| `_persist_session`, `_save_active_sessions` | `AppendSession`, `SaveSnapshot` on the list `io`, as in `IncidentEngine` |
| `_flush_active_sessions_periodic`, `close`, `destroy` | `Flush`, `CloseApp`, `Exit` |
| the incident engine | `IncidentCloses`: an incident enters `incidents_recent` |

The two engines use the same scheme in two copies, with differences the model
keeps: sessions have candidates that never reach the disk, are confirmed
without a save, record a live gap without a save, and are exact only without
gaps. `zoneTime` stands for every accumulator of seconds (zone times and
foreground time). Both implement `RecordLedger`.

### SnapshotQueue

The two threads interleave between any two operations on `queue.Queue`, which
are atomic in CPython. A snapshot is its tick number. `Destroy` is a Tk callback
and therefore happens only between polls.

### Telemetry and TelemetryViews

| Code | Actions |
|---|---|
| `_telemetry_observe_tick`, `_telemetry_finalize_bucket`, `_record_live_monitoring_gap` | `TickBegins` (the gap check splits the bucket), `TickEnds` (the sample, and a finished bucket inserted), `TickAborts` |
| `TelemetryStore.__init__`, damage and the file moved aside | `Start`, `OpenFails`, `Damage` |
| `migrate_jsonl_if_needed` | `Migrate`, `RenameLegacy`, `MigrationRaises`: a crash between any two repeats it at the next start |
| `prune`, `close` | `Prune`, `Close` |

A sample is the time it was taken at, and each bucket has the set of its samples
as a history variable no action reads. `TelemetryViews` has the functions over
stored buckets: merging aggregates, the display groups with their `gap_before`
flags, window summaries, totals of counters, and the unmonitored gaps with the
identifier of their day. `ViewsAgree` compares each with the samples themselves, for points of a chart
that stand for no more buckets than make a gap (section 6 has what happens beyond).

### EvidenceAnswers, EvidencePipe, GroundingGuard, AskAI

`EvidenceAnswers!Answer` is the dispatch the pipe, the tool and the AI broker
share: validation of a request, limits, coverage status, availability.
`EvidencePipe` has the refresh of the snapshot in two steps (file, then cache:
`FlushFile`, `FlushCache`), the accept thread as a program counter (`Create`,
`Retry`, `Connected`, `AwaitStops`), one connection thread per pipe instance
(`Read`, `Handle`, `FetchRows`, `FetchCoverage`, `Write`), clients that leave, and `stop()` with its join. A call
that can fail fails at most `MaxFaults` times.

`GroundingGuard!Reviewed` has every rule: a claim extracted from a model's answer is
shown or redacted by what was retrieved. `AskAI` has the window (`OpenWindow`,
`CloseWindow`, `Ask`, `Poll`), the thread of a question (`Works`: ask for a tool,
receive evidence, answer, fail) and the settings (`Save`). A model may ask for
anything and claim anything in `ToolCalls` and `Claims`. Its `Spec` puts
both against one publisher and the end of the program.

### The parts of Upkeep

| Module | State | Actions and the code they stand for |
|---|---|---|
| `BridgeWatch` | the process under each identifier, prompts on the screen, ages of the two files, the application's `bridge_health` and last attempt | the bridge: `Admission` (mutex), `SetUp`, `Publish`, `PollFails`, `Report`, `Leave`; Windows: `PromptAccepted`, `PromptDeclined`, `Dies`, `Other` (a program that gets the identifier of a dead bridge); the launcher and the window: `OpenApp`, `CloseApp`; the 5 s timer: `CheckBridgeHealth`; the worker's choice of a source: `SampleSensors`. Ages count timer periods and saturate |
| `NetworkRates` | programs under identifiers, adapter counters, capture events, `$netProcTotals`, `$netProcNames`, the published file, the worker's previous readings | `Traffic`, `ProgramChanges`, `AdapterResets`, `RouteChanges`; `BridgeStarts`, `CaptureRound`; `WorkerTick` (`process_network_rates`, `sample_network`). `moved` and `shown` are history variables: what moved, and what the rates add up to |
| `TickAlerts` | `nox_alert_pending_since`/`_armed`, the fan's state, the fan and memory alerts, the curve, the previous adapter | `Tick`: one action for the part of `update_data` that decides these, in its order |
| `Reports` | clock in half days; what the four stores hold (incidents, sessions, half days with telemetry, marked changes), what is open, the table | `CheckDueReports` (the 15 min timer), `Regenerate`, each with stores that may be unreadable; `TelemetryMovedAside`, `StoreMovedAside`; `ProgramStarts` with its pruning; incidents and sessions that begin and end around midnight, `MarkChange`. A report is the evidence it was built from (`EvidenceOf`): that of its period, the comparisons of changes that reach into it, and the sessions its recommendations look at. `happened` is a history variable |
| `AnalysisHistory` | the sessions and resting temperatures so far | `SessionEnds`, `Rest`; the analyses of `Analytics` are evaluated on every history that comes up |
| `Periods` | the hour | `HourPasses`: every hour of four days, each phrase `parse_time_window` knows |

### The parts of Console

| Module | State | Actions and the code they stand for |
|---|---|---|
| `Samplers` | the instances Windows has, the sampler's query and counters, handles Windows holds | `CollectCounters` (PDH samplers with re-expansion), `SampleAdapter` and `CloseAdapter` (D3DKMT), `Hotplug`; any call may fail |
| `ProcessTables` | processes under identifiers, their counters, `prev_proc_times`, the tables of the last tick | `SampleProcesses`; `UnitPasses`, `ProcessChanges`, `ClockIsSet` |
| `Panels` | the row cache, frames, the label of an empty panel | `SyncRows` (`_sync_rows`, `_toggle_visible`, `_bind_click`) for eight kinds of panel |
| `Windows` | both record files, History, Sessions, Analytics, one file dialog | opening, closing, filters, selection and its delayed event, drill-down, markers of charts, exports |
| `Views` | windows that compute once: trends, sensor history and timeline with nested ranges, reports, and plain ones | `Open`, `Refresh`, `Choose`, `Select`, `DetailIsShown`, `Regenerate`, exports, `HistoryReopened` |
| `Markers` | the experiment file and the windows over it | `MarkChange`, `DeleteSelected`, `RefreshTable`, `OpenTable`, ... |
| `EventLog` | the file, the deque in memory, the rows | `LogEvent`, `LogPipeEvent`, `StartProgram` (`load_events`), `ClearLog`, `Killed` |
| `Chronicle` | completed records with their identifiers | `RecordBegins`, `RecordCompletes` (`_next_evidence_id`), `Restart` (retention); `TimelineOf` for every window |
| `Answers` | incidents, sessions and buckets around a moment | `TroubleBegins`, `TroubleEnds`, `PlayEnds`, `MomentPasses`; `Answer` for every wording and window |
| `Settings` | the form, the configuration file with its sealed key, `ai_config`, the last request | `OpenSettings`, `Edit`, `SaveSettings`, `ResetSettings`, `TestConnection`, `AskProvider`, `RestartProgram` (under any account); a write or a read may fail. `submitted` is a history variable |

### Mutants

An operator named `Bug...` is the definition after it with one plausible
mistake (a dropped guard, a missing reset, an off-by-one). No specification
uses them. Each was put in place of the definition it imitates and made a
property of the runs fail; they are the evidence that the properties say
something, and `PROJECT.json` records which mutant breaks which property.

## 3. Runs

`tlc -config X.cfg M.tla` for each row. Deadlock is not checked: in every module
the bound on the clock or on the ticks ends the behaviours, and a closed program
rightly stops.

| Configuration (module) | States | Question |
|---|---|---|
| `IncidentDurability` (`MCIncidentEngine`) | 968,100 | A network adapter and a hardware sensor, two starts, crashes between any two writes: `AlertHasIncident`, `SnapshotTracks`, and refinement of `RecordLedger` (`ImplementsLedger`) |
| `IncidentProgress` (same) | 31,425 | Liveness, with appends that fail: `PendingIsReconciled`, `QuietUpdateReachesDisk` |
| `IncidentAudit` (`MCIncidentAudit`) | 878,480 | Three starts, suspends, crashes, failing and torn writes, and retention that expires records: `CompletedOnce`, `NotReopened`, `OutagesAreTrue` (every outage is in a gap of the record, gaps lie within the incident, an uncertain recovery is not exact) |
| `WorkloadSessions` (itself) | 1,221,690 | A workload over two starts, with suspends, aborted ticks, crashes between any two writes and a closing incident: `SessionsAreDisjoint`, `ConfirmedWasSustained`, `TimeIsWatched`, `EveryOutageIsRecorded`, `LinkedOnce`, and refinement of `RecordLedger` |
| `Telemetry` (`MCTelemetry`) | 507,678 | Two starts, a legacy file of two buckets, crashes, suspends, aborted ticks, one damaged file or failed write: `BucketsTile`, `OutagesAreReported`, `NothingIsLost`, `ViewsAgree` |
| `AskAI` (`MCAskAI`) | 147,123 | Two pipe instances, two publications, one fault, an AI question with two tool calls, two windows, and the end of the program: `InstancesAreOwned`, `AnswersAreCurrent`, `CompletenessIsEarned`, `OneQuestionAtATime`, `NothingContradictedIsShown`, `NobodyIsLeftWaiting` |
| `Upkeep` (`MCUpkeep`) | 621,762 | Seven parts: `DeadBridgeIsReplaced` (liveness), `NothingCountedTwice`, `AlertsAreTrue`, `ReportsStand`, `ConclusionsAgree` |
| `Console` (`MCConsole`) | 301,497 | Twelve parts: of `ZoneDebounce` `NeverOverstates`, `SteadyIsAlerted`, `AlertIsConsistent`, `RiseIsNotEarly`; of `SnapshotQueue` `NewestSurvives`, `NeverBackwards`, `EverySnapshotIsShown`, `WorkerEnds`; and `UsageIsTrue`, `ScreensAreTrue`, `RecordsAreFound` |
| `ZoneSpikes` (`MCConsole`) | violated | Is a debounced alert always preceded by an unbroken run of readings? Section 6 |
| `RowClicks` (`MCConsole`) | violated | Does a click open what its row shows? Section 6 |
| `IncidentResumedExact` (`MCIncidentAudit`) | violated | Is an exact duration one that was watched throughout? Section 6 |
| `NetworkNames` (`MCUpkeep`) | violated | Is a name published that of the process at that poll? Section 6 |

The properties that have several parts, each in the module named:
`UsageIsTrue` = `HandlesAreHeld` (`Samplers`: what Windows keeps open is what the
sampler knows of, and new instances are counted in time), `TablesAgree` (`ProcessTables`: nobody
used more than it did, and the tables agree, on the GPU up to the 100% at which the short one
stops) and `RowsAreTrue`, `RowsAreKept` (`Panels`: the rows are what was
reported, and a poll replaces no row it need not). `ScreensAreTrue` = `WindowsAreTrue` (a table has what its filters let through of one
read; drilling down arrives; exports hold what their filters say), `ViewsAreTrue`, `SettingsAreTrue` (`Settings`: memory
is what a restart would find, and the window names it; a request has an endpoint and a key
that were on the form together).
`RecordsAreFound` = `IdsIdentify`, `TimelineSplits` (`Chronicle`), `MarkersAreTrue`,
`LogIsTrue`, `AnswersAreTrue`. `ConclusionsAgree` = `AnalysesAgree` (the
analyses of one history do not contradict each other and make no claim their
evidence is too small for) and `WindowsAgree` (questions and reports cut the calendar alike).

Bounds and why they are enough:

- *Clock* (`MaxTime` 5 to 12 units). A unit is the time that matters to the
  run: `Debounce`, `ReconcileDelay` and `GapThreshold` keep the order they have
  in the code (3 s, 8 s, 180 s) only where the order matters to a property; in
  `IncidentDurability` all three fit into the bound, so that a life of the
  program can debounce, be suspended, die, restart and reconcile. In `Telemetry`
  the time from 4 to 12 holds a midnight with buckets and gaps on both sides of it.
- *Workloads* 1: a session depends on no other one except through the order of
  the saves of a tick, and each of those writes all of them. With two workloads
  and a clock of 4 (1.9 million states) the same properties hold, and the
  theorems of section 5 hold for any number.
- *Starts* 2 or 3: the first life opens an incident, the second restores it, a
  third restores what the second resumed. Only files pass from one life to the
  next, and two restarts already compose every pair of effects.
- *Sensors* 1 or 2: two sensors are needed for one callback with several
  writes, for an active and a pending incident side by side, and for a tick that
  aborts between them (`IncidentDurability`). What `IncidentAudit` asks concerns
  one incident and the two files, so one sensor leaves room for a third start
  and for failing writes.
- *Retention* 9 never expires anything in these bounds; `IncidentAudit` uses 1
  so that records do expire while an active file still names them.
- *Failing writes* (`WriteFaults`): both kinds in `IncidentAudit`; appends in
  `IncidentProgress`, since `_flush_active_incidents_periodic` clears its flag
  whether or not its save succeeds, and a failed save is repeated only when the
  sensor is observed again; none in `IncidentDurability`, whose promises are
  about crashes (an append that fails does lose the record).
- *Readings*: one per zone that behaves differently, and `NoReading`.
- *Capacity* 2 is the code's; `Console_proofs` does without the bound.
- *AskAI*: a behaviour has one kind of client beside publication and
  shutdown (`client` in `MCAskAI`). With clients of the pipe there is no
  AI setting; with a user who opens, closes and saves, evidence does not change
  and no tool is called; with a model that asks and claims, there is one window and
  one question. What is given up are combinations of actors that share only the
  cache and the snapshot file, each of which replaces them whole. `MaxFaults` 1:
  two failing calls in one behaviour are not covered.
- *Upkeep*: `BridgeWatch` has two identifiers, one of which other programs may
  take; ages saturate at the thresholds (`Fresh`, `GiveUp`, `Retry`), and
  `MaxPrompts` 1 keeps the launcher and the recovery from asking at once. Traffic of
  two boots is checked beside one adapter, changes of two adapters without a
  bridge ("captures", "routes"). Reports live from instant 16 to 18 in a calendar of
  two-day weeks and months of three or four days, with records of earlier runs (`Pasts`: an incident, a
  session, telemetry and a change, all about as old as retention): reports of all three types are due, the
  month's and then the week's begin before what is kept, and what is pruned, lost or unread belongs
  to some of them. Two upsets (`MaxUpsets`) are a loss and a regeneration; one record (`MaxRecords`) of these runs comes on top of the past. Analyses see up to six units with the thresholds scaled down to
  2 or 3, and two courses of the resting temperature with a change on each; questions
  have real hours and days.
- *Console*: two programs, sensors, records and markers are what it takes to
  take one for the other. A log of two events in memory (`MaxEvents`), one row (`MaxRows`) and
  four events in all (`MaxLogged`) overflow both. There is one file dialog and one window of each of
  the `Views` at a time, but two `Markers` windows; four clicks (`MaxClicks`) open,
  filter, select and drill down. One workload's name begins like the other's. Counters of the GPU come with and
  without an engine, and their load exceeds 100 for one process. The delayed selection event of a tree arrives
  before the next action of the user, as Tk's idle events do. The settings begin with a file
  that has a key for a remote endpoint or nothing, so that three edits, failures or restarts
  (`MaxEdits`) are enough to save something else over it and have both ends of a mix-up.

## 4. Fairness

Safety of `IncidentEngine`, `WorkloadSessions` and `Telemetry` is checked under
`Spec`, without any. The other specifications state what the scheduling
provides:

- `IncidentEngine!FairSpec`: weak fairness of the clock, of each write of a callback
  and of the steps of a callback that has begun (`ObserveSensor`, `Reconcile`,
  `ReconcileEnd`, `Exit`): Tk runs a callback to its end, and file operations return.
  Strong fairness of `ReconcileBegin` and `Flush`: their guards ask for an idle
  loop, which every tick interrupts, and Tk serves timers that are due in the
  order of their times, so none is passed over for ever.
- `Console`: weak fairness of each thread of `SnapshotQueue`: the operating system
  schedules both, and `poll`'s `after(200)` is never cancelled except by `destroy`.
- `Upkeep`: weak fairness of the clock, of `CheckBridgeHealth` and of
  `SampleSensors`, a recurring timer and a loop without other exit. Nothing is
  promised of a bridge, a prompt or a user.
- `AskAI`: weak fairness of each thread's next step (accept, each
  connection, each question) and of the steps of the Tk thread that are under way;
  strong fairness of `Poll` of each question, which other callbacks may disable
  but Tk serves in its turn. Reads, writes and requests end because all of
  them have timeouts in the code.

Nothing obliges the user to start or close the program, a tick to come, a
sensor to recover, a client to connect, or a crash to happen.

## 5. Proofs

Checked by TLAPS for every value of the constants that satisfies the named
assumptions; each run evaluates those assumptions too.

| Theorem | Statement |
|---|---|
| `Console_proofs`: `AlertsNeverOverstate`, `SteadySensorsAlert`, `AlertsAreConsistent`, `RisesAreNotEarly` | the four properties of `ZoneDebounce`, for every zone table, debounce time and set of values |
| `TheNewestSurvives`, `NeverGoesBackwards` | of `SnapshotQueue`, for every capacity and number of snapshots |
| `RecordsAreAlwaysFound` | `RecordsAreFound`: the store, the markers, the event log and the answers, for every retention, limit and number of records |
| `ScreensAreAlwaysTrue` | `ScreensAreTrue`: the windows, whatever is recorded, filtered, exported and closed and whichever names occur in others, and the settings, whatever fails |
| `UsageIsAlwaysTrue` | `UsageIsTrue`: the samplers, whatever Windows refuses, the tables of processes and the rows of the panels, for every limit, any loads and any set of the clock |
| `IncidentEngine_proofs`: `TypeCorrect` | type correctness, for any number of sensors |
| `AlertsHaveIncidents` | `AlertHasIncident`, with failing writes, crashes and any timing |
| `NoIncidentTwice`, `NoIncidentReopened` | `CompletedOnce` and `NotReopened`, when no two sensors share a component |
| `TheFileTracksIncidents` | `SnapshotTracks`, if saves do not fail (appends may) |
| `TheFilesImplementTheLedger` | `ImplementsLedger`, if no write fails, nothing expires within the bound and no two sensors share a component (`Durable`) |
| `CompletedRecordsAreHonest` | `OutagesAreTrue` of `IncidentAudit`, for any number of sensors, suspends and restarts and with failing writes, if reconciliation comes later than the start (`ReconcileDelay > 0`) |
| `WorkloadSessions_proofs`: `TypeCorrect` | type correctness, for any number of workloads |
| `SessionsNeverOverlap` | `SessionsAreDisjoint` |
| `TheFilesImplementTheLedger` | `ImplementsLedger` |
| `SpikesOpenNothing` | `ConfirmedWasSustained`, for every debounce |
| `OutagesAreInGaps` | `EveryOutageIsRecorded`, for any number of suspends and restarts |
| `TimeIsAlwaysWatched` | `TimeIsWatched`, likewise |
| `IncidentsAreLinkedOnce` | `LinkedOnce`, if the debounce takes more than one sample (it takes `SESSION_START_DEBOUNCE_SAMPLES`) |
| `Telemetry_proofs`: `TelemetryIsSound` | the inductive invariant of the store and the bucket in progress |
| `RowsAreSound` | the inductive invariant of what rows and the bucket in progress say of their samples |
| `BucketsAlwaysTile`, `NothingIsEverLost`, `OutagesAreAlwaysReported` | `BucketsTile`, `NothingIsLost`, `OutagesAreReported`, for every clock, length of a bucket and legacy file, any number of starts, crashes and damaged files |
| `ViewsAlwaysAgree` | `ViewsAgree`, for all of these, all readings and every day's length |
| `AskAI_proofs`: `PipeIsSound`, `InstancesAreAlwaysOwned`, `AnswersAreAlwaysCurrent`, `CompletenessIsAlwaysEarned` | the invariant of the pipe, `InstancesAreOwned`, `AnswersAreCurrent`, `CompletenessIsEarned`, for any number of instances, any requests and any publications |
| `WindowIsSound`, `OneQuestionAtAnyTime` | the invariant of the question window, and `OneQuestionAtATime`, however often it is closed and reopened |
| `GuardIsSound`, `NothingContradictedIsEverShown` | the invariant of what is collected and claimed, and `NothingContradictedIsShown`, for answers of any claims and all evidence |
| `Upkeep_proofs`: `NothingIsEverCountedTwice` | `NothingCountedTwice`, for any number of processes, adapters and starts of the bridge |
| `AlertsAreAlwaysTrue` | `AlertsAreTrue`, for all thresholds and times between two ticks |
| `ReportsAlwaysStand` | `ReportsStand`, for every calendar, retention, past and number of records, starts and faults |
| `WindowsAlwaysAgree` | `WindowsAgree`, the part of `ConclusionsAgree` about questions, for every calendar and hour |
| `ConclusionsAlwaysAgree` | `ConclusionsAgree`: also what the analyses say, for every history of any length, any workloads, profiles, marked changes and thresholds |

The assumptions name what the code has as literals or data types: thresholds and limits are
natural numbers, and positive where the code divides or waits by them (`ConstantsAssumption`,
`TelemetryConstants`, `RateConstants`, `AlertConstants`, `EvidenceConstants`); `None` is none of
the values it stands beside; a legacy file is rows as its writer made them, side by side
(`LegacyConstants`); a snapshot has a coverage from 0 to `Complete` and a list of processes
(`PipeConstants`); claims have one of the shapes `grounding_guard.py` extracts (`ClaimsAssumption`). There are finitely
many incidents, instances of a counter and processes, and what is reported to a panel comes in a
sequence; before the first moment of a behaviour two months have begun (`CalendarConstants`,
`HoursAssumption`: a calendar has no first month); the short list of processes is no longer than the long one (`TableConstants`: 5 and
`APPS_TAB_TOP_N`), the panel shows no more events than the log keeps (`LogConstants`). A reading is an
integer or missing (`ReadingConstants`). What a session measured are integers or missing, its
zones are finitely many with percentages from 0 to 100, and degrees per watt are exact, because
`EfficiencyScale` is a multiple of every power (`IsProfile`, in `HistoryConstants`); one session is
neither a baseline nor a pattern (`MinSamples > 1`, `MinOccurrences > 1`: both 3 in the code); no
workload is called "cpu" or "nothing"; and `None` is none of the statistics, trends and verdicts (`NoneIsApart`).

The arguments:

- **Zones.** `DebounceInv` relates the pending zone and its start to the history
  variables: the pending zone is the zone last seen, has been since `steady`,
  and the confirmed zone is never above it. For `RiseIsNotEarly` that is not
  enough: `SinceIsSteady` adds that above GREEN the wait
  started exactly when the zone was first seen, so the time the code compares
  with the debounce is the time every value has been in that zone.
- **Alert and incident.** `AlertHasIncident` is inductive once it is known that
  a program that is not running holds nothing (`StoppedInv`), that nothing is
  pending after reconciliation, and that a reconciliation handles each sensor
  once; every other action changes the alert and the incident of one sensor
  together.
- **No incident twice.** This needs the whole of `IdInv`. An identifier is a
  component and an opening time, so two incidents of one sensor differ if they
  were opened at different times, and what must be excluded is one incident in
  two places. `OwnersInv` says whose component each identifier is, `ClockInv`
  that none is of the future and that one opened now is the only one,
  `AppendsFirst` that at most one append is outstanding and precedes the save
  of its callback, and `OpenInv`/`PastInv` that an incident in memory, or in
  the active file at a moment when the program runs, is not in the history. The crash
  between the append and the save breaks the last one for the file only, and
  `LoadSnapshot`, the idempotency guard, restores it: the whole point of the
  invariant is the asymmetry between what the file may name and what memory
  may hold.
- **The active file.** `TrackInv` adds to type correctness that a save still to be
  made is of what is in memory now (`SavesAreCurrent`: no callback goes on before
  its writes are over) and that the last write of a callback is a save
  (`EndsInSave`). A crash empties the memory, and the restart loads the file.
- **The incident ledger.** `FileInv` is `IdInv` and `TrackInv` with two facts
  about the files alone: what the file had and a callback is about to drop from it
  has an append under way or is in the history (`NothingForgotten`), and what is
  gone from memory is in the history under its owner (`GoneOwned`). Each action
  is then shown to be `Record`, `Complete` or a stutter of `RecordLedger`: the
  save of an opening is `Record`, the append `Complete`, and every other write,
  crash and restart changes nothing of what the two files say together.
- **Sessions.** `SessInv` holds the times of open, closing and stored sessions
  in order: an open session is later than all of its workload's that ended
  (`OpenIsLatest`), one being closed later than all stored
  (`ClosingIsLatest`), and what the active file has is one of these or already
  stored (`FileIsKnown`, `FileIsLatest`), so a restart cannot bring back a session
  beside its own completed record. The ledger follows with the clock's bound.
- **Sustained sessions.** `SampleInv`: the row of a workload's last samples ends
  with those its candidate has counted, at the candidate's start or later.
- **Outages.** A running session has a gap for every outage it lived through.
  A stored one may miss those after its last observation, and these are covered by
  the gap a restart adds from there on; a session that ended after the last tick
  covers the time since. `OutageInv` states which of the three holds in each phase.
- **Linking.** The memory of linked incidents is lost at a restart, when every stored
  incident is looked at again in the first tick. `LinkInv` says why this links none
  twice: an incident closed in an earlier life ended before any session confirmed in this one
  (`LinkOrder`), and in the first tick no session is confirmed yet, which needs a
  debounce of more than one sample.
- **Watched time.** A sample counts the time since the last tick that came to the sessions, so
  after a gap it may count one interval of samples that lies within it. `WatchInv` allows one
  sample for the start and one for each gap, and says that a session whose last gap was
  recorded since its last sample has one of these to spare (`Going`). What is stored keeps
  the allowance for the gap a restart will add (`Kept`).
- **Honest records.** `AuditInv` follows the outages of the observer. An incident in memory
  has a gap for each outage it lived through (`LiveCovered`); one in the file may miss those
  after its last observation (`StoredCovered`), which the gap of its restoration covers from there on; one
  completed after the last tick has a gap for the time since (`Since`). The gaps are in order
  and end no later than the last tick or the start. With a reconciliation in the very moment
  of the start the gap of a restart could begin where an earlier one ends and the order
  would be lost, hence `ReconcileDelay > 0` (the code waits 8000 ms).
- **Buckets.** `TelemetryInv` has a part for each thing a tick, a start, a migration and a fault could
  break: what the clock and the phases of a start allow (`ClockInv`), that the bucket in progress
  holds what was sampled since its start (`BucketInv`), that the rows lie apart and all
  before it (`StoreInv`), that each sample ever taken is in a row, in the bucket, in the legacy
  file that is not migrated yet, or lost to a fault that is counted (`KeptInv`), and that no row reaches into an outage
  (`OutageInv`). That the migration is committed with its flag in one transaction is what
  keeps `KeptInv` and `Tiles` through a crash between the commit and the renaming. An
  outage is reported because there is a first bucket after it: the gap of the display ends
  where that bucket begins. The first bucket is a least element of a set of naturals
  (`Extrema!LeastNatural`, from the finiteness of initial segments), which stands in for induction.
- **Views.** `RowsInv` adds to `TelemetryInv` that a row names the aggregate of its own samples. The aggregate
  of disjoint sets of samples is put together from their sums and extrema (`Extrema!SumOfFamily`), which gives
  the summaries, totals and points of a chart; sums are the library's fold over a finite set, not
  a recursive operator, so they can be reasoned about. For the line: a gap of the
  display lies between two rows with none between them. Where a point stands for no more buckets than
  make a gap, the rows on its two sides begin in different slots, because two rows of one slot begin within
  its length, which the gap exceeds; so the later row begins a point of its own, and the point before
  it ends no later than the gap begins. This is the step that fails for the chart of a day.
  The identifier of a gap counts the gaps of its day before it, and what a window beginning at a midnight has of a day is the whole of it.
- **Pipe.** `OwnedInv`: the open instances are those the connection threads serve and the one on
  offer, which is not among them; so each is closed once. `AnswerInv` follows one
  request: it remembers the version published when it was read (`RequestInv`), what it is answered from
  is not older (`DrawnInv`) because the cache is only ever replaced by a newer version, and an
  answer over a window says "observed" only with the coverage of that window (`Earned`).
- **Question window.** `WindowInv`: of all the requests of a window only the last can
  still be polled, and it is exactly while the window says a request is in flight. Threads of
  windows closed since go on, and have no one who polls them.
- **Guard.** Each rule of `Reviewed` is shown to let a claim through only if the evidence does not speak
  against it (`Grounded`), to list one as supported only if the evidence says it (`Backed`), and the
  evidence to be a list of answers for this question (`EvidenceInv`). An answer is a sequence of claims, each
  judged and edited by itself, so a claim that holds vouches for no other. Evidence is the item the guard
  looks at, the first of its operation (`DataOf`), and a reading is wanted for a claim of safety to be
  compared with incidents (`HasReading`): section 6 has what that lets through.
- **Network rates.** A file may outlive the bridge that wrote it. `RatesInv` says for each
  process and direction that either the file is of the bridge in charge, and what that one
  counted beyond the last reading is not in the rates yet, or it is of an earlier one, and
  neither the rest of the file nor what the bridge in charge counted is (`ProcessCounted`). The guard
  of the code, no rate when the counter went back, is what makes `From` the right reading in
  both cases. An adapter has the same with one counter (`AdapterCounted`).
- **Tick alerts.** `AlertsInv` makes the times the code keeps the times of the excursion: `nox.since` is how
  long it has been hot, `fan.since` how long the fan has stood still, the fan is confirmed
  exactly when that exceeds the debounce, and an armed Nox has said nothing in this excursion.
- **Calendar and reports.** The week, or month, before the one of a day ends where that begins
  (`WeekBefore`, from the uniqueness of division; `MonthBefore`, from the extrema of the months),
  hence all that `WindowsAgree` says, and that a report is of a period that is over. `Forgotten`: what
  any store was given and lacks, unless it was lost with a damaged file, is older than the retention, so incidents,
  sessions or telemetry that are missing from a period, and not for want of reading, mean that the period
  begins before it, which is what the code tests (`LessIsExpired`).
- **Analyses.** `HistoryInv` says little: what is recorded is one session of a known profile for some of the past
  units. The rest is about `Analytics`. A mean is a fraction, so a trend between two
  windows is the sign and size of one cross-multiplied difference (`Rise`), and each agreement
  is a fact about it. If no value of the later side is above one of the earlier it does not rise (`Falls`), if
  all are equal it is 0 (`Flat`), and if one metric is a linear function of another on both sides, so are the rises, and
  the variances and the tests of significance scale with it (`LinearShift`): hence what degrees,
  degrees per watt and the distance to the core say of one another (`TrendsConcur`). A rise has a witness, a later
  session hotter than an earlier one (`RiseHasWitness`); sessions that touch the middle belong to both sides, which is
  why it takes sums over what the sides share. A side needs as many sessions as `MinSamples`, and two sides with as few
  sessions altogether are the same ones (`AllOnBothSides`), so `ClaimsAreEarned`. A score depends
  on a session only through what it measured, its zones and incidents, each of the findings
  being against statistics that agree (`SameStat`, by the bijection that exchanges
  two sessions), so `ScoresAreFair`. Buckets at rest are in one-to-one correspondence with
  the units without a session, whatever the busy ones read (`IdleInWindow`), so `RestIsRest`. The
  windows of a change are as long as the least of three spans (`ChangeWindowIs`), what touches neither
  is no part of the report (`WithinReport`), and where they are the halves of the calendar the verdict and the
  cooling report are computed from the same two trends (`SameVerdict`), so `VerdictsAgree`. The week's digest is
  by workload, and `OlderUnnoticed` removes one session that ended before it.
- **Queue.** The entries increase, are newer than what `poll` has taken and not newer
  than what the worker has put (`OrderInv`); eviction removes from the old
  end, and after an eviction there is room for the second put because only the
  worker adds.

- **Store of records.** A record is numbered when it is complete, from those of its day that are in the store.
  `Numbered`: its number is that of its place among those of its day, unless the store could not be
  read then or one of its day has been dropped since. Records are stored in
  the order in which they end (`InOrder`), so retention drops a beginning of the store, which leaves
  the records of every other day where they were among each other.
- **Markers.** A window shows one listing the file had (`ShowsOne`), perhaps an old one. Among as many
  suffixes as there are markers in a minute, and one more, one is free (the pigeonhole lemma of the library),
  hence the identifier of a marker made with the file in view is new, and a deletion
  removes the one asked for or one made blindly under its identifier.
- **Event log.** The lines of the file are in order, what the panel shows is in reverse, and while no read or write has
  failed the panel has the newest of those to be shown (`AreNewest`), which a start, an event, a
  clearing and a pruning keep.
- **Answers.** Nothing has to be remembered here; what is shown is that the pieces an answer is put
  together from tile its window: a stretch without buckets extends to one between two of them, the first
  such stretch long enough is what the answer names.
- **Settings.** What the file has was on the form as it is and is valid (`IsSaved`), memory is what
  loading the file gives, also after a write that failed, and a request is made with fields
  that were together on the form.
- **Windows.** `TrueTable`, `TrueCounts`: each table is of one read of the store and of one setting of its filters,
  of which records can since have become old but none have gone; a drill down
  searches for what is in the store, so it arrives. `ViewsInv`: what a window says is of its
  own choice and its own last read, and so is a file it writes.
- **Samplers.** `SoundSampler`: every handle is that of the query, of a known counter or of the selected
  adapter, none is lost by a failure. An instance without a counter has waited for no more polls than there were since
  the query was expanded (`InTime`), and expansion comes when those are `ReexpandEvery`. What breaks
  this is an expansion that starts the count and leaves no counter: `stranded` remembers it.
- **Process tables.** `WorkIsCounted`: what a process has spent beyond the sample kept of it was spent
  since the last sample, by it or by one that was replaced. The shares then add up to no more than
  the time that elapsed. The leaders are defined by how many come before each; a table has
  the number it should because among finitely many some set of that size leads. Sums are
  taken over finite sets with `Extrema!SubsetInduction`: were a statement about sums
  false of some subset, it would be of one with least cardinality.
- **Panels.** A synchronisation is a recursive function over what is reported; what its result is for every length
  is proved by the least length at which it would not exist or not be sound (`StepsExist`,
  `AllSyncedIsSound`). `SoundRows`: rows and frames correspond one to one. `UpTo` says of the first
  so many reported: the row of each shows what the last of them under its key reported, a row under an
  identifier keeps its frame, and a row under a mere name loses it only to a sensor that is new
  under its identifier.

TLC finds each inductive invariant true on small instances too. The proofs also showed five
definitions whose `CASE` had guards that overlap, of which TLC takes the first and logic any:
`FromSnapshot` and `Available` (`EvidenceAnswers`), `Loaded` (`Markers`), `NetworkEvent`
(`TickAlerts`) and `IdentityOf` (`Panels`) now state the order of the code's tests.

Only model-checked:

- what is temporal and holds under fairness: `PendingIsReconciled`, `QuietUpdateReachesDisk`,
  `EverySnapshotIsShown`, `WorkerEnds`, `DeadBridgeIsReplaced`, `NobodyIsLeftWaiting` (the prover has
  no `ENABLED`);
- what a recursive definition computes for every input: of these, only facts that a least counterexample refutes
  (`AllSyncedIsSound`) are proved.

Every safety and action property of the passing runs, and both refinements, have a theorem.

## 6. What the runs found

Each run is expected to be violated: its property states what the code's own
text says.

| Run | The text | The code |
|---|---|---|
| `ZoneSpikes` | alerts need "sustained readings" (12664; README 126: a single noisy sample does not become an incident) | the wait is wall-clock time since the zone was first seen; two isolated readings around silence or sleep are enough |
| `IncidentResumedExact` | a restart-restored incident that still alerts gets `duration_exact=False` (11574) | that branch never sets it, and the close defaults to True |
| `NetworkNames` | `$netProcNames` is "cleared each poll" (`sensor_bridge_v3.ps1` 492) | nothing removes an entry: a reused identifier is published under the dead program's name |
| `RowClicks` | a sensor whose identity changes "gets a brand NEW widget" (13682) | `_sync_rows` keeps the widget and its click, which opens the history recorded under the old identity |

Noted while modelling, without a run of their own.

*Incidents and sessions:*

- a crash right after a suspend counts the same time twice, in the live gap and
  in the restart gap, because `_record_live_monitoring_gap` does not move
  `last_observed_timestamp` (11564 promises exactly one logical gap);
- reconciliation tells an alert from none, not a nominal reading from a hot one:
  a hot reading whose debounce has not run out closes the incident as recovered
  (10339);
- on the live path the monitored bound of an incident is the last tick of the
  program, in which its own sensor may have been silent (11480, 12423);
- one idle sample just before the reconciliation closes a restored session that
  was active seconds ago: what counts is the last observation of its workload, not
  the idle grace (11968 speaks of recent activity);
- a stall between `SESSION_GAP_THRESHOLD_S` and `MONITORING_DISCONTINUITY_S` is
  not counted as watched time but leaves no gap, so the session stays exact;
- a snapshot that carries the hardware sensors is evicted from the queue like any
  other, so what telemetry is fed is not always the latest real observation (11208).

*Telemetry and identifiers:*

- a gap across midnight has no identifier in a window of several days (3545, 3573),
  nor has one whose left edge lies inside a bucket;
- `compute_totals_summary` gives 0.0 where a legacy bucket names the scalar without
  a reading (the docstring at 986: never a fabricated 0);
- the numbers of gaps shift when retention prunes part of a day;
- `close()` finalises the bucket at now without a look at the gap (11546);
- from the chart of a day on, a point stands for 5 to 120 buckets (644) and a gap is more than 3, so a gap
  can lie within one point and the line is drawn through it (`BreaksAtGaps(5)` fails with buckets from 10 to
  11 and at 18, seven units of time apart where six make a gap); the docstring (1095-1099) says that a gap is never
  merged across;
- the line of a chart leaves out a bucket that stands alone between two gaps (9928, 9933), and an
  incident that began before the range has no mark on it (9946);
- a timeline gap is at least 180 s long, a break of the chart more than 180 s;
- any `DatabaseError` on opening is taken for corruption (753).

*Evidence and AI:*

- only the first `CreateNamedPipe` of the server asks for the first instance;
- the connection of a request closes unanswered when building an experiment report
  raises a `DatabaseError`, or `operation` is unhashable;
- wide answers carry the snapshot's `generated_at` although their rows are newer;
  the AI broker reads the snapshot file, which has a day only, anew for each tool call;
- the guard looks at the first retrieved item of an operation only, so a claim that fits it is shown although a
  second call said otherwise, and items of different operations may be of different publications;
- "all night" without coverage evidence is "unsupported" and shown as it is (README 31); a claim of
  safety counts as supported although no incidents were retrieved; and without a reading of the sensor it is
  left in place, "unsupported" and the result "clean", even beside a retrieved RED or ORANGE incident
  (`grounding_guard.py` 612-616, where the docstring, 3-5, promises that nothing the evidence contradicts
  survives, as does README 31 and 172): the property excuses a claim of safety without a reading;
- saving the AI settings with the key field left blank erases the stored key, and a test
  made from a form that was just opened goes without it; after a write that failed the status line
  still says "Saved." or "AI integration disabled", and only ACTIVE CONFIGURATION below it is right;
- an endpoint `urlparse` itself rejects (an unclosed bracket) raises a plain `ValueError`
  through `_save` and through `test_connection`, which "never raises" (`ai_settings.py` 230): the status
  line keeps what it said; so does a key Windows cannot seal;
- TEST CONNECTION asks on the Tk thread, with up to 30 s for each of up to five requests, during
  which `poll` does not run.

*Bridge, network, alerts:*

- `$netProcTotals` never forgets an identifier; a bridge restarted within 10 s with larger
  counters gives a rate against an unrelated reading;
- a reused identifier makes a dead bridge look alive for ever (excused in
  `DeadBridgeIsReplaced` by `Impersonated`);
- `launch.ps1` stops on errors, so a declined prompt ends the launcher without the
  window; restarting the window resets the rate limit of prompts; `bridge_health`
  RESTARTING is shown nowhere;
- Nox counts silent ticks as sustained heat; the fan's recovery says "spinning again" also when its
  reading vanished; the fan curve looks at alerts before this tick's memory and drives.

*Reports, analytics, questions:*

- a regeneration marks as expired only what retention took (4194). After the telemetry store was moved aside
  as damaged (753), or while a store cannot be read, it replaces a full report by a thinner one with
  `source_data_expired` False (4195-4206), where the docstring (4182-4187) speaks of a thinner report never presented as
  the original. The same holds of the comparisons of changes (3951-3961) and the recommendations (3975-3978), which look back
  up to 30 days before the end of the period: retention may have taken of those while the period
  itself is whole. `ReportsStand` promises nothing of either;
- a report made just after midnight misses incidents that are still active, and stands;
  only the single previous period of each type is looked at; an unreadable
  database rebuilds every report each 15 minutes; the first report of a month of 31 days
  misses its pruned first day without saying so;
- `diagnose_gpu_cooling_pattern` calls power "also elevated" when it is unusually
  low, and low power explains a rise of temperature; an unusually cool case lowers
  the ceiling diagnosis from HIGH to MEDIUM (1852); `run_live_cooling_ceiling_diagnostics`
  (1952) is called by nothing; anomalies count in both directions, so a cooler
  session loses health points;
- "this morning" asked before 06:00 is an inverted window with an answer; answers
  read completed incidents only; trend answers for less than a day look at a whole one.

*Windows and files:*

- closing and opening History allows second Ask, Experiments, Reports and Analytics windows
  beside the old ones; a stale Experiments window can delete a marker under a reused
  identifier; deletion drops lines it cannot read;
- VIEW INCIDENTS keeps History's other filters and matches substrings (7612, 8317), so with the incidents of
  "game" come those of "game2", and counts and rows differ; the detail panel keeps an entry after filters cleared the selection; after
  REGENERATE the first report is selected; the panes of Trends can be of different moments;
- a torn append makes the next line unreadable too; a failed CLEAR LOG brings the
  events back; what the pipe logs appears in the panel after the next start (11844 says it does not);
- a PDH sampler whose first expansion failed, or whose later one could add no counter, never retries, since the count
  of polls that leads to the next expansion goes on only with a counter (5133-5134 and 5170-5173 say that it does);
- `gpu_top_processes` stops at 100% (5468) and `build_apps_table` does not (5503), so where Windows reports more than 100 of a
  counter the two tables differ; a counter without `engtype_` counts for its process but
  for no engine (5192-5198), so a process can be busier than the busiest engine shown;
- the rows of the "Top N by CPU" panel are never re-ordered; two GPUs of one vendor and name share a row.

## 7. Limits of the models

- Reads of the two incident files succeed, and the files contain only what the
  program wrote, possibly with one torn line. Malformed files are not modelled,
  except in `EventLog`, `Markers` and `Chronicle`, whose reads may fail.
- A record is removed from the history only by retention. `Start` expects expired
  records to be the oldest, which holds because lines are appended in the order
  in which incidents end; `Restart` of `Chronicle` and
  `StartProgram` of `EventLog` do the same.
- The proofs of `Windows`, `Samplers` and `ProcessTables` assume finitely many incidents, counter
  instances and processes, as every machine has.
- In `IncidentEngine` a value below every floor is not distinguished from None;
  `ZoneDebounce` treats it. The recovery reading of the network adapter is the
  zone it is in rather than None: no property depends on it.
- The wall clock does not go backwards (it does in `ProcessTables`).
- `NoIncidentTwice` assumes distinct components. Several DIMMs or drives share
  one in the code and could open incidents in the same millisecond.
- `WorkloadSessions` has no retention and no failing writes (the store is kept
  exactly like that of incidents), no bound on `incidents_recent`, and counts a
  line cut in two by a crash as not written, since `load_sessions` drops it.
- Samplers return; an exception in the worker, which would end it while `poll` goes on, is not modelled.
- A frame of the pipe is read or written whole, or fails; `stop()`'s join does not time out.
- Means, spreads and rates are exact fractions of small integers; a standard deviation is compared
  squared, and a rate is the bytes it was computed from. Rounding is left out.
- The bridge publishes its files whole. What its sensors say is arbitrary.

## 8. Not modelled

- What an incident records of temperatures, samples, context and attribution, and
  what alerts, findings, reports and answers say in words.
- Drawing, layout, colours, the tray icon, the text of exported files.
- Samplers that keep nothing between calls: tables of connections, Wi-Fi, SMBIOS,
  volumes. They turn one answer of the operating system into one dictionary.
- The HTTP transport of the AI providers, prompts, and how the stored key is encrypted
  (a key can be unsealed by the account that sealed it).
- The statistics of a report, the range of days of a projection, and the trend and cause
  answers of the question window, which put results of `Analytics` into words.
- `sensor_bridge.ps1` and `sensor_snapshot.ps1`, which nothing starts.
- `tools/verify_*.py` and the soak scripts (tests, which the models were read with) and packaging.

## 9. Plan

All parts of section 1 have their modules and runs, and every safety and action property of the
passing runs has its theorem. What could be added:

1. The statistics of reports, and the trend, comparison and cause answers of the question window, as
   operators over `Analytics`.
2. The range of days of a projection, which needs roots of variances.
3. `WorkloadSessions` with retention and failing writes, as `IncidentEngine` has them.
