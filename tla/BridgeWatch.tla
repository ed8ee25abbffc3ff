---------------------------- MODULE BridgeWatch ----------------------------
(***************************************************************************)
(* The elevated sensor bridge and those who watch it: bridge processes     *)
(* started by the launcher or by the application's recovery, the mutex     *)
(* that admits one of them, the two files they publish, and what the       *)
(* application and its sampling worker conclude from these files.          *)
(*                                                                         *)
(* Ages are counted in checks of the health timer (5 s) and saturate.      *)
(***************************************************************************)
EXTENDS Values, Integers, FiniteSets

CONSTANTS
    Pids,        \* the process identifiers, which the system uses again
    Fresh,       \* BRIDGE_FRESH_SECONDS: the age from which a file is stale
    GiveUp,      \* the age of an attempt after which RESTARTING ends
    Retry,       \* BRIDGE_RECOVERY_MIN_INTERVAL_S
    MaxPrompts   \* bound on the elevation prompts that wait for an answer

ASSUME BridgeConstants ==
    /\ {Fresh, GiveUp, Retry, MaxPrompts} \subseteq Nat \ {0}
    /\ Fresh < Retry /\ GiveUp + 1 < Retry

VARIABLES
    proc,     \* what runs under each identifier
    prompts,  \* elevation prompts on the screen
    sensors,  \* the age of sensors_v3.json
    status,   \* bridge_status_v3.json: pid, state and age
    app,      \* the application: whether it is up, bridge_health, the age of the last attempt
    checked,  \* whether the health timer has fired since time last passed
    tier      \* where the worker's last sensors came from

bridgeVars == <<proc, prompts, sensors, status, app, checked, tier>>

\* The loop of sensor_bridge_v3.ps1, behind the mutex.
Working == {"setup", "probing", "reporting", "failing"}

Bridges == {p \in Pids : proc[p] \in Working}

\* A named mutex lives as long as some process has a handle of it, that of a
\* bridge which was not admitted included.
MutexExists == \E p \in Pids : proc[p] \in Working \cup {"leaving"}

Alive(p) == proc[p] # "none"

\* _process_exists of the status file's pid: whatever runs under it now.
ReportedAlive == status # None /\ Alive(status.pid)

Older(age, most) == IF age = None \/ age = most THEN age ELSE age + 1

BridgeInit ==
    /\ proc = [p \in Pids |-> "none"]
    /\ prompts = 0
    /\ sensors \in {None, Fresh}
    /\ status \in {None} \cup [pid : Pids, state : {"HEALTHY", "ERROR"}, age : {Fresh}]
    /\ app = [up |-> FALSE, health |-> "HEALTHY", attempt |-> Retry]
    /\ checked = FALSE
    /\ tier = None

-----------------------------------------------------------------------------
\* The system.

\* The application's timer fires before the next five seconds have passed.
TimePasses ==
    /\ app.up => checked
    /\ checked' = FALSE
    /\ sensors' = Older(sensors, Fresh)
    /\ status' = IF status = None THEN None ELSE [status EXCEPT !.age = Older(@, Fresh)]
    /\ app' = [app EXCEPT !.attempt = Older(@, Retry)]
    /\ UNCHANGED <<proc, prompts, tier>>

Begun(p) == proc[p] = "none" /\ proc' = [proc EXCEPT ![p] = "starting"]

PromptAccepted(p) ==
    /\ prompts > 0
    /\ prompts' = prompts - 1
    /\ Begun(p)
    /\ UNCHANGED <<sensors, status, app, checked, tier>>

PromptDeclined ==
    /\ prompts > 0
    /\ prompts' = prompts - 1
    /\ UNCHANGED <<proc, sensors, status, app, checked, tier>>

\* Another program begins or ends under an identifier.
Other(p) ==
    /\ proc' = [proc EXCEPT ![p] = CASE @ = "none" -> "other" [] @ = "other" -> "none" [] OTHER -> @]
    /\ proc[p] \in {"none", "other"}
    /\ UNCHANGED <<prompts, sensors, status, app, checked, tier>>

\* A bridge is killed.
Dies(p) ==
    /\ proc[p] \in Working \cup {"starting", "leaving"}
    /\ proc' = [proc EXCEPT ![p] = "none"]
    /\ UNCHANGED <<prompts, sensors, status, app, checked, tier>>

-----------------------------------------------------------------------------
\* A bridge process.

OnlyProc == UNCHANGED <<prompts, sensors, app, checked, tier>>

\* New-Object Threading.Mutex: the process goes on only if it created the mutex.
Admission(p) ==
    /\ proc[p] = "starting"
    /\ proc' = [proc EXCEPT ![p] = IF MutexExists THEN "leaving" ELSE "setup"]
    /\ UNCHANGED status /\ OnlyProc

Leave(p) ==
    /\ proc[p] = "leaving"
    /\ proc' = [proc EXCEPT ![p] = "none"]
    /\ UNCHANGED status /\ OnlyProc

\* Write-BridgeStatus, which does its best.
Says(p, state) ==
    \/ status' = [pid |-> p, state |-> state, age |-> 0]
    \/ status' = status

\* The capture was compiled and started, or was not; the probe script is there
\* or the bridge ends.
SetUp(p) ==
    /\ proc[p] = "setup"
    /\ \/ proc' = [proc EXCEPT ![p] = "probing"] /\ UNCHANGED status
       \/ proc' = [proc EXCEPT ![p] = "leaving"] /\ Says(p, "ERROR")
    /\ OnlyProc

\* A probe that answers in time is published, as one file in the place of another.
Publish(p) ==
    /\ proc[p] = "probing"
    /\ proc' = [proc EXCEPT ![p] = "reporting"]
    /\ sensors' = 0
    /\ UNCHANGED <<prompts, status, app, checked, tier>>

\* The probe is wedged and killed, says nothing sensible, or a file is locked.
PollFails(p) ==
    /\ proc[p] = "probing"
    /\ proc' = [proc EXCEPT ![p] = "failing"]
    /\ UNCHANGED status /\ OnlyProc

\* The status is written before the next probe, and so are the network totals.
Report(p) ==
    /\ proc[p] \in {"reporting", "failing"}
    /\ Says(p, IF proc[p] = "failing" THEN "ERROR" ELSE "HEALTHY")
    /\ proc' = [proc EXCEPT ![p] = "probing"]
    /\ OnlyProc

-----------------------------------------------------------------------------
\* Those who watch.

JustOpened == [up |-> TRUE, health |-> "HEALTHY", attempt |-> Retry]

\* Test-BridgeHealthy of launch.ps1.
LaunchedHealthy == ReportedAlive /\ status.age < Fresh

\* launch.ps1 asks for elevation first unless the bridge is healthy; a prompt
\* declined ends it.  The application may also be started without it.
OpenApp ==
    /\ ~app.up
    /\ app' = JustOpened
    /\ checked' = FALSE
    /\ \/ UNCHANGED proc
       \/ ~LaunchedHealthy /\ \E p \in Pids : Begun(p)
    /\ UNCHANGED <<prompts, sensors, status, tier>>

\* Nothing stops the bridge.
CloseApp ==
    /\ app.up
    /\ app' = [app EXCEPT !.up = FALSE]
    /\ tier' = None
    /\ UNCHANGED <<proc, prompts, sensors, status, checked>>

\* compute_bridge_health.
Health ==
    CASE sensors = None  -> "MISSING"
      [] sensors = Fresh -> IF status # None /\ status.state = "ERROR" THEN "ERROR" ELSE "STALE"
      [] OTHER           -> "HEALTHY"

\* Mutant, used by no specification: waits for any bridge that ever reported.
BugBridgeAlive == status # None

BridgeAlive == ReportedAlive

\* The branch of check_bridge_health that asks for a new bridge.
RecoveryIsDue == ~BridgeAlive /\ app.attempt = Retry

\* What it leaves in bridge_health otherwise.
HealthAfter ==
    IF Health = "HEALTHY" \/ BridgeAlive THEN Health
    ELSE IF app.health = "RESTARTING" /\ app.attempt > GiveUp THEN Health ELSE app.health

CheckBridgeHealth ==
    /\ app.up /\ ~checked
    /\ checked' = TRUE
    /\ IF Health # "HEALTHY" /\ RecoveryIsDue
       THEN \/ /\ prompts < MaxPrompts  \* spawn_bridge_recovery
               /\ prompts' = prompts + 1
               /\ app' = [app EXCEPT !.attempt = 0, !.health = "RESTARTING"]
            \/ /\ app' = [app EXCEPT !.attempt = 0, !.health = Health]
               /\ UNCHANGED prompts
       ELSE /\ app' = [app EXCEPT !.health = HealthAfter]
            /\ UNCHANGED prompts
    /\ UNCHANGED <<proc, sensors, status, tier>>

\* lhm_sensors: the bridge's file, nothing while a bridge lives, else WMI or the
\* library itself.
SampleSensors ==
    /\ app.up
    /\ tier' = IF sensors # None /\ sensors < Fresh THEN "bridge"
               ELSE IF ReportedAlive THEN "nothing" ELSE "fallback"
    /\ UNCHANGED <<proc, prompts, sensors, status, app, checked>>

-----------------------------------------------------------------------------
BridgeNext ==
    \/ TimePasses \/ PromptDeclined \/ OpenApp \/ CloseApp \/ CheckBridgeHealth \/ SampleSensors
    \/ \E p \in Pids :
          \/ PromptAccepted(p) \/ Other(p) \/ Dies(p)
          \/ Admission(p) \/ Leave(p) \/ SetUp(p) \/ Publish(p) \/ PollFails(p) \/ Report(p)

-----------------------------------------------------------------------------
\* Another program may run under the identifier a dead bridge reported.
Impersonated == status # None /\ proc[status.pid] \in {"other", "leaving"}

Excused == ~app.up \/ Impersonated \/ \E p \in Pids : proc[p] \in Working \cup {"starting"}

\* Without a bridge, while the application is up and no other program has the dead
\* bridge's identifier, the worker reads the sensors itself, a new bridge is asked
\* for or could not be, and RESTARTING gives way.
DeadBridgeIsReplaced ==
    /\ (~Excused) ~> (Excused \/ app.attempt = 0)
    /\ (~Excused) ~> (Excused \/ tier = "fallback")
    /\ (app.up /\ app.health = "RESTARTING") ~> (~app.up \/ app.health # "RESTARTING")
=============================================================================
