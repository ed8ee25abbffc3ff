------------------------------- MODULE Upkeep -------------------------------
(***************************************************************************)
(* What Thermal Watch keeps up beside the sampling of its sensors: the     *)
(* bridge that reads them, the rates of the network, the alerts of a tick, *)
(* the reports, the analyses and the questions.  These share no state that *)
(* this model keeps, so a behaviour is one of a single part.               *)
(***************************************************************************)
EXTENDS BridgeWatch, NetworkRates, TickAlerts, Reports, AnalysisHistory

VARIABLE part  \* the part this behaviour is about

Parts == {"bridge", "captures", "routes", "tick", "reports", "analyses", "questions"}

upkeepVars ==
    <<part, bridgeVars, ratesVars, tickVars, reportVars, historyVars, hour>>

\* What a part begins with matters to itself only.
UpkeepInit ==
    /\ part \in Parts
    /\ BridgeInit /\ (part # "bridge" => sensors = None /\ status = None)
    /\ RatesInit
    /\ TickInit
    /\ ReportsInit /\ (part # "reports" => held = CHOOSE past \in Pasts : TRUE)
    /\ HistoryInit
    /\ part # "analyses" =>
           [resting |-> resting, changes |-> planned] = CHOOSE c \in Courses : TRUE
    /\ QuestionsInit

\* Other programs run under one of the identifiers only.
Supervising ==
    /\ part = "bridge" /\ BridgeNext
    /\ \A p \in Pids : proc'[p] = "other" => p = CHOOSE q \in Pids : TRUE
    /\ UNCHANGED <<part, ratesVars, tickVars, reportVars, historyVars, hour>>

\* The capture goes on beside one adapter, and the adapters change without it.
Network ==
    /\ \/ part = "captures" /\ RatesNext
          /\ route' \in {None, CHOOSE a \in Adapters : TRUE}
       \/ part = "routes" /\ RatesNext /\ boots' = 0
    /\ UNCHANGED <<part, bridgeVars, tickVars, reportVars, historyVars, hour>>

Alerts ==
    /\ part = "tick" /\ TickNext
    /\ UNCHANGED <<part, bridgeVars, ratesVars, reportVars, historyVars, hour>>

Reporting ==
    /\ part = "reports" /\ ReportsNext
    /\ UNCHANGED <<part, bridgeVars, ratesVars, tickVars, historyVars, hour>>

Analysing ==
    /\ part = "analyses" /\ HistoryNext
    /\ UNCHANGED <<part, bridgeVars, ratesVars, tickVars, reportVars, hour>>

Asking ==
    /\ part = "questions" /\ QuestionsNext
    /\ UNCHANGED <<part, bridgeVars, ratesVars, tickVars, reportVars, historyVars>>

UpkeepNext == Supervising \/ Network \/ Alerts \/ Reporting \/ Analysing \/ Asking

\* Timers fire and the worker samples; nothing is promised of a bridge or a user.
UpkeepFairness ==
    /\ WF_bridgeVars(part = "bridge" /\ TimePasses)
    /\ WF_bridgeVars(part = "bridge" /\ CheckBridgeHealth)
    /\ WF_bridgeVars(part = "bridge" /\ SampleSensors)

UpkeepSpec == UpkeepInit /\ [][UpkeepNext]_upkeepVars /\ UpkeepFairness

-----------------------------------------------------------------------------
\* What the program concludes agrees with itself: the analyses of the recorded history
\* among each other, and the windows of the questions with the periods of the reports.
ConclusionsAgree ==
    /\ part = "analyses" => AnalysesAgree
    /\ part = "questions" => WindowsAgree
=============================================================================
