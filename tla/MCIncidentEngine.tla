-------------------------- MODULE MCIncidentEngine --------------------------
(* Small instances of IncidentEngine for TLC. *)
EXTENDS IncidentEngine

OwnComponent == [k \in Keys |-> k]

\* The network adapter, which always reads, then a sensor that may fall silent.
NetworkThenSensor ==
    [k \in Keys |-> IF k = 1 THEN {GREEN, RED} ELSE {GREEN, YELLOW, RED, NoReading}]
NeverSilent == [k \in Keys |-> {GREEN, RED}]

NoKeys    == {}
FirstKey  == {1}
SecondKey == {2}
=============================================================================
