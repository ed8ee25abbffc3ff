--------------------------- MODULE MCIncidentAudit ---------------------------
(* Small instances of IncidentAudit for TLC. *)
EXTENDS IncidentAudit

OwnComponent == [k \in Keys |-> k]

Extremes  == [k \in Keys |-> {GREEN, RED, NoReading}]
NeverNone == [k \in Keys |-> {GREEN, RED}]

NoKeys == {}
=============================================================================
