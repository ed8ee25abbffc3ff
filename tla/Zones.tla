------------------------------- MODULE Zones -------------------------------
(***************************************************************************)
(* The zone rule every thermal alert of Thermal Watch goes through: a      *)
(* reading is classified by a table of floors, and the classified zone is  *)
(* debounced before it becomes the confirmed zone of the alert.            *)
(* _update_cpu_zone, _update_drive_zone and _update_sensor_zone repeat the *)
(* same rule over three sets of variables; _update_network_zone uses it    *)
(* with the "RED is immediate" clause switched off.                        *)
(*                                                                         *)
(* A zone is its severity (ZONE_SEVERITY), so zones compare as numbers.    *)
(***************************************************************************)
EXTENDS Integers

CONSTANT Debounce  \* ALERT_DEBOUNCE_S, in clock units

ASSUME DebounceAssumption == Debounce \in Nat

GREEN  == 0
YELLOW == 1
ORANGE == 2
RED    == 3

Zone == GREEN .. RED

NoReading == -1                     \* a sensor value of None
Reading   == Zone \cup {NoReading}

(***************************************************************************)
(* zone_for: the first floor, from the top, that the value reaches.  A     *)
(* value below every floor (a negative temperature) has no zone.           *)
(***************************************************************************)
ZoneFor(value, floor) ==
    LET reached == {z \in DOMAIN floor : floor[z] <= value}
    IN  IF reached = {}
        THEN NoReading
        ELSE CHOOSE z \in reached : \A y \in reached : floor[y] <= floor[z]

-----------------------------------------------------------------------------
\* {"confirmed": ..., "pending": {"zone": ..., "since": ...}}
ZoneState == [confirmed : Zone, pending : Zone, since : Nat]

ColdZone(t) == [confirmed |-> GREEN, pending |-> GREEN, since |-> t]

\* The operators named Bug... are mutants: the definition after them with one
\* plausible mistake, used by no specification.  Here a change of the raw zone
\* does not restart the wait.
BugPendingSince(st, raw, t) == st.since

\* When the raw zone last changed, as the engine sees it.
PendingSince(st, raw, t) == IF raw = st.pending THEN st.since ELSE t

\* Waits for more than the debounce time.
BugConfirmsLate(st, raw, t, redAtOnce) ==
    \/ raw < st.confirmed
    \/ raw > st.confirmed /\ redAtOnce /\ raw = RED
    \/ raw > st.confirmed /\ t - PendingSince(st, raw, t) > Debounce

\* Debounces the way down as well.
BugConfirmsSymmetric(st, raw, t, redAtOnce) ==
    \/ redAtOnce /\ raw = RED
    \/ t - PendingSince(st, raw, t) >= Debounce

\* Is raw confirmed at once, or after having been pending long enough?
Confirms(st, raw, t, redAtOnce) ==
    \/ raw < st.confirmed
    \/ /\ raw > st.confirmed
       /\ \/ redAtOnce /\ raw = RED
          \/ t - PendingSince(st, raw, t) >= Debounce

\* One observation of a zone at time t.
ZoneStep(st, raw, t, redAtOnce) ==
    [confirmed |-> IF Confirms(st, raw, t, redAtOnce) THEN raw ELSE st.confirmed,
     pending   |-> raw,
     since     |-> PendingSince(st, raw, t)]
=============================================================================
