---------------------------- MODULE ZoneDebounce ----------------------------
(***************************************************************************)
(* One sensor and its alert: _update_cpu_zone, _update_drive_zone and      *)
(* _update_sensor_zone with their _transition_*_zone, and                  *)
(* _update_network_zone, over the values of a whole life of the program.   *)
(* Between two observations the clock moves by a poll, or by far more when *)
(* the machine sleeps.                                                     *)
(***************************************************************************)
EXTENDS Zones

CONSTANTS
    Floors,        \* the zone table: the floor of each zone
    Temperatures,  \* the values the sensor can show
    RedAtOnce,     \* does RED skip the debounce?  (not for the network adapter)
    MayBeSilent,   \* can a tick come without a value?
    Steps,         \* how far the clock moves between two ticks
    MaxTime        \* bound on the clock

NoPeak == -1000        \* colder than anything is

ASSUME DebounceConstants ==
    /\ Floors \in [Zone -> Int]
    /\ Temperatures \subseteq Int
    /\ \A value \in Temperatures : NoPeak <= value
    /\ RedAtOnce \in BOOLEAN
    /\ MayBeSilent \in BOOLEAN
    /\ Steps \subseteq Nat \ {0}
    /\ MaxTime \in Nat

VARIABLES
    now,      \* the wall clock
    st,       \* confirmed and pending zone
    alert,    \* the active_alerts entry: its peak, and since when
    \* history variables: what was really seen
    seen,     \* the zone of the last value
    seenAt,   \* when it was seen
    run,      \* since when every tick had a value, of that zone
    steady,   \* since when every value was of that zone, silent ticks aside
    hottest   \* the highest value seen during the alert

vars == <<now, st, alert, seen, seenAt, run, steady, hottest>>

NoAlert == [zone |-> GREEN, since |-> 0, peak |-> NoPeak]

Init ==
    /\ now = 0
    /\ st = ColdZone(0)
    /\ alert = NoAlert
    /\ seen = NoReading
    /\ seenAt = 0
    /\ run = 0
    /\ steady = 0
    /\ hottest = NoPeak

Higher(a, b) == IF a >= b THEN a ELSE b

Exists(a) == a.zone # GREEN

\* Forgets the peak.
BugTracked(a, value) == a

\* _track_alert_extras: an alert that is already there follows the peak.
Tracked(a, value) ==
    IF Exists(a) THEN [a EXCEPT !.peak = Higher(@, value)] ELSE a

\* _transition_*_zone.
Transition(a, zone, value, t) ==
    IF zone = GREEN THEN NoAlert
    ELSE [zone |-> zone,
          since |-> IF Exists(a) THEN a.since ELSE t,
          peak |-> IF Exists(a) THEN Higher(a.peak, value) ELSE value]

\* _update_*_zone for a value in the zone raw at time t.
Observed(value, raw, t) ==
    LET next == ZoneStep(st, raw, t, RedAtOnce)
    IN  /\ st' = next
        /\ alert' = IF next.confirmed # st.confirmed
                    THEN Transition(Tracked(alert, value), next.confirmed, value, t)
                    ELSE Tracked(alert, value)

Observe(value) ==
    /\ \E d \in Steps : now + d <= MaxTime /\ now' = now + d
    /\ LET raw == ZoneFor(value, Floors)
       IN  IF raw = NoReading   \* below every floor: as good as no value
           THEN /\ run' = now'
                /\ UNCHANGED <<st, alert, seen, seenAt, steady, hottest>>
           ELSE /\ Observed(value, raw, now')
                /\ seen' = raw
                /\ seenAt' = now'
                /\ steady' = IF raw = seen THEN steady ELSE now'
                /\ run' = IF raw = seen /\ run <= seenAt THEN run ELSE now'
                /\ hottest' = IF ~Exists(alert') THEN NoPeak
                              ELSE Higher(hottest, value)

\* A tick without a value leaves the zone engine alone.
Silence ==
    /\ MayBeSilent
    /\ \E d \in Steps : now + d <= MaxTime /\ now' = now + d
    /\ run' = now'
    /\ UNCHANGED <<st, alert, seen, seenAt, steady, hottest>>

Next == Silence \/ \E value \in Temperatures : Observe(value)

Spec == Init /\ [][Next]_vars

-----------------------------------------------------------------------------
TypeOK ==
    /\ now \in Nat
    /\ st \in ZoneState
    /\ alert \in [zone : Zone, since : Nat, peak : Int]
    /\ seen \in Reading
    /\ seenAt \in Nat
    /\ run \in Nat
    /\ steady \in Nat
    /\ hottest \in Int

\* De-escalation never waits: the alert is never worse than the last value
\* warrants, so a cooled sensor is not reported hot.
NeverOverstates == seen # NoReading => alert.zone <= seen

Overdue == \/ RedAtOnce /\ seen = RED
           \/ seen # NoReading /\ seenAt - steady >= Debounce

\* A zone held for the debounce time, or RED at all where it does not wait, is what
\* the alert shows: a steadily hot sensor cannot stay without its alert.
SteadyIsAlerted == Overdue => alert.zone = seen

\* The alert and the confirmed zone, kept in two variables, never disagree; and
\* the peak the recovery message reports is the highest value of the alert.
AlertIsConsistent ==
    /\ alert.zone = st.confirmed
    /\ alert.peak = hottest

\* A debounced alert is never early: when it rises, every value seen for as long as
\* the debounce time was in the zone it rises to.
RiseIsNotEarly ==
    [][alert'.zone > alert.zone /\ ~(RedAtOnce /\ alert'.zone = RED)
           => now' - steady' >= Debounce]_vars

\* Contradicted by the code.  _update_cpu_zone: a zone that is debounced needs
\* "sustained readings before an alert fires".  An alert that rises to it then
\* follows a run of ticks, each with a value in that zone, that lasted the
\* debounce time; the code lets silence and sleep count as well.
RiseWasSustained ==
    [][alert'.zone > alert.zone /\ ~(RedAtOnce /\ alert'.zone = RED)
           => now' - run' >= Debounce]_vars
=============================================================================
