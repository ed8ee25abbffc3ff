----------------------------- MODULE TickAlerts -----------------------------
(***************************************************************************)
(* The alerts of app.py that each tick decides by itself, outside of the   *)
(* zone engines: the message to Nox about a hot processor, the stalled CPU *)
(* fan, memory, the flight recorder's network events, and the fan curve    *)
(* that follows the alerts.                                                *)
(*                                                                         *)
(* A temperature is one of "cool" (below NOX_ALERT_RECOVER_C), "warm" (up  *)
(* to NOX_ALERT_TEMP_C) and "hot"; all but "cool" are above CPU_YELLOW,    *)
(* and "cool" may be.  A time is how long ago it was and saturates.        *)
(***************************************************************************)
EXTENDS Values, Integers

CONSTANTS
    Unset,      \* _NET_STATE_UNSET
    Sustained,  \* NOX_ALERT_SUSTAINED_S
    Debounce,   \* ALERT_DEBOUNCE_S, with Debounce <= Sustained
    Steps,      \* the times between two ticks
    Cards       \* the adapters, each with a link that is up or down

ASSUME AlertConstants ==
    /\ Sustained \in Nat /\ Debounce \in 0 .. Sustained
    /\ Steps \subseteq Nat
    /\ None \notin Nat /\ Unset # None
    /\ {None, Unset} \cap [index : Cards, link : BOOLEAN] = {}
    /\ None \notin [is : {"lost", "restored", "down"}]
    /\ None \notin [is : {"connected", "switched"}, adapter : Cards]

VARIABLES
    nox,      \* nox_alert_pending_since and nox_alert_armed
    fan,      \* cpu_fan_alert_state
    active,   \* active_alerts: those of the fan and of memory, and their ages
    curve,    \* curve_escalated
    network,  \* _prev_net_adapter
    \* history variables
    hot,      \* how long every temperature read was hot; None while none was
    heard,    \* the messages to Nox since the processor was last cool
    stalled,  \* for how long every tick saw the fan stalled
    told,     \* what the last tick said: the messages and events it sent
    followed  \* the adapter as one would have it from the network events

tickVars == <<nox, fan, active, curve, network, hot, heard, stalled, told, followed>>

NoAlert == [fan |-> None, memory |-> None]

TickInit ==
    /\ nox = [since |-> None, armed |-> TRUE]
    /\ fan = [since |-> None, confirmed |-> FALSE]
    /\ active = NoAlert
    /\ curve = FALSE
    /\ network = Unset
    /\ hot = None
    /\ heard = 0
    /\ stalled = None
    /\ told = {}
    /\ followed = Unset

-----------------------------------------------------------------------------
\* The age of something that was age old a step ago, and is no older than Sustained.
Aged(age, step) ==
    IF age = None THEN None ELSE IF age + step > Sustained THEN Sustained ELSE age + step

\* What begins now unless it has begun.
Since(age, step) == IF age = None THEN 0 ELSE Aged(age, step)

\* _maybe_alert_nox: nothing without a temperature, though time goes on.
NoxAfter(cpu, step) ==
    IF cpu = None THEN [nox EXCEPT !.since = Aged(@, step)]
    ELSE IF cpu # "hot" THEN [since |-> None, armed |-> nox.armed \/ cpu = "cool"]
    ELSE [since |-> Since(nox.since, step),
          armed |-> nox.armed /\ (nox.since = None \/ Aged(nox.since, step) < Sustained)]

\* _update_cpu_fan_alert, given whether the fan reads 0 RPM on a hot processor.
FanAfter(stall, step) ==
    IF ~stall THEN [since |-> None, confirmed |-> FALSE]
    ELSE LET since == Since(fan.since, step)
         IN  [since |-> since, confirmed |-> fan.confirmed \/ since >= Debounce]

\* The entry of an alert: kept while it lasts, gone when it is over.
AlertAge(age, step, on) == IF on THEN Since(age, step) ELSE None

\* _check_alert of memory comes after the fan curve was looked at.
CurveAfter(confirmed) == confirmed \/ active.memory # None

\* Mutant, used by no specification: says nothing of a switch of adapters.
BugNetworkEvent(now) ==
    IF network = Unset \/ now = network THEN None
    ELSE IF network = None THEN [is |-> "connected", adapter |-> now.index]
    ELSE IF now = None THEN [is |-> "lost"]
    ELSE IF network.index # now.index THEN None
    ELSE [is |-> IF now.link THEN "restored" ELSE "down"]

\* _detect_network_flight_events, of an adapter that is an index and a link.
NetworkEvent(now) ==
    IF network = Unset \/ now = network THEN None
    ELSE IF network = None THEN [is |-> "connected", adapter |-> now.index]
    ELSE IF now = None THEN [is |-> "lost"]
    ELSE IF network.index # now.index THEN [is |-> "switched", adapter |-> now.index]
    ELSE [is |-> IF now.link THEN "restored" ELSE "down"]

\* The adapter of one who reads the events.
Heard(event, now) ==
    IF network = Unset THEN (IF now = None THEN None ELSE now.index)
    ELSE IF event = None THEN followed
    ELSE CASE event.is = "lost" -> None
           [] event.is \in {"connected", "switched"} -> event.adapter
           [] OTHER -> followed

-----------------------------------------------------------------------------
\* update_data.
Tick(cpu, rpm, memory, now, step) ==
    LET stall == rpm = 0 /\ cpu \in {"warm", "hot", "cool but yellow"}
        event == NetworkEvent(now)
        level == IF cpu = "cool but yellow" THEN "cool" ELSE cpu
        sends == nox.armed /\ ~NoxAfter(level, step).armed
    IN  /\ nox' = NoxAfter(level, step)
        /\ fan' = FanAfter(stall, step)
        /\ active' = [fan    |-> AlertAge(active.fan, step, FanAfter(stall, step).confirmed),
                      memory |-> AlertAge(active.memory, step, memory)]
        /\ curve' = CurveAfter(FanAfter(stall, step).confirmed)
        /\ network' = now
        /\ told' = (IF sends THEN {"nox"} ELSE {})
                     \cup (IF curve' # curve THEN {"curve"} ELSE {})
        /\ followed' = Heard(event, now)
        /\ hot' = IF level = None THEN Aged(hot, step)
                  ELSE IF level = "hot" THEN Since(hot, step) ELSE None
        /\ heard' = IF level = "cool" THEN 0 ELSE IF sends THEN heard + 1 ELSE heard
        /\ stalled' = IF stall THEN Since(stalled, step) ELSE None

TickNext ==
    \E cpu \in {None, "cool", "cool but yellow", "warm", "hot"}, rpm \in {None, 0, 1},
       memory \in BOOLEAN, step \in Steps,
       now \in {None} \cup [index : Cards, link : BOOLEAN] :
        Tick(cpu, rpm, memory, now, step)

-----------------------------------------------------------------------------
\* Nox hears of an excursion once, however the temperature hovers or vanishes, and
\* after every temperature read for Sustained was hot.  The fan's alert is up if and
\* only if every tick for the debounce time saw it stalled, a reading that vanishes
\* ending it, and the fan curve follows it at once.  And the recorder's events tell
\* which adapter is the active one.
AlertsAreTrue ==
    /\ heard <= 1
    /\ "nox" \in told => (hot # None /\ hot >= Sustained)
    /\ (active.fan # None) <=> (stalled # None /\ stalled >= Debounce)
    /\ active.fan # None => curve
    /\ network # Unset => followed = (IF network = None THEN None ELSE network.index)
=============================================================================
