------------------------------ MODULE MCUpkeep ------------------------------
(***************************************************************************)
(* Upkeep for TLC: what sessions measure, the courses of the resting       *)
(* temperature and of the changes, and what the reports begin with.        *)
(***************************************************************************)
EXTENDS Upkeep

Profile(temp, core, hotspot, power, download, zones, incident) ==
    [cpu |-> [temp |-> temp, power |-> 60],
     gpu |-> [core |-> core, hotspot |-> hotspot, power |-> power],
     network |-> download, zones |-> zones,
     incidents |-> IF incident THEN 1 ELSE 0, worst |-> IF incident THEN "RED" ELSE None]

Calm == Profile(60, 60, 70, 100, 1, {}, FALSE)

MCProfiles ==
    [game  |-> {Calm,
                Profile(60, 62, 72, 100, 9, {}, FALSE),
                Profile(85, 60, 95, 100, 1,
                        {[component |-> "cpu", zone |-> "RED", percent |-> 20]}, TRUE),
                Profile(60, 90, 95, 300, 1, {}, FALSE)},
     video |-> {Calm}]

Marker(id, at, component) == [id |-> id, at |-> at, component |-> component]

Warmer == [u \in 0 .. 5 |-> IF u < 3 THEN 40 + (u % 2) ELSE 48]
Unwatched == [u \in 0 .. 5 |-> IF u > 3 THEN None ELSE 50 - u]

MCCourses ==
    {[resting |-> Warmer, changes |-> {Marker(1, 3, "gpu")}],
     [resting |-> Unwatched, changes |-> {Marker(1, 3, "cpu"), Marker(2, 4, "system")}]}

\* Evidence that retention is about to take away, and a change with a session before it.
MCPasts ==
    {[incidents   |-> {[from |-> 12, to |-> 12]},
      sessions    |-> {[from |-> 12, to |-> 13]},
      telemetry   |-> 8 .. 13,
      experiments |-> {14}]}
=============================================================================
