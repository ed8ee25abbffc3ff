------------------------------ MODULE MCConsole ------------------------------
(***************************************************************************)
(* Console for TLC: the zones of a drive, two programs of which Windows    *)
(* tells everything or nothing, and sensors and records with names.        *)
(***************************************************************************)
EXTENDS Console

DRIVE_ZONES ==
    [z \in Zone |-> CASE z = GREEN -> 0 [] z = YELLOW -> 60 [] z = ORANGE -> 70 [] z = RED -> 80]

\* The floor of every zone, a value just below the next, one above the last; and
\* a drive in a cold room, whose composite temperature can be negative.
DriveTemperatures == {-3, 0, 59, 60, 69, 70, 79, 80, 85}

PollOrSleep == {1, 4}

MCAccess == [x |-> {"reads", "memory"}, y |-> {}]

Use(process, engine, load) == [process |-> process, engine |-> engine, load |-> load]

\* Two processes: one busy at two engines, one hardly; or both beyond the whole, one at
\* an engine without a name.
MCGpuUses ==
    {{Use(1, "3D", 40), Use(1, "Copy", 40), Use(2, "3D", 3)},
     {Use(1, None, 120), Use(2, "3D", 130), Use(2, None, 5)}}

\* Two sensors of one name, in the case that tells identities apart.
MCNameOf == <<"temperature", "temperature">>

MCPartOf == [i1 |-> "cpu in RED", i2 |-> "gpu_core in YELLOW"]
\* The name of a game, and of one that starts alike.
MCWorkloadOf == [i1 |-> "game", i2 |-> "game2", s1 |-> "game"]
MCFoundIn ==
    {<<"game", "i1">>, <<"game", "i2">>, <<"game", "s1">>, <<"game2", "i2">>}

MCKindOf == <<"incident", "gap">>
MCAgeOf == <<1, 2>>

MCPartsAsked == [cpu |-> {"cpu"}]
MCWordings == {{"why"}, {"incident"}, {"what", "happened"}, {"which", "game"}, {"weather"}}

MCEndpointKind ==
    [local |-> "loopback", remote |-> "remote", refused |-> "refused", broken |-> "unparseable"]
=============================================================================
