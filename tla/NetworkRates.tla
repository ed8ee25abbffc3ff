---------------------------- MODULE NetworkRates ----------------------------
(***************************************************************************)
(* From network traffic to the rates the window shows: the capture inside  *)
(* the sensor bridge, its running totals and the file it publishes, and    *)
(* the sampling worker of app.py, which turns two readings of a counter    *)
(* into a rate.                                                            *)
(*                                                                         *)
(* A rate is kept as the bytes it was computed from; the time between two  *)
(* readings is positive or not.  Traffic has two directions.               *)
(***************************************************************************)
EXTENDS Values, Integers, FiniteSets

CONSTANTS
    Processes,   \* process identifiers
    Names,       \* programs
    Adapters,    \* network adapters
    StaleAfter,  \* BRIDGE_FRESH_SECONDS, in ticks of the worker
    MaxBytes,    \* bound on the traffic of a process in a direction
    MaxBoots     \* bound on the starts of the bridge

ASSUME RateConstants ==
    /\ {StaleAfter, MaxBytes, MaxBoots} \subseteq Nat
    /\ Processes \cap Adapters = {}
    /\ None \notin Names \cup Adapters

VARIABLES
    running,   \* the program under each identifier
    route,     \* the adapter of the default route
    octets,    \* the counter of each adapter
    boots,     \* how often the bridge was started
    events,    \* bytes the capture holds since its last snapshot
    totals,    \* $netProcTotals
    names,     \* $netProcNames
    file,      \* network_processes_v3.json and its age
    prevProc,  \* prev_net_proc
    prevNet,   \* prev_net
    \* history variables
    moved,     \* bytes each process moved; those of an adapter are counted as "in"
    shown      \* bytes the rates shown so far stand for

ratesVars == <<running, route, octets, boots, events, totals, names, file,
               prevProc, prevNet, moved, shown>>

Way == {"in", "out"}
Zero == [w \in Way |-> 0]
Sum2(x, y) == [w \in Way |-> x[w] + y[w]]
Minus(x, y) == [w \in Way |-> x[w] - y[w]]

NoFile == [age |-> StaleAfter, rows |-> <<>>]

RatesInit ==
    /\ running = [p \in Processes |-> None]
    /\ route = None
    /\ octets = [a \in Adapters |-> 0]
    /\ boots = 0
    /\ events = [p \in {} |-> Zero]
    /\ totals = <<>>
    /\ names = <<>>
    /\ file = NoFile
    /\ prevProc = <<>>
    /\ prevNet = None
    /\ moved = [x \in Processes \cup Adapters |-> Zero]
    /\ shown = [x \in Processes \cup Adapters |-> Zero]

bridgeSide == <<boots, events, totals, names, file>>
workerSide == <<prevProc, prevNet, shown>>

-----------------------------------------------------------------------------
\* The system.

ProgramChanges(p) ==
    /\ \E n \in Names \cup {None} : n # running[p] /\ running' = [running EXCEPT ![p] = n]
    /\ UNCHANGED <<route, octets, moved, bridgeSide, workerSide>>

RouteChanges ==
    /\ \E a \in Adapters \cup {None} : a # route /\ route' = a
    /\ UNCHANGED <<running, octets, moved, bridgeSide, workerSide>>

\* An adapter is reset and counts from zero.
AdapterResets(a) ==
    /\ octets[a] > 0
    /\ octets' = [octets EXCEPT ![a] = 0]
    /\ UNCHANGED <<running, route, moved, bridgeSide, workerSide>>

Count(table, p) == IF p \in DOMAIN table THEN table[p] ELSE Zero
With(table, p, value) == [q \in DOMAIN table \cup {p} |-> IF q = p THEN value ELSE table[q]]

\* A process moves a byte: the adapter counts it, and OnEvent, if the bridge
\* captures, unless it fails to decode the event.
Traffic(p, w) ==
    LET byte == [Zero EXCEPT ![w] = 1] IN
    /\ running[p] # None /\ route # None
    /\ moved[p][w] < MaxBytes
    /\ moved' = [moved EXCEPT ![p] = Sum2(@, byte), ![route]["in"] = @ + 1]
    /\ octets' = [octets EXCEPT ![route] = @ + 1]
    /\ \/ boots > 0 /\ events' = With(events, p, Sum2(Count(events, p), byte))
       \/ UNCHANGED events
    /\ UNCHANGED <<running, route, boots, totals, names, file, workerSide>>

-----------------------------------------------------------------------------
\* The bridge.

\* A bridge starts, after the one before it has ended or was killed.
BridgeStarts ==
    /\ boots < MaxBoots
    /\ boots' = boots + 1
    /\ events' = <<>> /\ totals' = <<>> /\ names' = <<>>
    /\ UNCHANGED <<file, running, route, octets, moved, workerSide>>

\* Snapshot: hands out what came since the last one and begins anew.
Cleared == <<>>

TotalsAfter ==
    [p \in DOMAIN totals \cup DOMAIN events |-> Sum2(Count(totals, p), Count(events, p))]

\* The name of a process is asked for once and then remembered.
NamesAfter ==
    [p \in {q \in DOMAIN TotalsAfter : q \in DOMAIN names \/ running[q] # None} |->
        IF p \in DOMAIN names THEN names[p] ELSE running[p]]

\* A pass of the bridge's loop, whose write may fail.
CaptureRound ==
    /\ boots > 0
    /\ events' = Cleared
    /\ totals' = TotalsAfter
    /\ names' = NamesAfter
    /\ \/ file' = [age |-> 0,
                   rows |-> [p \in DOMAIN TotalsAfter |->
                       [name |-> IF p \in DOMAIN NamesAfter THEN NamesAfter[p] ELSE None,
                        bytes |-> TotalsAfter[p]]]]
       \/ UNCHANGED file
    /\ UNCHANGED <<boots, running, route, octets, moved, workerSide>>

-----------------------------------------------------------------------------
\* The worker.

\* network_processes: nothing if the file is stale.
Payload == IF file.age < StaleAfter THEN file.rows ELSE <<>>

\* Mutant, used by no specification: takes an unknown process to have begun at zero.
BugProcessRate(p, later) == Minus(Payload[p].bytes, Count(prevProc, p))

\* process_network_rates: a rate needs an earlier reading, time between the two,
\* and counters that did not go back.
ProcessRate(p, later) ==
    IF /\ p \in DOMAIN prevProc
       /\ later
       /\ \A w \in Way : Payload[p].bytes[w] >= prevProc[p][w]
    THEN Minus(Payload[p].bytes, prevProc[p])
    ELSE None

\* active_network_snapshot, whose two directions are taken as one: a counter that
\* went back counts as no traffic.
AdapterRate(later) ==
    IF route # None /\ prevNet # None /\ prevNet.adapter = route /\ later
    THEN [Zero EXCEPT !["in"] = IF octets[route] > prevNet.octets
                                 THEN octets[route] - prevNet.octets ELSE 0]
    ELSE None

OrZero(rate) == IF rate = None THEN Zero ELSE rate

WorkerTick ==
    \E later \in BOOLEAN :
        /\ shown' = [x \in Processes \cup Adapters |->
               Sum2(shown[x],
                    IF x \in DOMAIN Payload THEN OrZero(ProcessRate(x, later))
                    ELSE IF x = route THEN OrZero(AdapterRate(later)) ELSE Zero)]
        /\ prevProc' = [p \in DOMAIN Payload |-> Payload[p].bytes]
        /\ prevNet' = IF route = None THEN None ELSE [adapter |-> route, octets |-> octets[route]]
        /\ file' = [file EXCEPT !.age = IF @ < StaleAfter THEN @ + 1 ELSE @]
        /\ UNCHANGED <<running, route, octets, boots, events, totals, names, moved>>

RatesNext ==
    \/ RouteChanges \/ BridgeStarts \/ CaptureRound \/ WorkerTick
    \/ \E a \in Adapters : AdapterResets(a)
    \/ \E p \in Processes : ProgramChanges(p) \/ \E w \in Way : Traffic(p, w)

-----------------------------------------------------------------------------
\* However the bridge is restarted, files are missed or grow stale, processes end
\* and adapters are reset or change: what the rates of a process add up to, in each
\* direction, it has really moved, and so has the adapter.
NothingCountedTwice ==
    \A x \in Processes \cup Adapters : \A w \in Way : shown[x][w] <= moved[x][w]

\* sensor_bridge_v3.ps1:492: $netProcNames is a "short-lived PID -> name cache,
\* cleared each poll": a name published is that of the process at that poll.
NamesAreCurrent ==
    [][(file'.age = 0 /\ file' # file) =>
            \A p \in DOMAIN file'.rows : file'.rows[p].name \in {None, running[p]}]_ratesVars
=============================================================================
