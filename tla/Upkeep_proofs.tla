---------------------------- MODULE Upkeep_proofs ----------------------------
(***************************************************************************)
(* What holds of the network rates for any number of processes, adapters   *)
(* and starts of the bridge, of the alerts of a tick for any thresholds    *)
(* and times between two ticks, of the reports for every calendar and      *)
(* retention, of the windows of questions at any hour, and of what the     *)
(* analyses conclude from any history of any length: means and variances   *)
(* are compared as the fractions they are.                                 *)
(***************************************************************************)
EXTENDS Upkeep, Extrema

-----------------------------------------------------------------------------
\* THE RATES OF THE NETWORK

Bytes == [Way -> Nat]

IsTable(t) == t = [p \in DOMAIN t |-> t[p]] /\ DOMAIN t \subseteq Processes /\ \A p \in DOMAIN t : t[p] \in Bytes

RatesTypes ==
    /\ running \in [Processes -> Names \cup {None}]
    /\ route \in Adapters \cup {None}
    /\ octets \in [Adapters -> Nat]
    /\ IsTable(events) /\ IsTable(totals) /\ IsTable(prevProc)
    /\ file = [age |-> file.age, rows |-> file.rows]
    /\ DOMAIN file.rows \subseteq Processes
    /\ \A p \in DOMAIN file.rows : file.rows[p].bytes \in Bytes
    /\ prevNet \in {None} \cup [adapter : Adapters, octets : Nat]
    /\ moved \in [Processes \cup Adapters -> Bytes]
    /\ shown \in [Processes \cup Adapters -> Bytes]

\* What the bridge in charge has counted for a process, published or not.
Live(p, w) == Count(totals, p)[w] + Count(events, p)[w]

\* What the file says of a process.
Filed(p, w) == IF p \in DOMAIN file.rows THEN file.rows[p].bytes[w] ELSE 0

\* The reading that the next rate is computed from, if that is not behind the file.
From(p, w) == IF p \in DOMAIN prevProc /\ prevProc[p][w] <= Filed(p, w) THEN prevProc[p][w] ELSE Filed(p, w)

\* Either the file is of the bridge in charge, and what that bridge counted beyond the
\* last reading has not been shown; or the file is of an earlier one, and neither what it
\* says beyond that reading nor what this bridge counted has been.
ProcessCounted(p, w) ==
    \/ /\ Filed(p, w) <= Live(p, w)
       /\ shown[p][w] + Live(p, w) <= moved[p][w] + From(p, w)
    \/ shown[p][w] + Live(p, w) + Filed(p, w) <= moved[p][w] + From(p, w)

\* What an adapter counted beyond the last reading of it has not been shown.
AdapterCounted(a) ==
    /\ shown[a]["in"] <= moved[a]["in"]
    /\ shown[a]["out"] = 0
    /\ prevNet # None /\ prevNet.adapter = a =>
           shown[a]["in"] + octets[a] <= moved[a]["in"] + prevNet.octets

RatesInv ==
    /\ RatesTypes
    /\ \A p \in Processes, w \in Way : ProcessCounted(p, w)
    /\ \A a \in Adapters : AdapterCounted(a)

LEMMA SumOfBytes ==
    ASSUME NEW x \in Bytes, NEW y \in Bytes
    PROVE  Sum2(x, y) \in Bytes /\ \A w \in Way : Sum2(x, y)[w] = x[w] + y[w]
BY DEF Bytes, Sum2

LEMMA ZeroIsBytes == Zero \in Bytes /\ \A w \in Way : Zero[w] = 0
BY DEF Bytes, Zero

LEMMA CountIsBytes ==
    ASSUME NEW t, IsTable(t), NEW p PROVE Count(t, p) \in Bytes
BY ZeroIsBytes DEF Count, IsTable

LEMMA CountOfNothing == IsTable(<<>>) /\ \A p : Count(<<>>, p) = Zero
<1>1. DOMAIN <<>> = {}
  OBVIOUS
<1>2. <<>> = [p \in DOMAIN <<>> |-> <<>>[p]]
  OBVIOUS
<1>3. QED
  BY <1>1, <1>2 DEF Count, IsTable

\* What is counted, filed and shown are numbers of bytes.
LEMMA NumbersOfBytes ==
    ASSUME RatesTypes, NEW p \in Processes, NEW w \in Way
    PROVE  /\ Live(p, w) \in Nat /\ Filed(p, w) \in Nat
           /\ From(p, w) \in Nat /\ From(p, w) <= Filed(p, w)
           /\ shown[p][w] \in Nat /\ moved[p][w] \in Nat
<1>1. Count(totals, p) \in Bytes /\ Count(events, p) \in Bytes
  BY CountIsBytes DEF RatesTypes
<1>2. Live(p, w) \in Nat
  BY <1>1 DEF Live, Bytes
<1>3. Filed(p, w) \in Nat
  BY DEF Filed, RatesTypes, Bytes
<1>4. p \in DOMAIN prevProc => prevProc[p][w] \in Nat
  BY DEF RatesTypes, IsTable, Bytes
<1>5. From(p, w) \in Nat /\ From(p, w) <= Filed(p, w)
  BY <1>3, <1>4 DEF From
<1>6. shown[p][w] \in Nat /\ moved[p][w] \in Nat
  BY DEF RatesTypes, Bytes
<1>7. QED
  BY <1>2, <1>3, <1>5, <1>6

LEMMA RatesInitially == RatesInit => RatesInv
<1> SUFFICES ASSUME RatesInit PROVE RatesInv
  OBVIOUS
<1>1. DOMAIN <<>> = {} /\ events = <<>>
  BY DEF RatesInit
<1>2. RatesTypes
  <2>1. DOMAIN file.rows = {} /\ file = [age |-> file.age, rows |-> file.rows]
    BY <1>1 DEF RatesInit, NoFile
  <2>2. IsTable(events) /\ IsTable(totals) /\ IsTable(prevProc)
    BY <1>1, CountOfNothing DEF RatesInit
  <2>3. QED
    BY <2>1, <2>2, ZeroIsBytes DEF RatesInit, RatesTypes
<1>3. ASSUME NEW p \in Processes, NEW w \in Way PROVE ProcessCounted(p, w)
  <2>1. Live(p, w) = 0
    BY <1>1, CountOfNothing, ZeroIsBytes DEF RatesInit, Live
  <2>2. shown[p][w] = 0
    BY ZeroIsBytes DEF RatesInit
  <2>3. Filed(p, w) = 0
    BY <1>1 DEF RatesInit, NoFile, Filed
  <2>4. QED
    BY <1>2, <2>1, <2>2, <2>3, NumbersOfBytes DEF ProcessCounted
<1>4. ASSUME NEW a \in Adapters PROVE AdapterCounted(a)
  BY ZeroIsBytes DEF RatesInit, AdapterCounted, Way
<1>5. QED
  BY <1>2, <1>3, <1>4 DEF RatesInv

\* Steps that leave what was counted, filed and shown of the processes alone.
LEMMA ProcessesKept ==
    ASSUME RatesInv, UNCHANGED <<moved, shown, events, totals, file, prevProc>>
    PROVE  \A p \in Processes, w \in Way : ProcessCounted(p, w)'
BY DEF RatesInv, ProcessCounted, Live, Filed, From

LEMMA AdaptersKept ==
    ASSUME RatesInv, UNCHANGED <<moved, shown, octets, prevNet>>
    PROVE  \A a \in Adapters : AdapterCounted(a)'
BY DEF RatesInv, AdapterCounted

\* Other programs, other routes, and an adapter that counts from zero.
LEMMA SystemStep ==
    ASSUME RatesInv,
           \/ RouteChanges
           \/ \E p \in Processes : ProgramChanges(p)
           \/ \E a \in Adapters : AdapterResets(a)
    PROVE  RatesInv'
<1>1. UNCHANGED <<moved, shown, events, totals, file, prevProc, prevNet>>
  BY DEF RouteChanges, ProgramChanges, AdapterResets, bridgeSide, workerSide
<1>2. RatesTypes'
  <2>1. CASE RouteChanges
    BY <1>1, <2>1 DEF RatesInv, RatesTypes, RouteChanges
  <2>2. CASE \E p \in Processes : ProgramChanges(p)
    BY <1>1, <2>2 DEF RatesInv, RatesTypes, ProgramChanges
  <2>3. CASE \E a \in Adapters : AdapterResets(a)
    BY <1>1, <2>3 DEF RatesInv, RatesTypes, AdapterResets
  <2>4. QED
    BY <2>1, <2>2, <2>3
<1>3. ASSUME NEW a \in Adapters PROVE AdapterCounted(a)'
  <2>1. octets'[a] = octets[a] \/ octets'[a] = 0
    BY DEF RatesInv, RatesTypes, RouteChanges, ProgramChanges, AdapterResets
  <2>2. /\ shown[a]["in"] \in Nat /\ moved[a]["in"] \in Nat /\ octets[a] \in Nat
        /\ prevNet # None => prevNet.octets \in Nat
    BY DEF RatesInv, RatesTypes, Bytes, Way
  <2>3. QED
    BY <1>1, <2>1, <2>2 DEF RatesInv, AdapterCounted
<1>4. QED
  BY <1>1, <1>2, <1>3, ProcessesKept DEF RatesInv

\* A byte that a process moves is counted once, by the bridge in charge or by none, and
\* once by the adapter of the route.
LEMMA TrafficStep ==
    ASSUME RatesInv, NEW p \in Processes, NEW w \in Way, Traffic(p, w)
    PROVE  RatesInv'
<1> DEFINE byte == [Zero EXCEPT ![w] = 1]
           after == Sum2(Count(events, p), byte)
<1>1. /\ UNCHANGED <<running, route, totals, file, prevProc, prevNet, shown>>
      /\ route \in Adapters /\ p # route
      /\ moved' = [moved EXCEPT ![p] = Sum2(@, byte), ![route]["in"] = @ + 1]
      /\ octets' = [octets EXCEPT ![route] = @ + 1]
      /\ events' = With(events, p, after) \/ events' = events
  <2>1. route # None /\ route \in Adapters \cup {None}
    BY DEF Traffic, RatesInv, RatesTypes
  <2>2. QED
    BY <2>1, RateConstants DEF Traffic, bridgeSide, workerSide
<1>2. byte \in Bytes /\ \A v \in Way : byte[v] = IF v = w THEN 1 ELSE 0
  BY DEF Bytes, Zero
<1> HIDE DEF byte
<1>3. RatesTypes
  BY DEF RatesInv
<1>4. /\ moved' \in [Processes \cup Adapters -> Bytes]
      /\ moved'[p] = Sum2(moved[p], byte)
      /\ \A x \in Processes \ {p} : moved'[x] = moved[x]
      /\ \A a \in Adapters :
            /\ moved'[a]["out"] = moved[a]["out"]
            /\ moved'[a]["in"] = IF a = route THEN moved[a]["in"] + 1 ELSE moved[a]["in"]
  <2> DEFINE one == [moved EXCEPT ![p] = Sum2(@, byte)]
             more == [moved[route] EXCEPT !["in"] = @ + 1]
  <2>1. moved[p] \in Bytes /\ moved[route] \in Bytes
    BY <1>1, <1>3 DEF RatesTypes
  <2>2. Sum2(moved[p], byte) \in Bytes
    BY <1>2, <2>1, SumOfBytes
  <2>3. more \in Bytes /\ more["in"] = moved[route]["in"] + 1 /\ more["out"] = moved[route]["out"]
    BY <2>1 DEF Bytes, Way
  <2>4. one \in [Processes \cup Adapters -> Bytes] /\ one[route] = moved[route]
    BY <1>1, <1>3, <2>2 DEF RatesTypes
  <2>5. moved' = [one EXCEPT ![route] = more]
    BY <1>1, <2>4
  <2>6. one[p] = Sum2(moved[p], byte) /\ \A x \in (Processes \cup Adapters) \ {p} : one[x] = moved[x]
    BY <1>3 DEF RatesTypes
  <2> HIDE DEF one, more
  <2>7. moved' \in [Processes \cup Adapters -> Bytes]
    BY <2>3, <2>4, <2>5
  <2>8. /\ moved'[route] = more
        /\ \A x \in (Processes \cup Adapters) \ {route} : moved'[x] = one[x]
    BY <1>1, <2>4, <2>5
  <2>9. p \notin Adapters /\ route \notin Processes
    BY <1>1, RateConstants
  <2>10. QED
    BY <1>1, <2>3, <2>6, <2>7, <2>8, <2>9
<1>5. /\ octets' \in [Adapters -> Nat]
      /\ \A a \in Adapters : octets'[a] = IF a = route THEN octets[a] + 1 ELSE octets[a]
  BY <1>1, <1>3 DEF RatesTypes
<1>6. Count(events, p) \in Bytes
  BY <1>3, CountIsBytes DEF RatesTypes
<1>7. after \in Bytes /\ \A v \in Way : after[v] = Count(events, p)[v] + byte[v]
  BY <1>2, <1>6, SumOfBytes
<1> HIDE DEF after
<1>8. /\ IsTable(events')
      /\ Count(events', p) \in {Count(events, p), after}
      /\ \A q \in Processes \ {p} : Count(events', q) = Count(events, q)
  <2>1. CASE events' = events
    BY <1>3, <2>1 DEF RatesTypes
  <2>2. CASE events' = With(events, p, after)
    BY <1>3, <1>7, <2>2 DEF RatesTypes, IsTable, With, Count
  <2>3. QED
    BY <1>1, <2>1, <2>2
<1>9. RatesTypes'
  BY <1>1, <1>3, <1>4, <1>5, <1>8 DEF RatesTypes
<1>10. ASSUME NEW q \in Processes, NEW v \in Way PROVE ProcessCounted(q, v)'
  <2>1. /\ Filed(q, v)' = Filed(q, v) /\ From(q, v)' = From(q, v) /\ shown' = shown
    BY <1>1 DEF Filed, From
  <2>2. /\ moved'[q][v] - moved[q][v] >= 0
        /\ Live(q, v)' >= Live(q, v)
        /\ Live(q, v)' - Live(q, v) <= moved'[q][v] - moved[q][v]
    <3>1. CASE q = p
      <4>1. moved'[p][v] = moved[p][v] + byte[v] /\ byte[v] \in Nat
        <5>1. moved[p] \in Bytes
          BY <1>3 DEF RatesTypes
        <5>2. QED
          BY <1>2, <1>4, <5>1, SumOfBytes
      <4>2. Live(p, v)' \in {Live(p, v), Live(p, v) + byte[v]}
        <5>1. Count(totals, p)[v] \in Nat /\ Count(events, p)[v] \in Nat
          BY <1>3, CountIsBytes DEF RatesTypes, Bytes
        <5>2. Live(p, v)' = Count(totals, p)[v] + Count(events', p)[v]
          BY <1>1 DEF Live, Count
        <5>3. QED
          BY <1>7, <1>8, <4>1, <5>1, <5>2 DEF Live
      <4>3. Live(p, v) \in Nat /\ moved[p][v] \in Nat
        BY <1>3, NumbersOfBytes
      <4>4. QED
        BY <3>1, <4>1, <4>2, <4>3
    <3>2. CASE q # p
      <4>1. moved'[q][v] = moved[q][v] /\ Live(q, v)' = Live(q, v)
        BY <1>1, <1>4, <1>8, <3>2 DEF Live, Count
      <4>2. QED
        BY <1>3, <4>1, NumbersOfBytes
    <3>3. QED
      BY <3>1, <3>2
  <2>3. /\ Live(q, v) \in Nat /\ Filed(q, v) \in Nat /\ From(q, v) \in Nat
        /\ shown[q][v] \in Nat /\ moved[q][v] \in Nat
    BY <1>3, NumbersOfBytes
  <2>4. moved'[q][v] \in Nat /\ Live(q, v)' \in Nat
    <3>1. Count(totals', q) \in Bytes /\ Count(events', q) \in Bytes
      BY <1>9, CountIsBytes DEF RatesTypes
    <3>2. Live(q, v)' = Count(totals', q)[v] + Count(events', q)[v]
      BY DEF Live, Count
    <3>3. QED
      BY <1>4, <3>1, <3>2 DEF Bytes
  <2>5. ProcessCounted(q, v)
    BY DEF RatesInv
  <2> DEFINE m == moved'[q][v]  l == Live(q, v)'
  <2>6. /\ \/ /\ Filed(q, v) <= l
              /\ shown[q][v] + l <= m + From(q, v)
           \/ shown[q][v] + l + Filed(q, v) <= m + From(q, v)
    <3> HIDE DEF m, l
    <3>1. m \in Nat /\ l \in Nat /\ m - moved[q][v] >= 0 /\ l >= Live(q, v) /\ l - Live(q, v) <= m - moved[q][v]
      BY <2>2, <2>4 DEF m, l
    <3>2. QED
      BY <2>3, <2>5, <3>1 DEF ProcessCounted
  <2>7. QED
    BY <2>1, <2>6 DEF ProcessCounted
<1>11. ASSUME NEW a \in Adapters PROVE AdapterCounted(a)'
  <2>1. /\ shown[a]["in"] \in Nat /\ moved[a]["in"] \in Nat /\ octets[a] \in Nat
        /\ prevNet # None => prevNet.octets \in Nat
    BY <1>3 DEF RatesTypes, Bytes, Way
  <2>2. AdapterCounted(a)
    BY DEF RatesInv
  <2>3. CASE a = route
    <3>1. moved'[a]["in"] = moved[a]["in"] + 1 /\ octets'[a] = octets[a] + 1
      BY <1>4, <1>5, <2>3
    <3>2. QED
      BY <1>1, <2>1, <2>2, <3>1 DEF AdapterCounted
  <2>4. CASE a # route
    <3>1. moved'[a]["in"] = moved[a]["in"] /\ octets'[a] = octets[a]
      BY <1>4, <1>5, <2>4
    <3>2. QED
      BY <1>1, <2>1, <2>2, <3>1 DEF AdapterCounted
  <2>5. QED
    BY <2>3, <2>4
<1>12. QED
  BY <1>9, <1>10, <1>11 DEF RatesInv

\* A bridge that starts has counted nothing, and the file is of an earlier one.
LEMMA BridgeStartsStep == RatesInv /\ BridgeStarts => RatesInv'
<1> SUFFICES ASSUME RatesInv, BridgeStarts PROVE RatesInv'
  OBVIOUS
<1>1. /\ events' = <<>> /\ totals' = <<>>
      /\ UNCHANGED <<file, running, route, octets, moved, prevProc, prevNet, shown>>
  BY DEF BridgeStarts, workerSide
<1>2. RatesTypes'
  BY <1>1, CountOfNothing DEF RatesInv, RatesTypes
<1>3. ASSUME NEW p \in Processes, NEW w \in Way PROVE ProcessCounted(p, w)'
  <2>1. /\ Filed(p, w)' = Filed(p, w) /\ From(p, w)' = From(p, w)
        /\ shown' = shown /\ moved' = moved
    BY <1>1 DEF Filed, From
  <2>2. Live(p, w)' = 0
    <3>1. Live(p, w)' = Count(<<>>, p)[w] + Count(<<>>, p)[w]
      BY <1>1 DEF Live, Count
    <3>2. QED
      BY <3>1, CountOfNothing, ZeroIsBytes
  <2>3. /\ Live(p, w) \in Nat /\ Filed(p, w) \in Nat /\ From(p, w) \in Nat
        /\ shown[p][w] \in Nat /\ moved[p][w] \in Nat
    BY NumbersOfBytes DEF RatesInv
  <2>4. ProcessCounted(p, w)
    BY DEF RatesInv
  <2>5. shown[p][w] + 0 + Filed(p, w) <= moved[p][w] + From(p, w)
    BY <2>3, <2>4 DEF ProcessCounted
  <2>6. QED
    BY <2>1, <2>2, <2>5 DEF ProcessCounted
<1>4. QED
  BY <1>1, <1>2, <1>3, AdaptersKept DEF RatesInv

\* A pass of the bridge counts nothing anew: what it publishes is what it has counted.
LEMMA CaptureStep == RatesInv /\ CaptureRound => RatesInv'
<1> SUFFICES ASSUME RatesInv, CaptureRound PROVE RatesInv'
  OBVIOUS
<1> DEFINE rows == [p \in DOMAIN TotalsAfter |->
                       [name |-> IF p \in DOMAIN NamesAfter THEN NamesAfter[p] ELSE None,
                        bytes |-> TotalsAfter[p]]]
<1>1. /\ events' = <<>> /\ totals' = TotalsAfter
      /\ file' = [age |-> 0, rows |-> rows] \/ file' = file
      /\ UNCHANGED <<running, route, octets, moved, prevProc, prevNet, shown>>
  BY DEF CaptureRound, Cleared, workerSide
<1>2. RatesTypes
  BY DEF RatesInv
<1>3. /\ IsTable(TotalsAfter)
      /\ \A p \in Processes, w \in Way : Count(TotalsAfter, p)[w] = Live(p, w)
  <2>1. ASSUME NEW p
        PROVE  /\ Sum2(Count(totals, p), Count(events, p)) \in Bytes
               /\ \A w \in Way : Sum2(Count(totals, p), Count(events, p))[w] = Live(p, w)
    <3>1. Count(totals, p) \in Bytes /\ Count(events, p) \in Bytes
      BY <1>2, CountIsBytes DEF RatesTypes
    <3>2. QED
      BY <3>1, SumOfBytes DEF Live
  <2>2. IsTable(TotalsAfter)
    BY <1>2, <2>1 DEF IsTable, TotalsAfter, RatesTypes
  <2>3. ASSUME NEW p \in Processes, NEW w \in Way
        PROVE  Count(TotalsAfter, p)[w] = Live(p, w)
    <3>1. CASE p \in DOMAIN TotalsAfter
      <4>1. Count(TotalsAfter, p) = Sum2(Count(totals, p), Count(events, p))
        BY <3>1 DEF Count, TotalsAfter
      <4>2. QED
        BY <2>1, <4>1
    <3>2. CASE p \notin DOMAIN TotalsAfter
      BY <3>2, ZeroIsBytes DEF TotalsAfter, Count, Live
    <3>3. QED
      BY <3>1, <3>2
  <2>4. QED
    BY <2>2, <2>3
<1> HIDE DEF rows
<1>4. /\ DOMAIN rows = DOMAIN TotalsAfter
      /\ \A p \in DOMAIN rows : rows[p].bytes = TotalsAfter[p]
  BY DEF rows
<1>5. RatesTypes'
  <2>1. /\ file' = [age |-> file'.age, rows |-> file'.rows]
        /\ DOMAIN file'.rows \subseteq Processes
        /\ \A p \in DOMAIN file'.rows : file'.rows[p].bytes \in Bytes
    <3>1. CASE file' = file
      BY <1>2, <3>1 DEF RatesTypes
    <3>2. CASE file' = [age |-> 0, rows |-> rows]
      BY <1>3, <1>4, <3>2 DEF IsTable
    <3>3. QED
      BY <1>1, <3>1, <3>2
  <2>2. QED
    BY <1>1, <1>2, <1>3, <2>1, CountOfNothing DEF RatesTypes
<1>6. ASSUME NEW p \in Processes, NEW w \in Way PROVE ProcessCounted(p, w)'
  <2>1. /\ Live(p, w) \in Nat /\ Filed(p, w) \in Nat /\ From(p, w) \in Nat
        /\ From(p, w) <= Filed(p, w)
        /\ shown[p][w] \in Nat /\ moved[p][w] \in Nat
    BY <1>2, NumbersOfBytes
  <2>2. Live(p, w)' = Live(p, w)
    <3>1. Live(p, w)' = Count(TotalsAfter, p)[w] + Count(<<>>, p)[w]
      BY <1>1 DEF Live, Count
    <3>2. QED
      BY <1>3, <2>1, <3>1, CountOfNothing, ZeroIsBytes
  <2>3. ProcessCounted(p, w)
    BY DEF RatesInv
  <2>4. CASE file' = file
    <3>1. Filed(p, w)' = Filed(p, w) /\ From(p, w)' = From(p, w)
      BY <1>1, <2>4 DEF Filed, From
    <3>2. QED
      BY <1>1, <2>2, <2>3, <3>1 DEF ProcessCounted
  <2>5. CASE file' = [age |-> 0, rows |-> rows]
    <3>1. Filed(p, w)' = Live(p, w)
      <4>1. CASE p \in DOMAIN TotalsAfter
        BY <1>3, <1>4, <2>5, <4>1 DEF Filed, Count
      <4>2. CASE p \notin DOMAIN TotalsAfter
        BY <1>3, <1>4, <2>5, <4>2, ZeroIsBytes DEF Filed, Count
      <4>3. QED
        BY <4>1, <4>2
    <3>2. From(p, w)' = IF p \in DOMAIN prevProc /\ prevProc[p][w] <= Live(p, w)
                        THEN prevProc[p][w] ELSE Live(p, w)
      BY <1>1, <3>1 DEF From
    <3>3. p \in DOMAIN prevProc => prevProc[p][w] \in Nat
      BY <1>2 DEF RatesTypes, IsTable, Bytes
    <3>4. shown[p][w] + Live(p, w) <= moved[p][w] + From(p, w)'
      <4> DEFINE v == prevProc[p][w]
      <4> HIDE DEF v
      <4>1. From(p, w) = IF p \in DOMAIN prevProc /\ v <= Filed(p, w) THEN v ELSE Filed(p, w)
        BY DEF From, v
      <4>2. From(p, w)' = IF p \in DOMAIN prevProc /\ v <= Live(p, w) THEN v ELSE Live(p, w)
        BY <3>2 DEF v
      <4>3. p \in DOMAIN prevProc => v \in Nat
        BY <3>3 DEF v
      <4>4. QED
        BY <2>1, <2>3, <4>1, <4>2, <4>3 DEF ProcessCounted
    <3>5. QED
      BY <1>1, <2>1, <2>2, <3>1, <3>4 DEF ProcessCounted
  <2>6. QED
    BY <1>1, <2>4, <2>5
<1>7. QED
  BY <1>1, <1>5, <1>6, AdaptersKept DEF RatesInv

\* A rate stands for what a reading is ahead of the one before it, or for nothing.
LEMMA RateShown ==
    ASSUME RatesTypes, NEW p \in DOMAIN Payload, NEW later
    PROVE  /\ OrZero(ProcessRate(p, later)) \in Bytes
           /\ \A w \in Way :
                \/ OrZero(ProcessRate(p, later))[w] = 0
                \/ OrZero(ProcessRate(p, later))[w] = Filed(p, w) - From(p, w)
<1> DEFINE rate == OrZero(ProcessRate(p, later))
<1>1. p \in DOMAIN file.rows /\ Payload[p] = file.rows[p]
  <2>1. DOMAIN <<>> = {}
    OBVIOUS
  <2>2. QED
    BY <2>1 DEF Payload
<1>2. CASE /\ p \in DOMAIN prevProc
           /\ \A w \in Way : Payload[p].bytes[w] >= prevProc[p][w]
           /\ rate = Minus(Payload[p].bytes, prevProc[p])
  <2>1. file.rows[p].bytes \in Bytes /\ prevProc[p] \in Bytes
    BY <1>1, <1>2 DEF RatesTypes, IsTable
  <2>2. ASSUME NEW w \in Way
        PROVE  rate[w] \in Nat /\ rate[w] = Filed(p, w) - From(p, w)
    <3>1. rate[w] = file.rows[p].bytes[w] - prevProc[p][w]
      BY <1>1, <1>2 DEF Minus
    <3>2. Filed(p, w) = file.rows[p].bytes[w] /\ Filed(p, w) >= prevProc[p][w]
      BY <1>1, <1>2 DEF Filed
    <3>3. Filed(p, w) \in Nat /\ prevProc[p][w] \in Nat
      BY <2>1, <3>2 DEF Bytes
    <3>4. From(p, w) = prevProc[p][w]
      BY <1>2, <3>2, <3>3 DEF From
    <3>5. QED
      BY <3>1, <3>2, <3>3, <3>4
  <2>3. rate \in Bytes
    BY <1>2, <2>2 DEF Minus, Bytes
  <2>4. QED
    BY <2>2, <2>3
<1>3. CASE rate = Zero
  BY <1>3, ZeroIsBytes
<1>4. QED
  BY <1>2, <1>3 DEF ProcessRate, OrZero

\* The worker shows what was counted since the reading before, and reads anew.
LEMMA WorkerStep == RatesInv /\ WorkerTick => RatesInv'
<1> SUFFICES ASSUME RatesInv, WorkerTick PROVE RatesInv'
  OBVIOUS
<1>1. RatesTypes
  BY DEF RatesInv
<1> DEFINE Rate(x, later) == IF x \in DOMAIN Payload THEN OrZero(ProcessRate(x, later))
                             ELSE IF x = route THEN OrZero(AdapterRate(later)) ELSE Zero
<1>2. PICK later \in BOOLEAN :
        shown' = [x \in Processes \cup Adapters |-> Sum2(shown[x], Rate(x, later))]
  BY DEF WorkerTick
<1>3. /\ prevProc' = [p \in DOMAIN Payload |-> Payload[p].bytes]
      /\ prevNet' = IF route = None THEN None ELSE [adapter |-> route, octets |-> octets[route]]
      /\ file' = [file EXCEPT !.age = IF @ < StaleAfter THEN @ + 1 ELSE @]
      /\ UNCHANGED <<running, route, octets, boots, events, totals, names, moved>>
  BY DEF WorkerTick
<1>4. /\ DOMAIN Payload \subseteq DOMAIN file.rows /\ DOMAIN Payload \subseteq Processes
      /\ \A p \in DOMAIN Payload : Payload[p] = file.rows[p]
  <2>1. DOMAIN <<>> = {}
    OBVIOUS
  <2>2. QED
    BY <1>1, <2>1 DEF Payload, RatesTypes
<1>5. file' = [age |-> file'.age, rows |-> file'.rows] /\ file'.rows = file.rows
  <2> DEFINE age == IF file.age < StaleAfter THEN file.age + 1 ELSE file.age
  <2>1. file' = [file EXCEPT !.age = age]
    BY <1>3
  <2> HIDE DEF age
  <2>2. file = [age |-> file.age, rows |-> file.rows]
    BY <1>1 DEF RatesTypes
  <2>3. file \in [age : {file.age}, rows : {file.rows}]
    BY <2>2
  <2>4. file' = [age |-> age, rows |-> file.rows]
    BY <2>1, <2>3
  <2>5. QED
    BY <2>4
<1>6. ASSUME NEW p \in Processes
      PROVE  /\ Rate(p, later) \in Bytes
             /\ \A w \in Way : Rate(p, later)[w] \in {0, Filed(p, w) - From(p, w)}
  <2>1. CASE p \in DOMAIN Payload
    <3>1. Rate(p, later) = OrZero(ProcessRate(p, later))
      BY <2>1
    <3> HIDE DEF Rate
    <3>2. QED
      BY <1>1, <2>1, <3>1, RateShown
  <2>2. CASE p \notin DOMAIN Payload
    <3>1. p # route \/ route = None
      BY <1>1, RateConstants DEF RatesTypes
    <3>2. Rate(p, later) = Zero
      BY <2>2, <3>1 DEF AdapterRate, OrZero
    <3> HIDE DEF Rate
    <3>3. QED
      BY <3>2, ZeroIsBytes
  <2>3. QED
    BY <2>1, <2>2
<1>7. ASSUME NEW a \in Adapters
      PROVE  /\ Rate(a, later) \in Bytes /\ Rate(a, later)["out"] = 0
             /\ \/ Rate(a, later)["in"] = 0
                \/ /\ prevNet # None /\ prevNet.adapter = a /\ a = route
                   /\ octets[a] > prevNet.octets
                   /\ Rate(a, later)["in"] = octets[a] - prevNet.octets
  <2>1. a \notin DOMAIN Payload
    BY <1>4, RateConstants
  <2>2. CASE a # route \/ AdapterRate(later) = None
    <3>1. Rate(a, later) = Zero
      BY <2>1, <2>2 DEF OrZero
    <3> HIDE DEF Rate
    <3>2. QED
      BY <3>1, ZeroIsBytes DEF Way
  <2>3. CASE a = route /\ AdapterRate(later) # None
    <3> DEFINE ahead == IF octets[route] > prevNet.octets THEN octets[route] - prevNet.octets ELSE 0
    <3>1. Rate(a, later) = AdapterRate(later)
      BY <2>1, <2>3 DEF OrZero
    <3>2. /\ prevNet # None /\ prevNet.adapter = route
          /\ AdapterRate(later) = [Zero EXCEPT !["in"] = ahead]
      BY <2>3 DEF AdapterRate
    <3>3. octets[route] \in Nat /\ prevNet.octets \in Nat
      BY <1>1, <2>3, <3>2 DEF RatesTypes
    <3>4. ahead \in Nat
      BY <3>3
    <3> HIDE DEF ahead, Rate
    <3>5. /\ AdapterRate(later) \in Bytes
          /\ AdapterRate(later)["in"] = ahead /\ AdapterRate(later)["out"] = 0
      BY <3>2, <3>4 DEF Bytes, Zero, Way
    <3>6. ahead = 0 \/ (octets[a] > prevNet.octets /\ ahead = octets[a] - prevNet.octets)
      BY <2>3 DEF ahead
    <3>7. QED
      BY <2>3, <3>1, <3>2, <3>5, <3>6
  <2>4. QED
    BY <2>2, <2>3
<1> HIDE DEF Rate
<1>8. /\ shown' \in [Processes \cup Adapters -> Bytes]
      /\ \A x \in Processes \cup Adapters, w \in Way :
            shown'[x][w] = shown[x][w] + Rate(x, later)[w]
  <2>1. ASSUME NEW x \in Processes \cup Adapters
        PROVE  /\ Sum2(shown[x], Rate(x, later)) \in Bytes
               /\ \A w \in Way : Sum2(shown[x], Rate(x, later))[w] = shown[x][w] + Rate(x, later)[w]
    <3>1. shown[x] \in Bytes /\ Rate(x, later) \in Bytes
      BY <1>1, <1>6, <1>7 DEF RatesTypes
    <3>2. QED
      BY <3>1, SumOfBytes
  <2>2. QED
    BY <1>2, <2>1
<1>9. RatesTypes'
  <2>1. IsTable(prevProc')
    BY <1>1, <1>3, <1>4 DEF IsTable, RatesTypes
  <2>2. prevNet' \in {None} \cup [adapter : Adapters, octets : Nat]
    BY <1>1, <1>3 DEF RatesTypes
  <2>3. /\ DOMAIN file'.rows \subseteq Processes
        /\ \A p \in DOMAIN file'.rows : file'.rows[p].bytes \in Bytes
    BY <1>1, <1>5 DEF RatesTypes
  <2>4. QED
    BY <1>1, <1>3, <1>5, <1>8, <2>1, <2>2, <2>3 DEF RatesTypes
<1>10. ASSUME NEW p \in Processes, NEW w \in Way PROVE ProcessCounted(p, w)'
  <2>1. /\ Live(p, w) \in Nat /\ Filed(p, w) \in Nat /\ From(p, w) \in Nat
        /\ From(p, w) <= Filed(p, w)
        /\ shown[p][w] \in Nat /\ moved[p][w] \in Nat
    BY <1>1, NumbersOfBytes
  <2>2. Live(p, w)' = Live(p, w) /\ Filed(p, w)' = Filed(p, w)
    BY <1>3, <1>5 DEF Live, Filed
  <2>3. From(p, w)' = Filed(p, w)
    <3>1. p \in DOMAIN prevProc' => prevProc'[p][w] = Filed(p, w)
      BY <1>3, <1>4 DEF Filed
    <3>2. QED
      BY <2>1, <2>2, <3>1 DEF From
  <2>4. /\ shown'[p][w] = shown[p][w] \/ shown'[p][w] = shown[p][w] + (Filed(p, w) - From(p, w))
        /\ moved' = moved
    <3>1. Rate(p, later)[w] = 0 \/ Rate(p, later)[w] = Filed(p, w) - From(p, w)
      BY <1>6
    <3>2. shown'[p][w] = shown[p][w] + Rate(p, later)[w]
      BY <1>8
    <3>3. QED
      BY <1>3, <2>1, <3>1, <3>2
  <2>5. ProcessCounted(p, w)
    BY DEF RatesInv
  <2>6. \/ /\ Filed(p, w) <= Live(p, w)
           /\ shown'[p][w] + Live(p, w) <= moved[p][w] + Filed(p, w)
        \/ shown'[p][w] + Live(p, w) + Filed(p, w) <= moved[p][w] + Filed(p, w)
    BY <2>1, <2>4, <2>5 DEF ProcessCounted
  <2>7. QED
    BY <2>2, <2>3, <2>4, <2>6 DEF ProcessCounted
<1>11. ASSUME NEW a \in Adapters PROVE AdapterCounted(a)'
  <2>1. /\ shown[a]["in"] \in Nat /\ moved[a]["in"] \in Nat /\ octets[a] \in Nat
        /\ prevNet # None => prevNet.octets \in Nat
    BY <1>1 DEF RatesTypes, Bytes, Way
  <2>2. AdapterCounted(a)
    BY DEF RatesInv
  <2>3. /\ shown'[a]["in"] = shown[a]["in"] + Rate(a, later)["in"]
        /\ shown'[a]["out"] = shown[a]["out"] + Rate(a, later)["out"]
    BY <1>8 DEF Way
  <2>4. shown'[a]["out"] = 0 /\ shown'[a]["in"] <= moved[a]["in"] /\ shown'[a]["in"] \in Nat
    BY <1>7, <2>1, <2>2, <2>3 DEF AdapterCounted
  <2>5. prevNet' # None /\ prevNet'.adapter = a => prevNet'.octets = octets[a]
    BY <1>3
  <2>6. QED
    BY <1>3, <2>1, <2>4, <2>5 DEF AdapterCounted
<1>12. QED
  BY <1>9, <1>10, <1>11 DEF RatesInv

LEMMA RatesStep == RatesInv /\ [RatesNext]_ratesVars => RatesInv'
<1> SUFFICES ASSUME RatesInv, [RatesNext]_ratesVars PROVE RatesInv'
  OBVIOUS
<1>1. CASE RatesNext
  BY <1>1, SystemStep, TrafficStep, BridgeStartsStep, CaptureStep, WorkerStep DEF RatesNext
<1>2. CASE UNCHANGED ratesVars
  <2>1. RatesTypes'
    BY <1>2 DEF ratesVars, RatesInv, RatesTypes
  <2>2. QED
    BY <1>2, <2>1, ProcessesKept, AdaptersKept DEF ratesVars, RatesInv
<1>3. QED
  BY <1>1, <1>2

\* However the bridge is restarted, files are missed or grow stale, processes end and
\* adapters are reset or change: what the rates of a process or an adapter add up to, it
\* has really moved.
THEOREM NothingIsEverCountedTwice == UpkeepSpec => []NothingCountedTwice
<1>1. UpkeepInit => RatesInv
  BY RatesInitially DEF UpkeepInit
<1>2. RatesInv /\ [UpkeepNext]_upkeepVars => RatesInv'
  <2>1. [UpkeepNext]_upkeepVars => [RatesNext]_ratesVars
    BY DEF UpkeepNext, upkeepVars, Supervising, Network, Alerts, Reporting, Analysing, Asking
  <2>2. QED
    BY <2>1, RatesStep
<1>3. RatesInv => NothingCountedTwice
  <2> SUFFICES ASSUME RatesInv, NEW x \in Processes \cup Adapters, NEW w \in Way
               PROVE  shown[x][w] <= moved[x][w]
    BY DEF NothingCountedTwice
  <2>1. CASE x \in Processes
    BY <2>1, NumbersOfBytes DEF RatesInv, ProcessCounted
  <2>2. CASE x \in Adapters
    <3>1. moved[x][w] \in Nat
      BY DEF RatesInv, RatesTypes, Bytes
    <3>2. QED
      BY <2>2, <3>1 DEF RatesInv, AdapterCounted, Way
  <2>3. QED
    BY <2>1, <2>2
<1>4. QED
  BY <1>1, <1>2, <1>3, PTL DEF UpkeepSpec

-----------------------------------------------------------------------------
\* THE ALERTS OF A TICK

IsAge(age) == age = None \/ age \in 0 .. Sustained

\* Nox is heard of while it is not armed only, and its timer is how long the processor
\* has been hot; the fan's is how long it has been stalled.
AlertsInv ==
    /\ nox = [since |-> nox.since, armed |-> nox.armed] /\ nox.armed \in BOOLEAN
    /\ fan = [since |-> fan.since, confirmed |-> fan.confirmed] /\ fan.confirmed \in BOOLEAN
    /\ active = [fan |-> active.fan, memory |-> active.memory]
    /\ IsAge(hot) /\ IsAge(stalled) /\ IsAge(active.fan)
    /\ network \in {Unset, None} \cup [index : Cards, link : BOOLEAN]
    /\ heard \in 0 .. 1
    /\ nox.armed => heard = 0
    /\ nox.since = hot
    /\ fan.since = stalled
    /\ fan.confirmed <=> (stalled # None /\ stalled >= Debounce)
    /\ fan.confirmed <=> active.fan # None
    /\ AlertsAreTrue

LEMMA AgeType ==
    ASSUME NEW age, IsAge(age), NEW step \in Steps
    PROVE  /\ IsAge(Aged(age, step))
           /\ Since(age, step) \in 0 .. Sustained /\ Since(age, step) # None
           /\ age # None => Aged(age, step) # None /\ Aged(age, step) >= age
           /\ age = None => Aged(age, step) = None
BY AlertConstants DEF IsAge, Aged, Since

LEMMA AlertsInitially == TickInit => AlertsInv
BY AlertConstants DEF TickInit, AlertsInv, AlertsAreTrue, NoAlert, IsAge

LEMMA OneOrNone == \A n \in 0 .. 1 : n <= 1
OBVIOUS

\* _maybe_alert_nox: the message goes out with the timer at its end, and arms anew when
\* the processor is cool.
LEMMA NoxStep ==
    ASSUME AlertsInv, NEW level \in {None, "cool", "warm", "hot"}, NEW step \in Steps,
           NEW sends \in BOOLEAN, sends <=> (nox.armed /\ ~NoxAfter(level, step).armed),
           nox' = NoxAfter(level, step),
           hot' = IF level = None THEN Aged(hot, step)
                  ELSE IF level = "hot" THEN Since(hot, step) ELSE None,
           heard' = IF level = "cool" THEN 0 ELSE IF sends THEN heard + 1 ELSE heard
    PROVE  /\ nox' = [since |-> nox'.since, armed |-> nox'.armed] /\ nox'.armed \in BOOLEAN
           /\ IsAge(hot') /\ heard' \in 0 .. 1
           /\ nox'.armed => heard' = 0
           /\ nox'.since = hot'
           /\ sends => hot' # None /\ hot' >= Sustained
<1>1. /\ nox.armed \in BOOLEAN /\ IsAge(hot) /\ heard \in 0 .. 1 /\ nox.since = hot
      /\ nox.armed => heard = 0
      /\ nox = [since |-> nox.since, armed |-> nox.armed]
  BY DEF AlertsInv
<1>2. IsAge(hot')
  BY <1>1, AgeType DEF IsAge
<1>3. CASE level = None
  <2>1. nox' = [nox EXCEPT !.since = Aged(@, step)]
    BY <1>3 DEF NoxAfter
  <2>2. nox \in [since : {nox.since}, armed : {nox.armed}]
    BY <1>1
  <2>3. nox' = [since |-> Aged(nox.since, step), armed |-> nox.armed]
    BY <2>1, <2>2
  <2>4. ~sends
    BY <2>3
  <2>5. heard' = heard \/ heard' = 0
    BY <2>4
  <2>6. QED
    BY <1>1, <1>2, <1>3, <2>3, <2>4, <2>5
<1>4. CASE level # None /\ level # "hot"
  <2>1. nox' = [since |-> None, armed |-> nox.armed \/ level = "cool"]
    BY <1>4 DEF NoxAfter
  <2>2. ~sends
    BY <2>1
  <2>3. QED
    BY <1>1, <1>2, <1>4, <2>1, <2>2
<1>5. CASE level # None /\ level = "hot"
  <2> DEFINE late == nox.since # None /\ ~(Aged(nox.since, step) < Sustained)
  <2>1. nox' = [since |-> Since(nox.since, step), armed |-> nox.armed /\ ~late]
    <3>1. nox' = [since |-> Since(nox.since, step),
                  armed |-> nox.armed /\ (nox.since = None \/ Aged(nox.since, step) < Sustained)]
      BY <1>5 DEF NoxAfter
    <3>2. (nox.since = None \/ Aged(nox.since, step) < Sustained) = ~late
      OBVIOUS
    <3>3. QED
      BY <3>1, <3>2
  <2>2. hot' = Since(hot, step) /\ heard' = IF sends THEN heard + 1 ELSE heard
    BY <1>5
  <2>3. late => hot' # None /\ hot' >= Sustained
    <3>1. late => Since(hot, step) = Aged(hot, step) /\ Aged(hot, step) \in 0 .. Sustained
      BY <1>1, AgeType DEF Since, IsAge
    <3>2. QED
      BY <1>1, <2>2, <3>1, AlertConstants
  <2> HIDE DEF late
  <2>4. nox'.armed = (nox.armed /\ ~late) /\ nox'.since = hot'
    BY <1>1, <2>1, <2>2
  <2>5. (sends <=> (nox.armed /\ late)) /\ nox'.armed \in BOOLEAN
    BY <2>1, <2>4
  <2>6. heard' \in 0 .. 1 /\ (nox'.armed => heard' = 0)
    BY <1>1, <2>2, <2>4, <2>5
  <2>7. QED
    BY <1>2, <2>1, <2>3, <2>4, <2>5, <2>6
<1>6. QED
  BY <1>3, <1>4, <1>5

\* _update_cpu_fan_alert: the alert is up once the fan has been stalled for long enough.
LEMMA FanStep ==
    ASSUME AlertsInv, NEW stall \in BOOLEAN, NEW step \in Steps,
           fan' = FanAfter(stall, step),
           stalled' = IF stall THEN Since(stalled, step) ELSE None
    PROVE  /\ fan' = [since |-> fan'.since, confirmed |-> fan'.confirmed]
           /\ fan'.confirmed \in BOOLEAN /\ IsAge(stalled')
           /\ fan'.since = stalled'
           /\ fan'.confirmed <=> (stalled' # None /\ stalled' >= Debounce)
<1>1. /\ fan.confirmed \in BOOLEAN /\ IsAge(stalled) /\ fan.since = stalled
      /\ fan.confirmed <=> (stalled # None /\ stalled >= Debounce)
  BY DEF AlertsInv
<1>2. CASE stall
  <2>1. /\ Since(stalled, step) \in 0 .. Sustained /\ Since(stalled, step) # None
        /\ stalled # None => Since(stalled, step) >= stalled /\ stalled \in Nat
    BY <1>1, AgeType, AlertConstants DEF Since, IsAge
  <2> DEFINE now == Since(stalled, step)
  <2>2. stalled' = now
    BY <1>2
  <2>3. fan' = [since |-> now, confirmed |-> fan.confirmed \/ now >= Debounce]
    BY <1>1, <1>2 DEF FanAfter
  <2>4. now \in Nat /\ now # None /\ (stalled # None => now >= stalled /\ stalled \in Nat)
    BY <2>1, AlertConstants
  <2> HIDE DEF now
  <2>5. fan.confirmed => now >= Debounce
    BY <1>1, <2>4, AlertConstants
  <2>6. fan'.since = now /\ (fan'.confirmed <=> now >= Debounce) /\ fan'.confirmed \in BOOLEAN
    <3> DEFINE long == now >= Debounce
    <3>1. fan' = [since |-> now, confirmed |-> fan.confirmed \/ long] /\ (fan.confirmed => long)
      BY <2>3, <2>5
    <3>2. long \in BOOLEAN
      OBVIOUS
    <3> HIDE DEF long
    <3>3. fan'.since = now /\ (fan'.confirmed <=> long) /\ fan'.confirmed \in BOOLEAN
      BY <1>1, <3>1, <3>2
    <3>4. QED
      BY <3>3 DEF long
  <2>7. IsAge(now)
    BY <2>1 DEF now, IsAge
  <2>8. QED
    BY <2>2, <2>3, <2>4, <2>6, <2>7
<1>3. CASE ~stall
  <2>1. fan' = [since |-> None, confirmed |-> FALSE] /\ stalled' = None
    BY <1>3 DEF FanAfter
  <2>2. QED
    BY <2>1 DEF IsAge
<1>4. QED
  BY <1>2, <1>3

\* One who reads the events of the flight recorder knows the adapter.
LEMMA NetworkStep ==
    ASSUME AlertsInv, NEW now \in {None} \cup [index : Cards, link : BOOLEAN]
    PROVE  Heard(NetworkEvent(now), now) = IF now = None THEN None ELSE now.index
<1>1. /\ network \in {Unset, None} \cup [index : Cards, link : BOOLEAN]
      /\ network # Unset => followed = (IF network = None THEN None ELSE network.index)
  BY DEF AlertsInv, AlertsAreTrue
<1>2. CASE network = Unset
  BY <1>2 DEF Heard
<1>3. CASE network # Unset /\ now = network
  BY <1>1, <1>3 DEF Heard, NetworkEvent
<1>4. CASE network # Unset /\ now # network /\ network = None
  <2>1. now.index \in Cards
    BY <1>4
  <2>2. NetworkEvent(now) = [is |-> "connected", adapter |-> now.index]
    BY <1>4 DEF NetworkEvent
  <2>3. NetworkEvent(now) # None
    BY <2>1, <2>2, AlertConstants
  <2>4. QED
    BY <1>4, <2>2, <2>3 DEF Heard
<1>5. CASE network # Unset /\ network # None /\ now = None
  <2>1. NetworkEvent(now) = [is |-> "lost"]
    BY <1>5 DEF NetworkEvent
  <2>2. NetworkEvent(now) # None
    BY <2>1, AlertConstants
  <2>3. QED
    BY <1>5, <2>1, <2>2 DEF Heard
<1>6. CASE network # Unset /\ network # None /\ now # None /\ network.index # now.index
  <2>1. now.index \in Cards
    BY <1>6
  <2>2. NetworkEvent(now) = [is |-> "switched", adapter |-> now.index]
    BY <1>6 DEF NetworkEvent
  <2>3. NetworkEvent(now) # None
    BY <2>1, <2>2, AlertConstants
  <2>4. QED
    BY <1>6, <2>2, <2>3 DEF Heard
<1>7. CASE /\ network # Unset /\ network # None /\ now # None /\ now # network
           /\ network.index = now.index
  <2>1. NetworkEvent(now) = [is |-> IF now.link THEN "restored" ELSE "down"]
    BY <1>7 DEF NetworkEvent
  <2>2. NetworkEvent(now) # None
    BY <2>1, AlertConstants
  <2>3. NetworkEvent(now).is \notin {"lost", "connected", "switched"}
    BY <2>1
  <2>4. QED
    BY <1>1, <1>7, <2>2, <2>3 DEF Heard
<1>8. QED
  BY <1>2, <1>3, <1>4, <1>5, <1>6, <1>7

LEMMA AlertsStep == AlertsInv /\ [TickNext]_tickVars => AlertsInv'
<1> SUFFICES ASSUME AlertsInv, [TickNext]_tickVars PROVE AlertsInv'
  OBVIOUS
<1>1. CASE UNCHANGED tickVars
  BY <1>1 DEF tickVars, AlertsInv, AlertsAreTrue
<1>2. ASSUME NEW cpu \in {None, "cool", "cool but yellow", "warm", "hot"}, NEW rpm \in {None, 0, 1},
             NEW memory \in BOOLEAN, NEW step \in Steps,
             NEW now \in {None} \cup [index : Cards, link : BOOLEAN],
             Tick(cpu, rpm, memory, now, step)
      PROVE  AlertsInv'
  <2> DEFINE stall == rpm = 0 /\ cpu \in {"warm", "hot", "cool but yellow"}
             level == IF cpu = "cool but yellow" THEN "cool" ELSE cpu
             sends == nox.armed /\ ~NoxAfter(level, step).armed
             confirmed == FanAfter(stall, step).confirmed
  <2>1. /\ nox' = NoxAfter(level, step)
        /\ hot' = IF level = None THEN Aged(hot, step)
                  ELSE IF level = "hot" THEN Since(hot, step) ELSE None
        /\ heard' = IF level = "cool" THEN 0 ELSE IF sends THEN heard + 1 ELSE heard
        /\ fan' = FanAfter(stall, step)
        /\ stalled' = IF stall THEN Since(stalled, step) ELSE None
        /\ active' = [fan    |-> AlertAge(active.fan, step, confirmed),
                      memory |-> AlertAge(active.memory, step, memory)]
        /\ curve' = CurveAfter(confirmed)
        /\ network' = now
        /\ told' = (IF sends THEN {"nox"} ELSE {}) \cup (IF curve' # curve THEN {"curve"} ELSE {})
        /\ followed' = Heard(NetworkEvent(now), now)
    BY <1>2 DEF Tick
  <2>2. level \in {None, "cool", "warm", "hot"} /\ stall \in BOOLEAN /\ sends \in BOOLEAN
    OBVIOUS
  <2>3. /\ nox' = [since |-> nox'.since, armed |-> nox'.armed] /\ nox'.armed \in BOOLEAN
        /\ IsAge(hot') /\ heard' \in 0 .. 1
        /\ nox'.armed => heard' = 0
        /\ nox'.since = hot'
        /\ sends => hot' # None /\ hot' >= Sustained
    <3>1. sends <=> (nox.armed /\ ~NoxAfter(level, step).armed)
      OBVIOUS
    <3> HIDE DEF level, sends
    <3>2. QED
      BY <2>1, <2>2, <3>1, NoxStep
  <2>4. /\ fan' = [since |-> fan'.since, confirmed |-> fan'.confirmed]
        /\ fan'.confirmed \in BOOLEAN /\ IsAge(stalled')
        /\ fan'.since = stalled'
        /\ fan'.confirmed <=> (stalled' # None /\ stalled' >= Debounce)
    <3> HIDE DEF stall
    <3>1. QED
      BY <2>1, <2>2, FanStep
  <2>5. confirmed = fan'.confirmed
    BY <2>1
  <2> HIDE DEF stall, level, sends, confirmed
  <2>6. /\ active' = [fan |-> active'.fan, memory |-> active'.memory]
        /\ IsAge(active'.fan)
        /\ confirmed <=> active'.fan # None
    <3>1. active'.fan = IF confirmed THEN Since(active.fan, step) ELSE None
      BY <2>1 DEF AlertAge
    <3>2. /\ Since(active.fan, step) \in 0 .. Sustained /\ Since(active.fan, step) # None
      BY AgeType DEF AlertsInv
    <3>3. IsAge(active'.fan)
      BY <3>1, <3>2 DEF IsAge
    <3>4. QED
      BY <2>1, <3>1, <3>2, <3>3
  <2>7. active'.fan # None => curve'
    BY <2>1, <2>6 DEF CurveAfter
  <2>8. "nox" \in told' => hot' # None /\ hot' >= Sustained
    BY <2>1, <2>3
  <2>9. followed' = IF network' = None THEN None ELSE network'.index
    BY <2>1, NetworkStep
  <2>10. AlertsAreTrue'
    <3>1. heard' <= 1
      BY OneOrNone, <2>3
    <3>2. active'.fan # None <=> (stalled' # None /\ stalled' >= Debounce)
      <4> DEFINE long == stalled' # None /\ stalled' >= Debounce
      <4>1. fan'.confirmed <=> long
        BY <2>4
      <4> HIDE DEF long
      <4>2. active'.fan # None <=> long
        BY <2>5, <2>6, <4>1
      <4>3. QED
        BY <4>2 DEF long
    <3>3. QED
      BY <2>7, <2>8, <2>9, <3>1, <3>2 DEF AlertsAreTrue
  <2>11. network' \in {Unset, None} \cup [index : Cards, link : BOOLEAN]
    BY <2>1
  <2>12. QED
    BY <2>3, <2>4, <2>5, <2>6, <2>10, <2>11 DEF AlertsInv
<1>3. QED
  BY <1>1, <1>2 DEF TickNext

\* Nox hears of an excursion once and when it has lasted, the fan's alert is up exactly
\* while the fan has been stalled for the debounce time, and the events tell the adapter.
THEOREM AlertsAreAlwaysTrue == UpkeepSpec => []AlertsAreTrue
<1>1. UpkeepInit => AlertsInv
  BY AlertsInitially DEF UpkeepInit
<1>2. AlertsInv /\ [UpkeepNext]_upkeepVars => AlertsInv'
  <2>1. [UpkeepNext]_upkeepVars => [TickNext]_tickVars
    BY DEF UpkeepNext, upkeepVars, Supervising, Network, Alerts, Reporting, Analysing, Asking
  <2>2. QED
    BY <2>1, AlertsStep
<1>3. AlertsInv => AlertsAreTrue
  BY DEF AlertsInv
<1>4. QED
  BY <1>1, <1>2, <1>3, PTL DEF UpkeepSpec

-----------------------------------------------------------------------------
\* THE CALENDAR

\* A number and the multiple of the divisor at or below it.
LEMMA DivisionIs ==
    ASSUME NEW d \in Nat \ {0}, NEW x \in Int
    PROVE  /\ x \div d \in Int /\ x % d \in 0 .. d - 1
           /\ x = d * (x \div d) + (x % d)
OBVIOUS

\* What is left over is determined by that.
LEMMA DivisionIsUnique ==
    ASSUME NEW d \in Nat \ {0}, NEW k \in Int, NEW l \in Int, NEW r \in 0 .. d - 1, NEW s \in 0 .. d - 1,
           d * k + r = d * l + s
    PROVE  k = l /\ r = s
<1>1. ASSUME NEW a \in Int, NEW b \in Int, a >= b + 1 PROVE d * a >= d * b + d
  <2>1. PICK c \in Nat : a = b + 1 + c
    <3>1. a - b - 1 \in Nat /\ a = b + 1 + (a - b - 1)
      BY <1>1
    <3> QED
      BY <3>1
  <2>2. d * (b + 1 + c) = d * b + d + d * c
    OBVIOUS
  <2>3. d * c \in Nat /\ d * b \in Int
    OBVIOUS
  <2> QED
    BY <2>1, <2>2, <2>3
<1>2. d * k \in Int /\ d * l \in Int
  OBVIOUS
<1>3. ~(k >= l + 1)
  BY <1>1, <1>2
<1>4. ~(l >= k + 1)
  BY <1>1, <1>2
<1>5. k = l
  BY <1>3, <1>4
<1> QED
  BY <1>2, <1>5

\* The week before the one of a day ends where that begins.
LEMMA WeekBefore ==
    ASSUME NEW day \in Int
    PROVE  LET start == day - (day % WeekDays)
               before == (start - 1) - ((start - 1) % WeekDays)
           IN  /\ start \in Int /\ start <= day
               /\ before \in Int /\ before + WeekDays = start
<1> DEFINE start == day - (day % WeekDays)
           k == day \div WeekDays
           x == start - 1
<1>1. WeekDays \in Nat \ {0}
  BY WeekAssumption
<1>2. k \in Int /\ day % WeekDays \in 0 .. WeekDays - 1 /\ day = WeekDays * k + (day % WeekDays)
  BY <1>1, DivisionIs
<1>3. start \in Int /\ start <= day /\ start = WeekDays * k /\ WeekDays * k \in Int
  BY <1>1, <1>2
<1>4. x \in Int /\ x = WeekDays * k - 1
  BY <1>3
<1>5. x \div WeekDays \in Int /\ x % WeekDays \in 0 .. WeekDays - 1
      /\ x = WeekDays * (x \div WeekDays) + (x % WeekDays)
  BY <1>1, <1>4, DivisionIs
<1>6. WeekDays * (k - 1) = WeekDays * k - WeekDays
  BY <1>1, <1>2
<1>7. WeekDays * (k - 1) + (WeekDays - 1) = WeekDays * (x \div WeekDays) + (x % WeekDays)
  BY <1>1, <1>3, <1>4, <1>5, <1>6
<1>8. k - 1 \in Int /\ WeekDays - 1 \in 0 .. WeekDays - 1
  BY <1>1, <1>2
<1>9. x % WeekDays = WeekDays - 1
  <2> DEFINE q == x \div WeekDays
             r == x % WeekDays
             j == k - 1
             last == WeekDays - 1
  <2>1. /\ q \in Int /\ r \in 0 .. WeekDays - 1 /\ j \in Int /\ last \in 0 .. WeekDays - 1
        /\ WeekDays * j + last = WeekDays * q + r
    BY <1>5, <1>7, <1>8
  <2> HIDE DEF q, r, j, last
  <2>2. last = r
    BY <1>1, <2>1, DivisionIsUnique
  <2> QED
    BY <2>2 DEF r, last
<1> QED
  BY <1>1, <1>3, <1>4, <1>9

\* Two months began by a day.
TwoMonthsBy(day) == \E m, n \in MonthStarts : m < n /\ n <= day

LEMMA MoreThanOne ==
    ASSUME NEW S, Cardinality(S) > 1
    PROVE  \E x, y \in S : x # y
<1> SUFFICES ASSUME \A x, y \in S : x = y PROVE FALSE
  OBVIOUS
<1>1. CASE S = {}
  BY <1>1, FS_EmptySet
<1>2. CASE S # {}
  <2>1. PICK x \in S : S = {x}
    BY <1>2
  <2>2. Cardinality(S) = 1
    BY <2>1, FS_Singleton
  <2> QED
    BY <2>2
<1> QED
  BY <1>1, <1>2

\* The least of some naturals, and the greatest of those up to a number.
LEMMA FirstOfMonths ==
    ASSUME NEW S \in SUBSET Nat, S # {}
    PROVE  Min(S) \in S /\ \A m \in S : Min(S) <= m
BY LeastNatural DEF Min

LEMMA LastOfMonths ==
    ASSUME NEW S, NEW n \in Nat, S \subseteq 0 .. n, S # {}
    PROVE  Max(S) \in S /\ \A m \in S : m <= Max(S)
<1>1. PICK x \in S : \A y \in S : x >= y
  BY GreatestNatural
<1>2. \A y \in S : Max(S) >= y
  BY <1>1 DEF Max
<1> QED
  BY <1>2, MaxIsIn

\* The month before the one of a day ends where that begins.
LEMMA MonthBefore ==
    ASSUME NEW day \in Nat, TwoMonthsBy(day)
    PROVE  LET start  == Max({m \in MonthStarts : m <= day})
               before == Max({m \in MonthStarts : m <= start - 1})
           IN  /\ start \in Nat /\ start <= day
               /\ before \in Nat /\ before < start
               /\ Min({m \in MonthStarts : m > before}) = start
<1> DEFINE S == {m \in MonthStarts : m <= day}
           start == Max(S)
           T == {m \in MonthStarts : m <= start - 1}
           before == Max(T)
           U == {m \in MonthStarts : m > before}
<1>1. PICK a, b \in MonthStarts : a < b /\ b <= day
  BY DEF TwoMonthsBy
<1>2. MonthStarts \subseteq Nat
  BY WeekAssumption
<1>3. S \subseteq 0 .. day /\ b \in S
  <2>1. ASSUME NEW m \in MonthStarts, m <= day PROVE m \in 0 .. day
    BY <1>2, <2>1
  <2>2. b \in MonthStarts /\ b <= day
    BY <1>1, <1>2
  <2> QED
    BY <2>1, <2>2
<1>4. start \in S /\ \A m \in S : m <= start
  BY <1>3, LastOfMonths
<1>5. start \in Nat /\ start <= day /\ start \in MonthStarts /\ b <= start
  BY <1>2, <1>3, <1>4
<1> HIDE DEF start
<1>6. start - 1 \in Nat /\ T \subseteq 0 .. start - 1 /\ a \in T
  <2>1. a \in Nat /\ b \in Nat /\ a <= start - 1 /\ start - 1 \in Nat
    BY <1>1, <1>2, <1>5
  <2>2. ASSUME NEW m \in MonthStarts, m <= start - 1 PROVE m \in 0 .. start - 1
    BY <1>2, <2>1, <2>2
  <2> QED
    BY <2>1, <2>2
<1>7. before \in T /\ \A m \in T : m <= before
  BY <1>6, LastOfMonths
<1> HIDE DEF before
<1>8. before \in Nat /\ before < start
  <2>1. before \in MonthStarts /\ before <= start - 1
    BY <1>7
  <2> QED
    BY <1>2, <1>5, <2>1
<1>9. U \in SUBSET Nat /\ start \in U
  BY <1>2, <1>5, <1>8
<1>10. Min(U) \in U /\ Min(U) <= start
  BY <1>9, FirstOfMonths
<1>11. Min(U) \in MonthStarts /\ Min(U) > before /\ Min(U) \in Nat
  BY <1>9, <1>10
<1>12. ~(Min(U) <= start - 1)
  BY <1>7, <1>8, <1>11
<1>13. Min(U) = start
  BY <1>5, <1>10, <1>11, <1>12
<1> QED
  BY <1>5, <1>8, <1>13 DEF start, before

\* The period before the one of a day ends where that begins.
LEMMA PeriodBefore ==
    ASSUME NEW t \in Types, NEW day \in Nat, TwoMonthsBy(day)
    PROVE  LET p == PreviousCompletedPeriod(t, day) IN
           /\ p = PeriodBounds(t, p.from)
           /\ p.from = PeriodStart(t, PeriodStart(t, day) - 1)
           /\ p.to = PeriodStart(t, day)
           /\ p.from \in Int /\ p.to \in Int
           /\ p.from < p.to /\ p.to <= day
<1> DEFINE start == PeriodStart(t, day)
           before == PeriodStart(t, start - 1)
           next == CASE t = "DAILY"   -> before + 1
                     [] t = "WEEKLY"  -> before + WeekDays
                     [] t = "MONTHLY" -> Min({m \in MonthStarts : m > before})
<1>1. /\ before \in Int /\ start \in Int /\ before < start /\ start <= day
      /\ next = start
  <2>1. CASE t = "DAILY"
    BY <2>1 DEF PeriodStart
  <2>2. CASE t = "WEEKLY"
    <3>1. start = day - (day % WeekDays) /\ before = (start - 1) - ((start - 1) % WeekDays)
          /\ next = before + WeekDays
      BY <2>2 DEF PeriodStart
    <3>2. start \in Int /\ start <= day /\ before \in Int /\ before + WeekDays = start
      BY <3>1, WeekBefore
    <3> HIDE DEF start, before, next
    <3> QED
      BY <3>1, <3>2, WeekAssumption
  <2>3. CASE t = "MONTHLY"
    <3>1. start = Max({m \in MonthStarts : m <= day})
          /\ before = Max({m \in MonthStarts : m <= start - 1})
          /\ next = Min({m \in MonthStarts : m > before})
      BY <2>3 DEF PeriodStart
    <3>2. /\ Max({m \in MonthStarts : m <= day}) \in Nat /\ Max({m \in MonthStarts : m <= day}) <= day
          /\ before \in Nat /\ before < start /\ next = start
      BY <3>1, MonthBefore
    <3> HIDE DEF start, before, next
    <3> QED
      BY <3>1, <3>2
  <2> QED
    BY <2>1, <2>2, <2>3 DEF Types
<1>2. PreviousCompletedPeriod(t, day) = [type |-> t, from |-> before, to |-> next]
  BY DEF PreviousCompletedPeriod, PeriodBounds
<1>3. PeriodBounds(t, before) = [type |-> t, from |-> before, to |-> next]
  BY DEF PeriodBounds
<1> HIDE DEF start, before, next
<1> QED
  BY <1>1, <1>2, <1>3 DEF start, before

-----------------------------------------------------------------------------
\* THE REPORTS

\* Of what was stored and not lost, the stores lack what is older than they keep anything.
Forgotten ==
    /\ held = [s \in Stores |-> held[s]]
    /\ happened = [s \in Stores |-> happened[s]]
    /\ \A s \in Stores : held[s] \subseteq happened[s]
    /\ \A e \in Episodes : \A r \in happened[e] : r.to \in Nat /\ (r \in held[e] \/ r.to < Cutoff)
    /\ \A t \in happened["telemetry"] : t \in Nat /\ (t \in held["telemetry"] \/ t + 1 < Cutoff)

ReportsInv ==
    /\ clock \in Nat /\ FirstInstant <= clock
    /\ Forgotten
    /\ reports = [p \in DOMAIN reports |-> reports[p]]
    /\ \A p \in DOMAIN reports : p.from \in Int /\ p.to \in Int /\ 2 * p.to <= clock

LEMMA ReportsInitially == ReportsInit => ReportsInv
<1> SUFFICES ASSUME ReportsInit PROVE ReportsInv
  OBVIOUS
<1>1. clock \in Nat /\ FirstInstant <= clock
  BY CalendarConstants DEF ReportsInit
<1>2. /\ held \in Pasts /\ happened = held
      /\ DOMAIN reports = {} /\ reports = [p \in DOMAIN reports |-> reports[p]]
  BY DEF ReportsInit
<1>3. /\ held = [s \in Stores |-> held[s]]
      /\ \A e \in Episodes : \A r \in held[e] : r.to \in Nat
      /\ held["telemetry"] \subseteq Nat
  BY <1>2, PastsAssumption
<1>4. Forgotten
  BY <1>2, <1>3 DEF Forgotten
<1> QED
  BY <1>1, <1>2, <1>4 DEF ReportsInv

\* The days of months that began suffice for the period before the present one.
LEMMA MonthsBegan == ASSUME ReportsInv PROVE Today \in Nat /\ 2 * Today <= clock /\ TwoMonthsBy(Today)
<1> DEFINE S == {m \in MonthStarts : 2 * m <= FirstInstant}
<1>1. \E x, y \in S : x # y
  BY CalendarConstants, MoreThanOne
<1>2. PICK x, y \in S : x # y
  BY <1>1
<1>3. clock \in Nat /\ FirstInstant <= clock /\ FirstInstant \in Nat
  BY CalendarConstants DEF ReportsInv
<1>4. Today \in Nat /\ 2 * Today <= clock /\ clock <= 2 * Today + 1
  BY <1>3 DEF Today
<1>5. /\ x \in MonthStarts /\ y \in MonthStarts /\ x \in Nat /\ y \in Nat
      /\ 2 * x <= FirstInstant /\ 2 * y <= FirstInstant
  BY <1>2, WeekAssumption
<1>6. x <= Today /\ y <= Today
  BY <1>3, <1>4, <1>5
<1>7. x < y \/ y < x
  BY <1>2, <1>5
<1> QED
  BY <1>4, <1>5, <1>6, <1>7 DEF TwoMonthsBy

\* The bound of what is kept moves on with time.
LEMMA CutoffMovesOn ==
    ASSUME clock \in Nat, clock' \in {clock, clock + 1}
    PROVE  Cutoff \in Int /\ Cutoff' \in Int /\ Cutoff <= Cutoff'
<1>1. KeptDays \in Nat /\ clock' \in Nat /\ clock <= clock'
  BY CalendarConstants
<1>2. \A a, b, c \in Nat : a <= b => a - 2 * c \in Int /\ b - 2 * c \in Int /\ a - 2 * c <= b - 2 * c
  OBVIOUS
<1>3. clock - 2 * KeptDays <= clock' - 2 * KeptDays
      /\ clock - 2 * KeptDays \in Int /\ clock' - 2 * KeptDays \in Int
  BY <1>1, <1>2
<1> QED
  BY <1>3 DEF Cutoff

\* Forgetting stays within the bounds as time passes.
LEMMA StillForgotten ==
    ASSUME Forgotten, clock \in Nat, UNCHANGED <<held, happened>>, clock' \in {clock, clock + 1}
    PROVE  Forgotten'
<1>1. Cutoff \in Int /\ Cutoff' \in Int /\ Cutoff <= Cutoff'
  BY CutoffMovesOn
<1>2. \A e \in Episodes : \A r \in happened[e] : r.to \in Nat /\ (r \in held[e] \/ r.to < Cutoff')
  BY <1>1 DEF Forgotten
<1>3. \A t \in happened["telemetry"] : t \in Nat /\ (t \in held["telemetry"] \/ t + 1 < Cutoff')
  BY <1>1 DEF Forgotten
<1> QED
  BY <1>2, <1>3 DEF Forgotten

\* And as entries are recorded.
LEMMA RecordingForgetsNothing ==
    ASSUME Forgotten, clock \in Nat, clock' \in {clock, clock + 1},
           NEW store \in Stores, NEW entries, Recorded(store, entries),
           store \in Episodes => \A r \in entries : r.to \in Nat,
           store = "telemetry" => entries \subseteq Nat
    PROVE  Forgotten'
<1>1. Cutoff \in Int /\ Cutoff' \in Int /\ Cutoff <= Cutoff'
  BY CutoffMovesOn
<1>2. /\ held' = [s \in Stores |-> held'[s]] /\ happened' = [s \in Stores |-> happened'[s]]
      /\ \A s \in Stores : /\ held'[s] = held[s] \cup (IF s = store THEN entries ELSE {})
                           /\ happened'[s] = happened[s] \cup (IF s = store THEN entries ELSE {})
  BY DEF Forgotten, Recorded
<1>3. \A s \in Stores : held'[s] \subseteq happened'[s]
  BY <1>2 DEF Forgotten
<1>4. ASSUME NEW e \in Episodes, NEW r \in happened'[e]
      PROVE  r.to \in Nat /\ (r \in held'[e] \/ r.to < Cutoff')
  <2>1. e \in Stores
    BY DEF Stores
  <2>2. CASE r \in happened[e]
    BY <1>1, <1>2, <2>1, <2>2 DEF Forgotten
  <2>3. CASE r \notin happened[e]
    BY <1>2, <2>1, <2>3
  <2> QED
    BY <2>2, <2>3
<1>5. ASSUME NEW t \in happened'["telemetry"]
      PROVE  t \in Nat /\ (t \in held'["telemetry"] \/ t + 1 < Cutoff')
  <2>1. "telemetry" \in Stores
    BY DEF Stores
  <2>2. CASE t \in happened["telemetry"]
    BY <1>1, <1>2, <2>1, <2>2 DEF Forgotten
  <2>3. CASE t \notin happened["telemetry"]
    BY <1>2, <2>1, <2>3
  <2> QED
    BY <2>2, <2>3
<1> QED
  BY <1>2, <1>3, <1>4, <1>5 DEF Forgotten

\* The periods of which reports are due are over.
LEMMA DueAreOver ==
    ASSUME ReportsInv, NEW p \in {PreviousCompletedPeriod(t, Today) : t \in Types}
    PROVE  p.from \in Int /\ p.to \in Int /\ 2 * p.to <= clock
<1>1. PICK t \in Types : p = PreviousCompletedPeriod(t, Today)
  OBVIOUS
<1>2. Today \in Nat /\ 2 * Today <= clock /\ TwoMonthsBy(Today)
  BY MonthsBegan
<1>3. p.from \in Int /\ p.to \in Int /\ p.to <= Today
  BY <1>1, <1>2, PeriodBefore
<1> QED
  BY <1>2, <1>3 DEF ReportsInv

\* Of a store that has all that reaches into a period, the same is seen.
LEMMA EpisodesAreSeen ==
    ASSUME ReportsInv, NEW e \in Episodes, NEW from \in Int, NEW to, NEW unread, ~(from < Cutoff)
    PROVE  Overlapping(Seen(held, unread)[e], from, to) = Overlapping(Seen(happened, unread)[e], from, to)
<1>1. Cutoff \in Int /\ Forgotten /\ e \in Stores
  BY CalendarConstants DEF ReportsInv, Cutoff, Stores
<1>2. \A r \in happened[e] : r.to >= from => r \in held[e]
  BY <1>1 DEF Forgotten
<1>3. held[e] \subseteq happened[e]
  BY <1>1 DEF Forgotten
<1>4. CASE e \in unread
  BY <1>1, <1>4 DEF Seen
<1>5. CASE e \notin unread
  <2>1. Seen(held, unread)[e] = held[e] /\ Seen(happened, unread)[e] = happened[e]
    BY <1>1, <1>5 DEF Seen
  <2> QED
    BY <1>2, <1>3, <2>1 DEF Overlapping
<1> QED
  BY <1>4, <1>5

LEMMA TelemetryIsSeen ==
    ASSUME ReportsInv, NEW from \in Int, NEW to, NEW unread, ~(from < Cutoff)
    PROVE  Within(Seen(held, unread)["telemetry"], from, to)
           = Within(Seen(happened, unread)["telemetry"], from, to)
<1>1. Cutoff \in Int /\ Forgotten /\ "telemetry" \in Stores
  BY CalendarConstants DEF ReportsInv, Cutoff, Stores
<1>2. \A t \in happened["telemetry"] : from <= t => t \in held["telemetry"]
  BY <1>1 DEF Forgotten
<1>3. held["telemetry"] \subseteq happened["telemetry"]
  BY <1>1 DEF Forgotten
<1>4. CASE "telemetry" \in unread
  BY <1>1, <1>4 DEF Seen
<1>5. CASE "telemetry" \notin unread
  <2>1. /\ Seen(held, unread)["telemetry"] = held["telemetry"]
        /\ Seen(happened, unread)["telemetry"] = happened["telemetry"]
    BY <1>1, <1>5 DEF Seen
  <2> QED
    BY <1>2, <1>3, <2>1 DEF Within
<1> QED
  BY <1>4, <1>5

\* A report built from less of its period than there was reaches back beyond what is kept.
LEMMA LessIsExpired ==
    ASSUME ReportsInv, NEW p, p.from \in Int, p.to \in Int, NEW unread, NEW regenerated, NEW expired,
           Thinner(Built(p, unread, regenerated, expired), p)
    PROVE  Expired(p)
<1> DEFINE report == Built(p, unread, regenerated, expired)
           seen == EvidenceOf(Seen(held, unread), p)
           full == EvidenceOf(Seen(happened, unread), p)
<1>1. report.evidence = seen /\ report.unread = unread
  BY DEF Built
<1>2. \/ seen.incidents # full.incidents
      \/ seen.sessions # full.sessions
      \/ seen.telemetry # full.telemetry
  <2> HIDE DEF seen, report
  <2> QED
    BY <1>1 DEF Thinner, report
<1>3. SUFFICES ASSUME ~Expired(p) PROVE FALSE
  OBVIOUS
<1>4. 2 * p.from \in Int /\ ~(2 * p.from < Cutoff) /\ "incidents" \in Episodes /\ "sessions" \in Episodes
  BY <1>3 DEF Expired, Episodes
<1>5. seen.incidents = full.incidents
  BY <1>4, EpisodesAreSeen DEF EvidenceOf
<1>6. seen.sessions = full.sessions
  BY <1>4, EpisodesAreSeen DEF EvidenceOf
<1>7. seen.telemetry = full.telemetry
  BY <1>4, TelemetryIsSeen DEF EvidenceOf
<1> QED
  BY <1>2, <1>5, <1>6, <1>7

ReportStands ==
    \A p \in DOMAIN reports' :
        /\ 2 * p.to <= clock
        /\ (p \in DOMAIN reports /\ reports'[p] # reports[p]) =>
              /\ reports'[p].regenerated
              /\ Thinner(reports'[p], p) => reports'[p].expired

\* A step that touches no report, or adds some of periods that are over.
LEMMA OthersStand ==
    ASSUME ReportsInv, DOMAIN reports \subseteq DOMAIN reports',
           reports' = [p \in DOMAIN reports' |-> reports'[p]],
           \A p \in DOMAIN reports : reports'[p] = reports[p],
           \A p \in DOMAIN reports' \ DOMAIN reports : p.from \in Int /\ p.to \in Int /\ 2 * p.to <= clock,
           Forgotten', clock' \in {clock, clock + 1}
    PROVE  ReportsInv' /\ ReportStands
<1>1. clock \in Nat /\ clock' \in Nat /\ clock <= clock' /\ FirstInstant <= clock'
  BY CalendarConstants DEF ReportsInv
<1>2. \A p \in DOMAIN reports' : p.from \in Int /\ p.to \in Int /\ 2 * p.to <= clock
  BY DEF ReportsInv
<1>3. \A p \in DOMAIN reports' : p.from \in Int /\ p.to \in Int /\ 2 * p.to <= clock'
  BY <1>1, <1>2
<1> QED
  BY <1>1, <1>2, <1>3 DEF ReportsInv, ReportStands

\* The same with the reports as they were.
LEMMA TheyStand ==
    ASSUME ReportsInv, reports' = reports, Forgotten', clock' \in {clock, clock + 1}
    PROVE  ReportsInv' /\ ReportStands
<1>1. reports = [p \in DOMAIN reports |-> reports[p]]
  BY DEF ReportsInv
<1> QED
  BY <1>1, OthersStand

LEMMA ReportsNextInv == ReportsInv /\ [ReportsNext]_reportVars => ReportsInv' /\ (ReportStands \/ UNCHANGED reportVars)
<1> SUFFICES ASSUME ReportsInv, [ReportsNext]_reportVars
             PROVE  ReportsInv' /\ (ReportStands \/ UNCHANGED reportVars)
  OBVIOUS
<1>0. clock \in Nat /\ Forgotten /\ Cutoff \in Int
  BY CalendarConstants DEF ReportsInv, Cutoff
<1>1. CASE UNCHANGED reportVars
  <2>1. UNCHANGED <<clock, held, reports, happened>>
    BY <1>1 DEF reportVars
  <2>2. Forgotten'
    BY <1>0, <2>1, StillForgotten
  <2> QED
    BY <2>1, <2>2, TheyStand
<1>2. CASE HalfDay
  <2> DEFINE watched == IF up THEN {clock} ELSE {}
  <2>1. reports' = reports /\ clock' = clock + 1 /\ Recorded("telemetry", watched)
    BY <1>2 DEF HalfDay
  <2>2. watched \subseteq Nat /\ "telemetry" \in Stores /\ "telemetry" \notin Episodes
    BY <1>0 DEF Stores, Episodes
  <2> HIDE DEF watched
  <2>3. Forgotten'
    BY <1>0, <2>1, <2>2, RecordingForgetsNothing
  <2> QED
    BY <2>1, <2>3, TheyStand
<1>3. CASE ProgramStops \/ \E e \in Episodes : Begins(e)
  <2>1. UNCHANGED <<clock, held, reports, happened>>
    BY <1>3 DEF Begins, ProgramStops
  <2>2. Forgotten'
    BY <1>0, <2>1, StillForgotten
  <2> QED
    BY <2>1, <2>2, TheyStand
<1>4. CASE \E e \in Episodes : Ends(e)
  <2>1. PICK e \in Episodes : Ends(e)
    BY <1>4
  <2> DEFINE ended == {[from |-> open[e], to |-> clock]}
  <2>2. UNCHANGED <<clock, reports>> /\ Recorded(e, ended)
    BY <2>1 DEF Ends
  <2>3. e \in Stores /\ e # "telemetry" /\ \A r \in ended : r.to \in Nat
    BY <1>0 DEF Stores, Episodes
  <2> HIDE DEF ended
  <2>4. Forgotten'
    BY <1>0, <2>2, <2>3, RecordingForgetsNothing
  <2> QED
    BY <2>2, <2>4, TheyStand
<1>5. CASE MarkChange
  <2>1. UNCHANGED <<clock, reports>> /\ Recorded("experiments", {clock})
    BY <1>5 DEF MarkChange
  <2>2. "experiments" \in Stores /\ "experiments" \notin Episodes /\ "experiments" # "telemetry"
    BY DEF Stores, Episodes
  <2>3. Forgotten'
    BY <1>0, <2>1, <2>2, RecordingForgetsNothing
  <2> QED
    BY <2>1, <2>3, TheyStand
<1>6. CASE ProgramStarts
  <2>1. /\ UNCHANGED <<clock, reports, happened>>
        /\ held' = [s \in Stores |->
                       CASE s \in Episodes     -> {r \in held[s] : r.to >= Cutoff}
                         [] s = "telemetry"    -> {t \in held[s] : t + 1 >= Cutoff}
                         [] s = "experiments"  -> held[s]]
    BY <1>6 DEF ProgramStarts
  <2>2. Cutoff' = Cutoff
    BY <2>1 DEF Cutoff
  <2>3. /\ \A e \in Episodes : e \in Stores /\ held'[e] = {r \in held[e] : r.to >= Cutoff}
        /\ held'["telemetry"] = {t \in held["telemetry"] : t + 1 >= Cutoff}
        /\ held'["experiments"] = held["experiments"]
    BY <2>1 DEF Stores, Episodes
  <2>4. \A e \in Episodes : \A r \in happened[e] : r.to \in Nat /\ (r \in held'[e] \/ r.to < Cutoff)
    BY <1>0, <2>3 DEF Forgotten
  <2>5. \A t \in happened["telemetry"] : t \in Nat /\ (t \in held'["telemetry"] \/ t + 1 < Cutoff)
    BY <1>0, <2>3 DEF Forgotten
  <2>6. \A s \in Stores : held'[s] \subseteq happened[s]
    BY <1>0, <2>3 DEF Forgotten, Stores
  <2>7. held' = [s \in Stores |-> held'[s]]
    <3> DEFINE kept(s) == CASE s \in Episodes     -> {r \in held[s] : r.to >= Cutoff}
                            [] s = "telemetry"    -> {t \in held[s] : t + 1 >= Cutoff}
                            [] s = "experiments"  -> held[s]
    <3>1. held' = [s \in Stores |-> kept(s)]
      BY <2>1
    <3> HIDE DEF kept
    <3> QED
      BY <3>1
  <2>8. Forgotten'
    BY <1>0, <2>1, <2>2, <2>4, <2>5, <2>6, <2>7 DEF Forgotten
  <2> QED
    BY <2>1, <2>8, TheyStand
<1>7. CASE TelemetryMovedAside
  <2>1. /\ UNCHANGED <<clock, reports>>
        /\ held' = [held EXCEPT !["telemetry"] = {}]
        /\ happened' = [happened EXCEPT !["telemetry"] = @ \ held["telemetry"]]
    BY <1>7 DEF TelemetryMovedAside
  <2>2. Cutoff' = Cutoff
    BY <2>1 DEF Cutoff
  <2>3. /\ held' = [s \in Stores |-> held'[s]] /\ happened' = [s \in Stores |-> happened'[s]]
        /\ held'["telemetry"] = {}
        /\ happened'["telemetry"] = happened["telemetry"] \ held["telemetry"]
        /\ \A s \in Stores \ {"telemetry"} : held'[s] = held[s] /\ happened'[s] = happened[s]
    BY <1>0, <2>1 DEF Forgotten, Stores
  <2>4. \A e \in Episodes : e \in Stores \ {"telemetry"}
    BY DEF Stores, Episodes
  <2>5. \A e \in Episodes : \A r \in happened'[e] : r.to \in Nat /\ (r \in held'[e] \/ r.to < Cutoff)
    BY <1>0, <2>3, <2>4 DEF Forgotten
  <2>6. \A t \in happened'["telemetry"] : t \in Nat /\ (t \in held'["telemetry"] \/ t + 1 < Cutoff)
    BY <1>0, <2>3 DEF Forgotten
  <2>7. \A s \in Stores : held'[s] \subseteq happened'[s]
    BY <1>0, <2>3 DEF Forgotten
  <2>8. Forgotten'
    BY <2>2, <2>3, <2>5, <2>6, <2>7 DEF Forgotten
  <2> QED
    BY <2>1, <2>8, TheyStand
<1>8. CASE StoreMovedAside
  <2>1. UNCHANGED <<clock, held, happened>> /\ reports' = <<>>
    BY <1>8 DEF StoreMovedAside
  <2>2. Forgotten'
    BY <1>0, <2>1, StillForgotten
  <2>3. DOMAIN reports' = {} /\ reports' = [p \in DOMAIN reports' |-> reports'[p]]
    BY <2>1
  <2> QED
    BY <2>1, <2>2, <2>3 DEF ReportsInv, ReportStands
<1>9. CASE CheckDueReports
  <2> DEFINE previous == {PreviousCompletedPeriod(t, Today) : t \in Types}
  <2>1. /\ UNCHANGED <<clock, held, happened>>
        /\ \E due \in SUBSET previous, unread \in SUBSET Stores : reports' = Saved(due, unread)
    BY <1>9 DEF CheckDueReports
  <2>2. Forgotten'
    BY <1>0, <2>1, StillForgotten
  <2>3. PICK due \in SUBSET previous, unread \in SUBSET Stores : reports' = Saved(due, unread)
    BY <2>1
  <2>4. \A p \in due : p.from \in Int /\ p.to \in Int /\ 2 * p.to <= clock
    BY DueAreOver
  <2> HIDE DEF previous
  <2>5. /\ DOMAIN reports' = DOMAIN reports \cup due
        /\ reports' = [p \in DOMAIN reports' |-> reports'[p]]
        /\ \A p \in DOMAIN reports : reports'[p] = reports[p]
    BY <2>3 DEF Saved
  <2> QED
    BY <2>1, <2>2, <2>4, <2>5, OthersStand
<1>10. CASE \E p \in DOMAIN reports : Regenerate(p)
  <2>1. PICK p \in DOMAIN reports : Regenerate(p)
    BY <1>10
  <2>2. PICK unread \in SUBSET Stores : reports' = [reports EXCEPT ![p] = Built(p, unread, TRUE, Expired(p))]
    BY <2>1 DEF Regenerate
  <2> DEFINE rebuilt == Built(p, unread, TRUE, Expired(p))
  <2>3. UNCHANGED <<clock, held, happened>>
    BY <2>1 DEF Regenerate
  <2>4. Forgotten'
    BY <1>0, <2>3, StillForgotten
  <2>5. p.from \in Int /\ p.to \in Int
    BY DEF ReportsInv
  <2>6. rebuilt.regenerated /\ (Thinner(rebuilt, p) => rebuilt.expired)
    <3>1. rebuilt.regenerated = TRUE /\ rebuilt.expired = Expired(p)
      BY DEF Built
    <3>2. Thinner(rebuilt, p) => Expired(p)
      BY <2>5, LessIsExpired
    <3> HIDE DEF rebuilt
    <3> QED
      BY <3>1, <3>2
  <2> HIDE DEF rebuilt
  <2>7. reports' = [reports EXCEPT ![p] = rebuilt]
    BY <2>2 DEF rebuilt
  <2>8. DOMAIN reports' = DOMAIN reports /\ reports' = [x \in DOMAIN reports' |-> reports'[x]]
    BY <2>7 DEF ReportsInv
  <2>9. reports'[p] = rebuilt /\ \A x \in DOMAIN reports : x # p => reports'[x] = reports[x]
    BY <2>7 DEF ReportsInv
  <2>10. ReportsInv'
    BY <2>3, <2>4, <2>8 DEF ReportsInv
  <2>11. \A x \in DOMAIN reports : 2 * x.to <= clock
    BY DEF ReportsInv
  <2>12. ReportStands
    BY <2>6, <2>8, <2>9, <2>11 DEF ReportStands
  <2> QED
    BY <2>10, <2>12
<1> QED
  BY <1>1, <1>2, <1>3, <1>4, <1>5, <1>6, <1>7, <1>8, <1>9, <1>10 DEF ReportsNext

\* However lookups, reads and saves fail, files are lost and evidence comes late or is
\* pruned: a report is of a period that is over, what it concluded changes by regeneration
\* only, and one rebuilt after retention took of the incidents, the sessions or the
\* telemetry of its own period says that its source has expired.
THEOREM ReportsAlwaysStand == UpkeepSpec => ReportsStand
<1>1. UpkeepInit => ReportsInv
  BY ReportsInitially DEF UpkeepInit
<1>2. [UpkeepNext]_upkeepVars => [ReportsNext]_reportVars
  BY DEF UpkeepNext, upkeepVars, Supervising, Network, Alerts, Reporting, Analysing, Asking
<1>3. ReportsInv /\ [UpkeepNext]_upkeepVars => ReportsInv'
  BY <1>2, ReportsNextInv
<1>4. ReportsInv /\ [UpkeepNext]_upkeepVars => [ReportStands]_reportVars
  BY <1>2, ReportsNextInv
<1>5. [][ReportStands]_reportVars => ReportsStand
  BY PTL DEF ReportsStand, ReportStands
<1> QED
  BY <1>1, <1>3, <1>4, <1>5, PTL DEF UpkeepSpec

-----------------------------------------------------------------------------
\* THE WINDOWS OF QUESTIONS

QuestionsInv == hour \in Nat /\ FirstHour <= hour

LEMMA TheHour ==
    ASSUME QuestionsInv
    PROVE  LET today == DayOf(hour) IN
           /\ today \in Nat /\ Midnight(today) <= hour /\ hour < Midnight(today) + HoursPerDay
           /\ TwoMonthsBy(today)
<1> DEFINE S == {m \in MonthStarts : Midnight(m) <= FirstHour}
           today == DayOf(hour)
<1>1. PICK x, y \in S : x # y
  BY HoursAssumption, MoreThanOne
<1>2. hour \in Nat /\ FirstHour <= hour /\ FirstHour \in Nat
  BY HoursAssumption DEF QuestionsInv
<1>3. today \in Nat /\ 24 * today <= hour /\ hour < 24 * today + 24
  BY <1>2 DEF DayOf, HoursPerDay
<1>4. /\ x \in MonthStarts /\ y \in MonthStarts /\ x \in Nat /\ y \in Nat
      /\ 24 * x <= FirstHour /\ 24 * y <= FirstHour
  BY <1>1, WeekAssumption DEF Midnight, HoursPerDay
<1>5. x <= today /\ y <= today
  BY <1>2, <1>3, <1>4
<1>6. x < y \/ y < x
  BY <1>1, <1>4
<1> QED
  BY <1>3, <1>4, <1>5, <1>6 DEF TwoMonthsBy, Midnight, HoursPerDay

LEMMA LessOfTwo ==
    ASSUME NEW a \in Nat, NEW b \in Nat
    PROVE  Min({a, b}) = IF a <= b THEN a ELSE b
<1>1. {a, b} \in SUBSET Nat /\ {a, b} # {}
  OBVIOUS
<1>2. Min({a, b}) \in {a, b} /\ Min({a, b}) <= a /\ Min({a, b}) <= b
  BY <1>1, FirstOfMonths
<1> QED
  BY <1>2

\* A period in progress, and the one before it, in hours.
LEMMA PeriodsInHours ==
    ASSUME QuestionsInv, NEW t \in Types
    PROVE  LET p == PreviousCompletedPeriod(t, DayOf(hour)) IN
           /\ Whole(p) = [from |-> Midnight(p.from), to |-> Midnight(p.to)]
           /\ p.from \in Int /\ p.to \in Int /\ p.to = PeriodStart(t, DayOf(hour))
           /\ Midnight(p.from) <= Midnight(p.to) /\ Midnight(p.to) <= hour
           /\ DayOf(Midnight(p.from)) = p.from /\ DayOf(Midnight(p.to)) = p.to
<1> DEFINE today == DayOf(hour)
           p == PreviousCompletedPeriod(t, today)
<1>1. today \in Nat /\ Midnight(today) <= hour /\ TwoMonthsBy(today)
  BY TheHour
<1>2. p.from \in Int /\ p.to \in Int /\ p.to = PeriodStart(t, today) /\ p.from < p.to /\ p.to <= today
  BY <1>1, PeriodBefore
<1> HIDE DEF p, today
<1>3. hour \in Nat
  BY DEF QuestionsInv
<1>4. Midnight(p.from) <= Midnight(p.to) /\ Midnight(p.to) <= hour
  BY <1>1, <1>2, <1>3 DEF Midnight, HoursPerDay
<1>5. \A d \in Int : DayOf(Midnight(d)) = d
  BY DEF DayOf, Midnight, HoursPerDay
<1> QED
  BY <1>2, <1>4, <1>5 DEF Whole, p, today

\* A window is of the past, and begins before it ends unless it is this morning before it.
LEMMA WindowIsPast ==
    ASSUME QuestionsInv, NEW phrase \in Phrases, NEW n \in Nat
    PROVE  LET w == AskedWindow(phrase, n, hour)
           IN  w.to <= hour /\ (w.from <= w.to \/ Inverted(phrase, hour))
<1> DEFINE today == DayOf(hour)
           w == AskedWindow(phrase, n, hour)
<1>1. /\ today \in Nat /\ hour \in Nat
      /\ 24 * today <= hour /\ hour < 24 * today + 24
  BY TheHour DEF QuestionsInv, Midnight, HoursPerDay
<1>2. CASE phrase = "last hours"
  <2>1. w = [from |-> hour - n, to |-> hour]
    BY <1>2 DEF AskedWindow
  <2> HIDE DEF today, w
  <2> QED
    BY <1>1, <2>1 DEF w
<1>3. CASE phrase = "last night"
  <2>1. w = [from |-> 24 * (today - 1) + 18, to |-> Min({24 * today + 6, hour})]
    BY <1>3 DEF AskedWindow, Midnight, HoursPerDay, NightStart, NightEnd
  <2>2. 24 * today + 6 \in Nat
    BY <1>1
  <2>3. Min({24 * today + 6, hour}) = IF 24 * today + 6 <= hour THEN 24 * today + 6 ELSE hour
    BY <1>1, <2>2, LessOfTwo
  <2> HIDE DEF today, w
  <2> QED
    BY <1>1, <2>1, <2>3 DEF w
<1>4. CASE phrase = "this morning"
  <2>1. w = [from |-> 24 * today + 6, to |-> Min({24 * today + 12, hour})]
    BY <1>4 DEF AskedWindow, Midnight, HoursPerDay, NightEnd, Noon
  <2>2. 24 * today + 12 \in Nat
    BY <1>1
  <2>3. Min({24 * today + 12, hour}) = IF 24 * today + 12 <= hour THEN 24 * today + 12 ELSE hour
    BY <1>1, <2>2, LessOfTwo
  <2>4. Inverted(phrase, hour) <=> hour < 24 * today + 6
    BY <1>4 DEF Inverted, Midnight, HoursPerDay, NightEnd
  <2> HIDE DEF today, w
  <2> QED
    BY <1>1, <2>1, <2>3, <2>4 DEF w
<1>5. ASSUME NEW t \in Types, w = Whole(PreviousCompletedPeriod(t, today))
      PROVE  w.to <= hour /\ w.from <= w.to
  BY <1>5, PeriodsInHours
<1>6. ASSUME NEW t \in Types, w = [from |-> Midnight(PeriodStart(t, today)), to |-> hour]
      PROVE  w.to <= hour /\ w.from <= w.to
  BY <1>1, <1>6, PeriodsInHours
<1>7. CASE phrase = "yesterday"
  <2>1. "DAILY" \in Types /\ w = Whole(PreviousCompletedPeriod("DAILY", today))
    BY <1>7 DEF AskedWindow, Types
  <2> QED
    BY <1>5, <2>1
<1>8. CASE phrase = "last week"
  <2>1. "WEEKLY" \in Types /\ w = Whole(PreviousCompletedPeriod("WEEKLY", today))
    BY <1>8 DEF AskedWindow, Types
  <2> QED
    BY <1>5, <2>1
<1>9. CASE phrase = "last month"
  <2>1. "MONTHLY" \in Types /\ w = Whole(PreviousCompletedPeriod("MONTHLY", today))
    BY <1>9 DEF AskedWindow, Types
  <2> QED
    BY <1>5, <2>1
<1>10. CASE phrase = "today"
  <2>1. w = [from |-> 24 * today, to |-> hour]
    BY <1>10 DEF AskedWindow, Midnight, HoursPerDay
  <2> QED
    BY <1>1, <2>1
<1>11. CASE phrase = "this week"
  <2>1. "WEEKLY" \in Types /\ w = [from |-> Midnight(PeriodStart("WEEKLY", today)), to |-> hour]
    BY <1>11 DEF AskedWindow, Types
  <2> QED
    BY <1>6, <2>1
<1>12. CASE phrase = "this month"
  <2>1. "MONTHLY" \in Types /\ w = [from |-> Midnight(PeriodStart("MONTHLY", today)), to |-> hour]
    BY <1>12 DEF AskedWindow, Types
  <2> QED
    BY <1>6, <2>1
<1>13. CASE phrase = "nothing"
  BY <1>1, <1>13 DEF AskedWindow, HoursPerDay
<1> QED
  BY <1>2, <1>3, <1>4, <1>7, <1>8, <1>9, <1>10, <1>11, <1>12, <1>13 DEF Phrases

\* What is asked of a period in progress begins where what is asked of the one before ends.
LEMMA PeriodsMeet ==
    ASSUME QuestionsInv, NEW t \in Types
    PROVE  LET last == AskedWindow(Previous[t], 0, hour) IN
           /\ last.to = AskedWindow(SoFar[t], 0, hour).from
           /\ last = Whole(PeriodBounds(t, DayOf(last.from)))
           /\ DayOf(last.from) = PeriodStart(t, DayOf(last.to) - 1)
<1> DEFINE today == DayOf(hour)
           p == PreviousCompletedPeriod(t, today)
           last == AskedWindow(Previous[t], 0, hour)
<1>1. last = Whole(p)
  <2>1. t = "DAILY" => last = Whole(p)
    BY DEF AskedWindow, Previous
  <2>2. t = "WEEKLY" => last = Whole(p)
    BY DEF AskedWindow, Previous
  <2>3. t = "MONTHLY" => last = Whole(p)
    BY DEF AskedWindow, Previous
  <2> QED
    BY <2>1, <2>2, <2>3 DEF Types
<1>2. AskedWindow(SoFar[t], 0, hour).from = Midnight(PeriodStart(t, today))
  <2> DEFINE so == [from |-> Midnight(PeriodStart(t, today)), to |-> hour]
  <2>1. t = "DAILY" => AskedWindow(SoFar[t], 0, hour) = so
    BY DEF AskedWindow, SoFar, PeriodStart
  <2>2. t = "WEEKLY" => AskedWindow(SoFar[t], 0, hour) = so
    BY DEF AskedWindow, SoFar
  <2>3. t = "MONTHLY" => AskedWindow(SoFar[t], 0, hour) = so
    BY DEF AskedWindow, SoFar
  <2> QED
    BY <2>1, <2>2, <2>3 DEF Types
<1>3. /\ Whole(p) = [from |-> Midnight(p.from), to |-> Midnight(p.to)]
      /\ p.to = PeriodStart(t, today)
      /\ DayOf(Midnight(p.from)) = p.from /\ DayOf(Midnight(p.to)) = p.to
  BY PeriodsInHours
<1>4. today \in Nat /\ TwoMonthsBy(today)
  BY TheHour
<1>5. p = PeriodBounds(t, p.from) /\ p.from = PeriodStart(t, PeriodStart(t, today) - 1)
  BY <1>4, PeriodBefore
<1> HIDE DEF p, today, last
<1>6. last.from = Midnight(p.from) /\ last.to = Midnight(p.to)
  BY <1>1, <1>3
<1> QED
  BY <1>1, <1>2, <1>3, <1>5, <1>6 DEF last, today

LEMMA QuestionsHold == QuestionsInv => WindowsAgree
<1> SUFFICES ASSUME QuestionsInv PROVE WindowsAgree
  OBVIOUS
<1>1. ASSUME NEW phrase \in Phrases, NEW n \in Counts
      PROVE  LET w == AskedWindow(phrase, n, hour)
             IN  w.to <= hour /\ (w.from <= w.to \/ Inverted(phrase, hour))
  <2>1. n \in Nat
    BY HoursAssumption
  <2> QED
    BY <2>1, WindowIsPast
<1>2. ASSUME ~Inverted("this morning", hour)
      PROVE  AskedWindow("last night", 0, hour).to = AskedWindow("this morning", 0, hour).from
  <2> DEFINE morning == Midnight(DayOf(hour)) + NightEnd
  <2>1. AskedWindow("last night", 0, hour).to = Min({morning, hour})
    BY DEF AskedWindow
  <2>2. AskedWindow("this morning", 0, hour).from = morning
    BY DEF AskedWindow
  <2>3. DayOf(hour) \in Nat /\ hour \in Nat
    BY TheHour DEF QuestionsInv
  <2>4. morning \in Nat /\ ~(hour < morning)
    BY <1>2, <2>3 DEF Inverted, Midnight, HoursPerDay, NightEnd
  <2> HIDE DEF morning
  <2>5. Min({morning, hour}) = morning
    BY <2>3, <2>4, LessOfTwo
  <2> QED
    BY <2>1, <2>2, <2>5
<1> QED
  BY <1>1, <1>2, PeriodsMeet DEF WindowsAgree

\* Whenever it is asked, a window is of the past and begins before it ends, the period in
\* progress begins where the one of the report ends, and the night where the morning begins.
THEOREM WindowsAlwaysAgree == UpkeepSpec => []WindowsAgree
<1>1. UpkeepInit => QuestionsInv
  BY HoursAssumption DEF UpkeepInit, QuestionsInit, QuestionsInv
<1>2. QuestionsInv /\ [UpkeepNext]_upkeepVars => QuestionsInv'
  <2>1. [UpkeepNext]_upkeepVars => [HourPasses]_hour
    BY DEF UpkeepNext, upkeepVars, Supervising, Network, Alerts, Reporting, Analysing, Asking, QuestionsNext
  <2>2. QuestionsInv /\ HourPasses => QuestionsInv'
    BY HoursAssumption DEF QuestionsInv, HourPasses
  <2> QED
    BY <2>1, <2>2 DEF QuestionsInv
<1> QED
  BY <1>1, <1>2, QuestionsHold, PTL DEF UpkeepSpec


-----------------------------------------------------------------------------
\* THE ANALYSES: STATISTICS

\* Values of which some may be missing.
IsData(f) == IsFiniteSet(DOMAIN f) /\ \A x \in DOMAIN f : f[x] \in Int \cup {None}

Known(f) == {x \in DOMAIN f : f[x] # None}

Squares(f) == [x \in DOMAIN f |-> f[x] * f[x]]

Number(f) == Cardinality(Known(f))
Total(f) == SumOver(f, Known(f))

\* The sums of a comprehension, as sums over functions.
LEMMA SumOfValues ==
    ASSUME NEW f, NEW S PROVE MapThenSumSet(LAMBDA s : f[s], S) = SumOver(f, S)
<1> DEFINE h == [x \in S |-> f[x]]
           Full(g) == g = [s \in SUBSET S |-> IF s = {} THEN 0 ELSE h[Pick(s)] + g[s \ {Pick(s)}]]
           Plain(g) == g = [s \in SUBSET S |-> IF s = {} THEN 0 ELSE f[Pick(s)] + g[s \ {Pick(s)}]]
<1>1. ASSUME NEW g PROVE Full(g) <=> Plain(g)
  <2>1. \A s \in SUBSET S : s # {} => h[Pick(s)] = f[Pick(s)]
    BY PickIsIn
  <2> HIDE DEF h
  <2> QED
    BY <2>1
<1>2. (CHOOSE g : Full(g)) = (CHOOSE g : Plain(g))
  <2> HIDE DEF h
  <2> QED
    BY <1>1
<1>3. SumOf(h) = (CHOOSE g : Full(g))[S]
  <2>1. DOMAIN h = S
    OBVIOUS
  <2> HIDE DEF h
  <2> QED
    BY <2>1 DEF SumOf, MapThenSumSet, MapThenFoldSet, Pick
<1>4. MapThenSumSet(LAMBDA s : f[s], S) = (CHOOSE g : Plain(g))[S]
  BY DEF MapThenSumSet, MapThenFoldSet, Pick
<1> QED
  BY <1>2, <1>3, <1>4 DEF SumOver

LEMMA SumOfSquares ==
    ASSUME NEW f, NEW S, S \subseteq DOMAIN f
    PROVE  MapThenSumSet(LAMBDA s : f[s] * f[s], S) = SumOver(Squares(f), S)
<1> DEFINE k == Squares(f)
           h == [x \in S |-> k[x]]
           Full(g) == g = [s \in SUBSET S |-> IF s = {} THEN 0 ELSE h[Pick(s)] + g[s \ {Pick(s)}]]
           Plain(g) == g = [s \in SUBSET S |-> IF s = {} THEN 0
                                               ELSE (f[Pick(s)] * f[Pick(s)]) + g[s \ {Pick(s)}]]
<1>1. ASSUME NEW g PROVE Full(g) <=> Plain(g)
  <2>1. \A s \in SUBSET S : s # {} => h[Pick(s)] = f[Pick(s)] * f[Pick(s)]
    BY PickIsIn DEF Squares
  <2> HIDE DEF h
  <2> QED
    BY <2>1
<1>2. (CHOOSE g : Full(g)) = (CHOOSE g : Plain(g))
  <2> HIDE DEF h
  <2> QED
    BY <1>1
<1>3. SumOf(h) = (CHOOSE g : Full(g))[S]
  <2>1. DOMAIN h = S
    OBVIOUS
  <2> HIDE DEF h
  <2> QED
    BY <2>1 DEF SumOf, MapThenSumSet, MapThenFoldSet, Pick
<1>4. MapThenSumSet(LAMBDA s : f[s] * f[s], S) = (CHOOSE g : Plain(g))[S]
  BY DEF MapThenSumSet, MapThenFoldSet, Pick
<1> QED
  BY <1>2, <1>3, <1>4 DEF SumOver

\* The parts of a statistic.
LEMMA StatParts ==
    ASSUME NEW f, IsData(f), NEW least \in Nat
    PROVE  /\ Known(f) \subseteq DOMAIN f /\ IsFiniteSet(Known(f)) /\ Number(f) \in Nat
           /\ \A x \in Known(f) : f[x] \in Int
           /\ Total(f) \in Int
           /\ Number(f) = 0 <=> Known(f) = {}
           /\ Known(f) = {} => Stat(f, least) = None
           /\ Known(f) # {} =>
                 /\ Stat(f, least) # None /\ Stat(f, least) \in Statistics
                 /\ Stat(f, least).count = Number(f)
                 /\ Stat(f, least).sum = Total(f)
                 /\ Stat(f, least).squares = SumOver(Squares(f), Known(f))
                 /\ Stat(f, least).established = (Number(f) >= least)
<1>1. Known(f) \subseteq DOMAIN f /\ \A x \in Known(f) : f[x] \in Int
  BY DEF IsData, Known
<1>2. IsFiniteSet(Known(f))
  BY <1>1, FS_Subset DEF IsData
<1>3. Number(f) \in Nat /\ (Number(f) = 0 <=> Known(f) = {})
  BY <1>2, FS_CardinalityType, FS_EmptySet DEF Number
<1>4. Total(f) \in Int
  BY <1>1, <1>2, SumIsInteger DEF Total
<1>5. SumOver(Squares(f), Known(f)) \in Int
  <2>1. \A x \in Known(f) : Squares(f)[x] \in Int
    BY <1>1 DEF Squares
  <2> QED
    BY <1>2, <2>1, SumIsInteger
<1>6. Known(f) = {} => Stat(f, least) = None
  BY DEF Stat, Known
<1>7. ASSUME Known(f) # {}
      PROVE  Stat(f, least) = [count |-> Number(f), sum |-> Total(f),
                               squares |-> SumOver(Squares(f), Known(f)),
                               established |-> Number(f) >= least]
  <2>1. Stat(f, least) = [count       |-> Cardinality(Known(f)),
                          sum         |-> MapThenSumSet(LAMBDA s : f[s], Known(f)),
                          squares     |-> MapThenSumSet(LAMBDA s : f[s] * f[s], Known(f)),
                          established |-> Cardinality(Known(f)) >= least]
    BY <1>7 DEF Stat, Known
  <2> QED
    BY <1>1, <2>1, SumOfValues, SumOfSquares DEF Number, Total
<1>8. ASSUME Known(f) # {}
      PROVE  /\ Stat(f, least) \in Statistics /\ Stat(f, least) # None
             /\ Stat(f, least).count = Number(f)
             /\ Stat(f, least).sum = Total(f)
             /\ Stat(f, least).squares = SumOver(Squares(f), Known(f))
             /\ Stat(f, least).established = (Number(f) >= least)
  <2> DEFINE enough == Number(f) >= least
             squares == SumOver(Squares(f), Known(f))
  <2>0. Number(f) \in Nat \ {0} /\ enough \in BOOLEAN
    BY <1>3, <1>8
  <2>1. Stat(f, least) \in Statistics
    <3>1. Stat(f, least) = [count |-> Number(f), sum |-> Total(f), squares |-> squares,
                            established |-> enough]
      BY <1>7, <1>8
    <3>2. squares \in Int
      BY <1>5
    <3> HIDE DEF enough, squares
    <3> QED
      BY <1>4, <2>0, <3>1, <3>2 DEF Statistics
  <2> QED
    BY <1>7, <1>8, <2>1, NoneIsApart
<1> QED
  BY <1>1, <1>2, <1>3, <1>4, <1>6, <1>8

\* As many values, one for one the same, have the same statistic.
LEMMA SameStat ==
    ASSUME NEW f, IsData(f), NEW g, IsData(g), NEW least \in Nat,
           NEW phi \in Bijection(Known(f), Known(g)), \A x \in Known(f) : g[phi[x]] = f[x]
    PROVE  Stat(g, least) = Stat(f, least)
<1> DEFINE S == Known(f)
           T == Known(g)
<1>1. phi \in [S -> T] /\ \A y \in T : \E x \in S : phi[x] = y
  BY DEF Bijection, Injection, Surjection
<1>2. IsFiniteSet(S) /\ S \subseteq DOMAIN f /\ T \subseteq DOMAIN g /\ \A x \in S : f[x] \in Int
  BY StatParts
<1>3. S = {} <=> T = {}
  BY <1>1
<1>4. SumOver(g, T) = SumOver(f, S) /\ Cardinality(T) = Cardinality(S)
  BY <1>2, SumOfImage
<1>5. SumOver(Squares(g), T) = SumOver(Squares(f), S)
  <2>1. \A x \in S : Squares(f)[x] \in Int /\ Squares(g)[phi[x]] = Squares(f)[x]
    BY <1>1, <1>2 DEF Squares
  <2> QED
    BY <1>2, <2>1, SumOfImage
<1>6. CASE S = {}
  BY <1>3, <1>6, StatParts
<1>7. CASE S # {}
  <2>1. Stat(f, least) = [count |-> Cardinality(S), sum |-> MapThenSumSet(LAMBDA s : f[s], S),
                          squares |-> MapThenSumSet(LAMBDA s : f[s] * f[s], S),
                          established |-> Cardinality(S) >= least]
    BY <1>7 DEF Stat, Known
  <2>2. Stat(g, least) = [count |-> Cardinality(T), sum |-> MapThenSumSet(LAMBDA s : g[s], T),
                          squares |-> MapThenSumSet(LAMBDA s : g[s] * g[s], T),
                          established |-> Cardinality(T) >= least]
    BY <1>3, <1>7 DEF Stat, Known
  <2>3. /\ MapThenSumSet(LAMBDA s : f[s], S) = SumOver(f, S)
        /\ MapThenSumSet(LAMBDA s : g[s], T) = SumOver(g, T)
        /\ MapThenSumSet(LAMBDA s : f[s] * f[s], S) = SumOver(Squares(f), S)
        /\ MapThenSumSet(LAMBDA s : g[s] * g[s], T) = SumOver(Squares(g), T)
    BY <1>2, SumOfValues, SumOfSquares
  <2> QED
    BY <1>4, <1>5, <2>1, <2>2, <2>3
<1> QED
  BY <1>6, <1>7

-----------------------------------------------------------------------------
\* THE ANALYSES: TRENDS

\* Both periods have enough values, and how much more the later one has, as a numerator.
Comparable(f, g, n) ==
    Known(f) # {} /\ Known(g) # {} /\ Number(f) >= n /\ Number(g) >= n

Rise(f, g) == Total(g) * Number(f) - Total(f) * Number(g)

Delta(f, g) == [num |-> Rise(f, g), den |-> Number(g) * Number(f)]

\* The least differences of the metrics.
IsLeast(least) == least = None \/ (least \in Nat /\ least > 0)

\* A product of positive numbers is positive.
LEMMA Positive == ASSUME NEW a \in Nat, NEW b \in Nat, a > 0, b > 0 PROVE a * b \in Nat /\ a * b > 0
OBVIOUS

LEMMA RiseType ==
    ASSUME NEW f, IsData(f), NEW g, IsData(g)
    PROVE  /\ Rise(f, g) \in Int /\ Delta(f, g) \in Fractions
           /\ Known(f) # {} /\ Known(g) # {} => Delta(f, g).den \in Nat /\ Delta(f, g).den > 0
<1>1. Number(f) \in Nat /\ Number(g) \in Nat /\ Total(f) \in Int /\ Total(g) \in Int
  BY 0 \in Nat, StatParts
<1>2. Known(f) # {} /\ Known(g) # {} => Number(f) > 0 /\ Number(g) > 0
  BY 0 \in Nat, StatParts
<1>3. Rise(f, g) \in Int /\ Number(g) * Number(f) \in Nat
  BY <1>1 DEF Rise
<1>4. Known(f) # {} /\ Known(g) # {} => Number(g) * Number(f) > 0
  BY <1>1, <1>2, Positive
<1> QED
  BY <1>3, <1>4 DEF Delta, Fractions

\* A trend compares the later values with the earlier.
LEMMA TrendIs ==
    ASSUME NEW f, IsData(f), NEW g, IsData(g), NEW least, NEW worse, NEW n \in Nat
    PROVE  /\ ~Comparable(f, g, n) => Trend(f, g, least, worse, n) = None
           /\ Comparable(f, g, n) =>
                 Trend(f, g, least, worse, n)
                   = Shift(Stat(f, n), Stat(g, n), Judged(Delta(f, g), Stat(f, n), least), worse)
<1> DEFINE a == Stat(f, n)
           b == Stat(g, n)
<1>1. /\ Known(f) = {} => a = None
      /\ Known(g) = {} => b = None
      /\ Known(f) # {} => /\ a # None /\ a.established = (Number(f) >= n)
                          /\ a.sum = Total(f) /\ a.count = Number(f)
      /\ Known(g) # {} => /\ b # None /\ b.established = (Number(g) >= n)
                          /\ b.sum = Total(g) /\ b.count = Number(g)
  BY StatParts
<1>2. Trend(f, g, least, worse, n) = Compared(a, b, least, worse)
  BY DEF Trend
<1> HIDE DEF a, b
<1>3. CASE ~Comparable(f, g, n)
  BY <1>1, <1>2, <1>3 DEF Comparable, Compared
<1>4. CASE Comparable(f, g, n)
  <2>1. a # None /\ b # None /\ a.established /\ b.established
    BY <1>1, <1>4 DEF Comparable
  <2>2. Mean(b) # None
    <3>1. Mean(b) \in Fractions
      <4>1. b.sum \in Int /\ b.count \in Int
        BY <1>1, <1>4, StatParts DEF Comparable
      <4> QED
        BY <4>1 DEF Mean, Fractions
    <3> QED
      BY <3>1, NoneIsApart
  <2>3. Difference(Mean(b), Mean(a)) = Delta(f, g)
    BY <1>1, <1>4 DEF Comparable, Difference, Mean, Delta, Rise
  <2>4. Anomaly(Mean(b), a, least) = Judged(Delta(f, g), a, least)
    BY <2>1, <2>2, <2>3 DEF Anomaly
  <2> QED
    BY <1>2, <1>4, <2>1, <2>4 DEF Compared, a, b
<1> QED
  BY <1>3, <1>4

LEMMA BeyondType ==
    ASSUME NEW d, NEW b, NEW k PROVE Beyond(d, b, k) \in BOOLEAN
BY DEF Beyond, Varies

\* No difference is not unusual.
LEMMA NothingUnusual ==
    ASSUME NEW d \in Fractions, d.num = 0, d.den > 0, NEW b \in Statistics, NEW least, IsLeast(least)
    PROVE  ~Judged(d, b, least).unusual
<1> DEFINE spread == Spread(b)
           den == d.den
<1>1. den \in Int /\ den > 0
  BY DEF Fractions
<1>2. spread \in Int /\ b.count \in Nat \ {0}
  BY DEF Spread, Statistics
<1>3. Judged(d, b, least).unusual = IF Varies(b) THEN Beyond(d, b, 2)
                                    ELSE least # None /\ Abs(d.num) >= least * den
  BY DEF Judged
<1>4. CASE Varies(b)
  <2>1. spread > 0
    BY <1>4 DEF Varies
  <2>2. Beyond(d, b, 2) => 0 * 0 * b.count * (b.count - 1) >= 2 * 2 * spread * den * den
    BY DEF Beyond
  <2>3. 0 * 0 * b.count * (b.count - 1) = 0
    BY <1>2
  <2>4. 2 * 2 * spread * den * den > 0
    <3> HIDE DEF spread, den
    <3>1. spread * den > 0 /\ spread * den \in Nat
      BY <1>1, <1>2, <2>1, Positive
    <3>2. (spread * den) * den > 0 /\ (spread * den) * den \in Nat
      BY <1>1, <3>1, Positive
    <3>3. 2 * 2 * spread * den * den = 4 * ((spread * den) * den)
      BY <1>1, <1>2
    <3> QED
      BY <3>2, <3>3
  <2>5. 2 * 2 * spread * den * den \in Int
    BY <1>1, <1>2
  <2> HIDE DEF spread, den
  <2> QED
    BY <1>3, <1>4, <2>2, <2>3, <2>4, <2>5
<1>5. CASE ~Varies(b)
  <2>1. Abs(d.num) = 0
    BY DEF Abs
  <2>2. ASSUME least # None PROVE ~(0 >= least * den)
    <3>1. least \in Nat /\ least > 0
      BY <2>2 DEF IsLeast
    <3>2. least * den \in Nat /\ least * den > 0
      <4> HIDE DEF den
      <4> QED
        BY <1>1, <3>1, Positive
    <3> HIDE DEF den
    <3> QED
      BY <3>2
  <2> QED
    BY <1>3, <1>5, <2>1, <2>2
<1> QED
  BY <1>4, <1>5

LEMMA MinOfTwo ==
    ASSUME NEW a \in Int, NEW b \in Int
    PROVE  Min({a, b}) = IF a <= b THEN a ELSE b
<1>1. CASE a <= b
  <2>1. \A k \in {a, b} : a <= k
    BY <1>1
  <2> QED
    BY <1>1, <2>1, MinIsLeast
<1>2. CASE ~(a <= b)
  <2>1. \A k \in {a, b} : b <= k
    BY <1>2
  <2> QED
    BY <1>2, <2>1, MinIsLeast
<1> QED
  BY <1>1, <1>2

\* What a shift says.
LEMMA ShiftParts ==
    ASSUME NEW a \in Statistics, NEW b \in Statistics, NEW d \in Fractions, d.den > 0,
           NEW least, IsLeast(least), NEW worse \in BOOLEAN,
           NEW t, t = Shift(a, b, Judged(d, a, least), worse)
    PROVE  /\ t \in Trends /\ t # None
           /\ t.older = a /\ t.recent = b /\ t.delta = d
           /\ t.direction = IF ~Judged(d, a, least).unusual THEN "STABLE"
                            ELSE IF (d.num > 0) = worse THEN "WORSENING" ELSE "IMPROVING"
           /\ d.num = 0 => t.direction = "STABLE"
           /\ worse /\ t.direction = "WORSENING" => d.num > 0
           /\ t.confidence = TrendConfidence(Beyond(d, a, 3), a.count, b.count)
           /\ t.confidence = "HIGH" => a.count >= Generous /\ b.count >= Generous
<1> DEFINE j == Judged(d, a, least)
<1>1. j.delta = d /\ j.unusual \in BOOLEAN /\ j.strong = Beyond(d, a, 3)
  <2>1. Beyond(d, a, 2) \in BOOLEAN
    BY BeyondType
  <2> QED
    BY <2>1 DEF Judged
<1>2. d.num = 0 => ~j.unusual
  BY NothingUnusual
<1>3. t = [older      |-> a,
           recent     |-> b,
           delta      |-> d,
           direction  |-> IF ~j.unusual THEN "STABLE"
                          ELSE IF (d.num > 0) = worse THEN "WORSENING" ELSE "IMPROVING",
           confidence |-> TrendConfidence(Beyond(d, a, 3), a.count, b.count)]
  BY <1>1 DEF Shift
<1>4. /\ TrendConfidence(Beyond(d, a, 3), a.count, b.count) \in Confidences
      /\ TrendConfidence(Beyond(d, a, 3), a.count, b.count) = "HIGH"
            => a.count >= Generous /\ b.count >= Generous
  <2>1. a.count \in Nat /\ b.count \in Nat /\ Generous \in Nat
    BY AnalyticsConstants DEF Statistics
  <2>2. Min({a.count, b.count}) = IF a.count <= b.count THEN a.count ELSE b.count
    BY <2>1, MinOfTwo
  <2>3. TrendConfidence(Beyond(d, a, 3), a.count, b.count) = "HIGH" => ~(Min({a.count, b.count}) < Generous)
    BY DEF TrendConfidence
  <2> QED
    BY <2>1, <2>2, <2>3 DEF TrendConfidence, Confidences
<1> DEFINE dir == IF ~j.unusual THEN "STABLE"
                  ELSE IF (d.num > 0) = worse THEN "WORSENING" ELSE "IMPROVING"
           conf == TrendConfidence(Beyond(d, a, 3), a.count, b.count)
<1>5. /\ dir \in Directions
      /\ d.num = 0 => dir = "STABLE"
      /\ worse /\ dir = "WORSENING" => d.num > 0
  BY <1>1, <1>2 DEF Directions
<1>6. t = [older |-> a, recent |-> b, delta |-> d, direction |-> dir, confidence |-> conf]
  BY <1>3
<1>7. t.older = a /\ t.recent = b /\ t.delta = d /\ t.direction = dir /\ t.confidence = conf
  <2> HIDE DEF dir, conf
  <2> QED
    BY <1>6
<1>8. t \in Trends
  <2>1. conf \in Confidences
    BY <1>4
  <2> HIDE DEF dir, conf
  <2> QED
    BY <1>5, <1>6, <2>1 DEF Trends
<1> QED
  BY <1>4, <1>5, <1>7, <1>8, NoneIsApart

\* What a trend says.
LEMMA TrendParts ==
    ASSUME NEW f, IsData(f), NEW g, IsData(g), NEW least, IsLeast(least), NEW worse \in BOOLEAN,
           NEW n \in Nat, NEW t, t = Trend(f, g, least, worse, n)
    PROVE  /\ t = None <=> ~Comparable(f, g, n)
           /\ t # None =>
                 /\ t \in Trends
                 /\ t.older = Stat(f, n) /\ t.recent = Stat(g, n) /\ t.delta = Delta(f, g)
                 /\ t.direction = IF ~Judged(Delta(f, g), Stat(f, n), least).unusual THEN "STABLE"
                                  ELSE IF (Rise(f, g) > 0) = worse THEN "WORSENING" ELSE "IMPROVING"
                 /\ Rise(f, g) = 0 => t.direction = "STABLE"
                 /\ worse /\ t.direction = "WORSENING" => Rise(f, g) > 0
                 /\ t.confidence = "HIGH" => Number(f) >= Generous /\ Number(g) >= Generous
<1>1. CASE ~Comparable(f, g, n)
  BY <1>1, TrendIs
<1>2. CASE Comparable(f, g, n)
  <2>1. t = Shift(Stat(f, n), Stat(g, n), Judged(Delta(f, g), Stat(f, n), least), worse)
    BY <1>2, TrendIs
  <2>2. /\ Stat(f, n) \in Statistics /\ Stat(f, n).count = Number(f)
        /\ Stat(g, n) \in Statistics /\ Stat(g, n).count = Number(g)
    BY <1>2, StatParts DEF Comparable
  <2>3. Delta(f, g) \in Fractions /\ Delta(f, g).den > 0 /\ Delta(f, g).num = Rise(f, g)
    BY <1>2, RiseType DEF Comparable, Delta
  <2> DEFINE a == Stat(f, n)
             b == Stat(g, n)
             d == Delta(f, g)
  <2> HIDE DEF a, b, d
  <2>4. /\ t \in Trends /\ t # None
        /\ t.older = a /\ t.recent = b /\ t.delta = d
        /\ t.direction = IF ~Judged(d, a, least).unusual THEN "STABLE"
                         ELSE IF (d.num > 0) = worse THEN "WORSENING" ELSE "IMPROVING"
        /\ d.num = 0 => t.direction = "STABLE"
        /\ worse /\ t.direction = "WORSENING" => d.num > 0
        /\ t.confidence = "HIGH" => a.count >= Generous /\ b.count >= Generous
    <3>1. a \in Statistics /\ b \in Statistics /\ d \in Fractions /\ d.den > 0
      BY <2>2, <2>3 DEF a, b, d
    <3>2. t = Shift(a, b, Judged(d, a, least), worse)
      BY <2>1 DEF a, b, d
    <3> QED
      BY <3>1, <3>2, ShiftParts
  <2> QED
    BY <1>2, <2>2, <2>3, <2>4 DEF a, b, d
<1> QED
  BY <1>1, <1>2

-----------------------------------------------------------------------------
\* THE ANALYSES: COMPARISONS

LEMMA ProductsOrder ==
    ASSUME NEW x \in Int, NEW y \in Int, NEW n \in Nat, x <= y
    PROVE  x * n <= y * n
OBVIOUS

LEMMA NegatedRise ==
    ASSUME NEW f, IsData(f), NEW g, IsData(g) PROVE Rise(f, g) = -Rise(g, f)
<1>1. Number(f) \in Nat /\ Number(g) \in Nat /\ Total(f) \in Int /\ Total(g) \in Int
  BY 0 \in Nat, StatParts
<1> QED
  BY <1>1 DEF Rise

\* Where no later value is above an earlier one, nothing rises.
LEMMA Falls ==
    ASSUME NEW f, IsData(f), NEW g, IsData(g),
           \A x \in Known(f), y \in Known(g) : f[x] >= g[y]
    PROVE  Rise(f, g) <= 0
<1>1. /\ Number(f) \in Nat /\ Number(g) \in Nat /\ Total(f) \in Int /\ Total(g) \in Int
      /\ IsFiniteSet(Known(f)) /\ IsFiniteSet(Known(g))
      /\ \A x \in Known(f) : f[x] \in Int
      /\ \A x \in Known(g) : g[x] \in Int
  BY 0 \in Nat, StatParts
<1>2. CASE Known(f) = {}
  <2>1. Number(f) = 0 /\ Total(f) = 0
    BY <1>2, FS_EmptySet, SumOfNothing DEF Number, Total
  <2> QED
    BY <1>1, <2>1 DEF Rise
<1>3. CASE Known(f) # {}
  <2> DEFINE V == {f[x] : x \in Known(f)}
  <2>1. V \subseteq Int /\ V # {}
    BY <1>1, <1>3
  <2>2. IsFiniteSet(V)
    <3> DEFINE phi == [x \in Known(f) |-> f[x]]
    <3>1. phi \in Surjection(Known(f), V)
      BY DEF Surjection
    <3> HIDE DEF phi, V
    <3> QED
      BY <1>1, <3>1, FS_Surjection
  <2>3. PICK x0 \in Known(f) : \A x \in Known(f) : f[x0] <= f[x]
    <3>1. \E m \in V : \A k \in V : m <= k
      <4> HIDE DEF V
      <4> QED
        BY <2>1, <2>2, LeastInteger
    <3> QED
      BY <3>1
  <2> DEFINE c == f[x0]
  <2>4. c \in Int
    BY <1>1
  <2>5. c * Number(f) <= Total(f)
    <3> DEFINE h == [x \in Known(f) |-> c]
    <3>1. SumOver(h, Known(f)) = c * Cardinality(Known(f))
      <4>1. \A x \in Known(f) : h[x] = c
        OBVIOUS
      <4> HIDE DEF h, c
      <4> QED
        BY <1>1, <2>4, <4>1, SumOfConstant
    <3>2. SumOver(h, Known(f)) <= SumOver(f, Known(f))
      <4>1. \A x \in Known(f) : h[x] \in Int /\ f[x] \in Int /\ h[x] <= f[x]
        BY <1>1, <2>3, <2>4
      <4> HIDE DEF h, c
      <4> QED
        BY <1>1, <4>1, SumsAreOrdered
    <3> QED
      BY <3>1, <3>2 DEF Number, Total
  <2>6. Total(g) <= c * Number(g)
    <3> DEFINE h == [x \in Known(g) |-> c]
    <3>1. SumOver(h, Known(g)) = c * Cardinality(Known(g))
      <4>1. \A x \in Known(g) : h[x] = c
        OBVIOUS
      <4> HIDE DEF h, c
      <4> QED
        BY <1>1, <2>4, <4>1, SumOfConstant
    <3>2. SumOver(g, Known(g)) <= SumOver(h, Known(g))
      <4>1. \A x \in Known(g) : h[x] \in Int /\ g[x] \in Int /\ g[x] <= h[x]
        BY <1>1, <2>4
      <4> HIDE DEF h, c
      <4> QED
        BY <1>1, <4>1, SumsAreOrdered
    <3> QED
      BY <3>1, <3>2 DEF Number, Total
  <2>7. (c * Number(f)) * Number(g) <= Total(f) * Number(g)
    <3> HIDE DEF c
    <3> QED
      BY <1>1, <2>4, <2>5, ProductsOrder
  <2>8. Total(g) * Number(f) <= (c * Number(g)) * Number(f)
    <3> HIDE DEF c
    <3> QED
      BY <1>1, <2>4, <2>6, ProductsOrder
  <2>9. (c * Number(g)) * Number(f) = (c * Number(f)) * Number(g)
    <3> HIDE DEF c
    <3> QED
      BY <1>1, <2>4
  <2> HIDE DEF c
  <2> QED
    BY <1>1, <2>4, <2>7, <2>8, <2>9 DEF Rise
<1> QED
  BY <1>2, <1>3

\* Where all values are the same, nothing changes.
LEMMA Flat ==
    ASSUME NEW f, IsData(f), NEW g, IsData(g),
           \A x \in Known(f), y \in Known(g) : f[x] = g[y]
    PROVE  Rise(f, g) = 0
<1>1. /\ \A x \in Known(f), y \in Known(g) : f[x] >= g[y]
      /\ \A x \in Known(g), y \in Known(f) : g[x] >= f[y]
  <2>1. /\ \A x \in Known(f) : f[x] \in Int
        /\ \A x \in Known(g) : g[x] \in Int
    BY 0 \in Nat, StatParts
  <2> QED
    BY <2>1
<1>2. Rise(f, g) <= 0 /\ Rise(g, f) <= 0
  BY <1>1, Falls
<1>3. Rise(f, g) \in Int /\ Rise(g, f) \in Int
  BY RiseType
<1> QED
  BY <1>2, <1>3, NegatedRise

\* The values themselves, k times as large and moved by c.
Linear(f, h, k, c) ==
    /\ Known(h) = Known(f)
    /\ \A x \in Known(f) : h[x] = k * f[x] + c

LEMMA LinearSums ==
    ASSUME NEW f, IsData(f), NEW h, IsData(h), NEW k \in Nat, NEW c \in Int, Linear(f, h, k, c)
    PROVE  /\ Number(h) = Number(f)
           /\ Total(h) = k * Total(f) + c * Number(f)
           /\ SumOver(Squares(h), Known(h))
                 = (k * k) * SumOver(Squares(f), Known(f)) + (2 * k * c) * Total(f) + (c * c) * Number(f)
<1> DEFINE S == Known(f)
<1>1. IsFiniteSet(S) /\ S \subseteq DOMAIN f /\ S \subseteq DOMAIN h /\ \A x \in S : f[x] \in Int /\ h[x] \in Int
  BY 0 \in Nat, StatParts DEF Linear
<1>2. Total(h) = k * Total(f) + c * Number(f)
  <2> DEFINE z == 0
  <2>1. \A x \in S : f[x] \in Int /\ h[x] = k * f[x] + z * f[x] + c
    BY <1>1 DEF Linear
  <2>2. k \in Int /\ z \in Int
    OBVIOUS
  <2>3. SumOver(h, S) = k * SumOver(f, S) + z * SumOver(f, S) + c * Cardinality(S)
    <3> HIDE DEF S, z
    <3>1. Combines(h, k, f, z, f, c, S)
      BY <2>1 DEF Combines
    <3> QED
      BY <1>1, <2>2, <3>1, SumOfCombination
  <2>4. SumOver(f, S) \in Int
    BY <1>1, SumIsInteger
  <2> QED
    BY <2>3, <2>4 DEF Linear, Total, Number
<1>3. SumOver(Squares(h), S) = (k * k) * SumOver(Squares(f), S) + (2 * k * c) * SumOver(f, S) + (c * c) * Cardinality(S)
  <2>1. \A x \in S : /\ Squares(f)[x] \in Int /\ f[x] \in Int
                     /\ Squares(h)[x] = (k * k) * Squares(f)[x] + (2 * k * c) * f[x] + (c * c)
    <3> SUFFICES ASSUME NEW x \in S
                 PROVE  /\ Squares(f)[x] \in Int /\ f[x] \in Int
                        /\ Squares(h)[x] = (k * k) * Squares(f)[x] + (2 * k * c) * f[x] + (c * c)
      OBVIOUS
    <3>1. Squares(f)[x] = f[x] * f[x] /\ Squares(h)[x] = h[x] * h[x] /\ h[x] = k * f[x] + c /\ f[x] \in Int
      BY <1>1 DEF Squares, Linear
    <3>2. ASSUME NEW v \in Int PROVE (k * v + c) * (k * v + c) = (k * k) * (v * v) + (2 * k * c) * v + (c * c)
      OBVIOUS
    <3> QED
      BY <3>1, <3>2
  <2> DEFINE a == k * k
             b == 2 * k * c
             d == c * c
  <2>2. a \in Int /\ b \in Int /\ d \in Int
    OBVIOUS
  <2>3. \A x \in S : /\ Squares(f)[x] \in Int /\ f[x] \in Int
                     /\ Squares(h)[x] = a * Squares(f)[x] + b * f[x] + d
    BY <2>1
  <2> HIDE DEF S, a, b, d
  <2>4. SumOver(Squares(h), S) = a * SumOver(Squares(f), S) + b * SumOver(f, S) + d * Cardinality(S)
    <3>1. Combines(Squares(h), a, Squares(f), b, f, d, S)
      BY <2>3 DEF Combines
    <3> QED
      BY <1>1, <2>2, <3>1, SumOfCombination
  <2> QED
    BY <2>4 DEF a, b, d
<1> QED
  BY <1>2, <1>3 DEF Linear, Total, Number

LEMMA SpreadOfLinear ==
    ASSUME NEW n \in Nat, NEW t \in Int, NEW q \in Int, NEW k \in Nat, NEW c \in Int
    PROVE  n * ((k * k) * q + (2 * k * c) * t + (c * c) * n) - (k * t + c * n) * (k * t + c * n)
             = (k * k) * (n * q - t * t)
OBVIOUS

LEMMA RiseOfLinear ==
    ASSUME NEW n \in Nat, NEW t \in Int, NEW m \in Nat, NEW u \in Int, NEW k \in Nat, NEW c \in Int
    PROVE  (k * u + c * m) * n - (k * t + c * n) * m = k * (u * n - t * m)
OBVIOUS

LEMMA Scaled ==
    ASSUME NEW a \in Int, NEW b \in Int, NEW k \in Nat, k > 0
    PROVE  /\ (k * a >= k * b) <=> (a >= b)
           /\ (k * a > 0) <=> (a > 0)
<1>1. ASSUME a >= b PROVE k * a >= k * b
  BY <1>1
<1>2. ASSUME a < b PROVE k * a < k * b
  <2>1. b - a \in Nat /\ b - a > 0
    BY <1>2
  <2>2. k * (b - a) > 0
    <3> DEFINE d == b - a
    <3> HIDE DEF d
    <3> QED
      BY <2>1, Positive DEF d
  <2> QED
    BY <2>2
<1>3. ASSUME a > 0 PROVE k * a > 0
  BY <1>3, Positive
<1>4. ASSUME a <= 0 PROVE k * a <= 0
  BY <1>4
<1> QED
  BY <1>1, <1>2, <1>3, <1>4

\* A comparison of values made of others compares like them.
LEMMA LinearShift ==
    ASSUME NEW f, IsData(f), NEW g, IsData(g), NEW F, IsData(F), NEW G, IsData(G),
           NEW k \in Nat, k > 0, NEW c \in Int, Linear(f, F, k, c), Linear(g, G, k, c), NEW n \in Nat
    PROVE  /\ Comparable(F, G, n) <=> Comparable(f, g, n)
           /\ (Rise(F, G) > 0) <=> (Rise(f, g) > 0)
           /\ Comparable(f, g, n) =>
                 /\ Varies(Stat(F, n)) <=> Varies(Stat(f, n))
                 /\ Varies(Stat(f, n)) =>
                       (Beyond(Delta(F, G), Stat(F, n), 2) <=> Beyond(Delta(f, g), Stat(f, n), 2))
           /\ k = 1 => Rise(F, G) = Rise(f, g) /\ Delta(F, G) = Delta(f, g)
<1> DEFINE a == Number(f)
           b == Number(g)
           t == Total(f)
           u == Total(g)
           q == SumOver(Squares(f), Known(f))
           r == Rise(f, g)
           kk == k * k
<1>1. a \in Nat /\ b \in Nat /\ t \in Int /\ u \in Int
  BY 0 \in Nat, StatParts
<1>2. /\ Number(F) = a /\ Number(G) = b
      /\ Total(F) = k * t + c * a /\ Total(G) = k * u + c * b
      /\ SumOver(Squares(F), Known(F)) = (k * k) * q + (2 * k * c) * t + (c * c) * a
  BY LinearSums
<1>3. Comparable(F, G, n) <=> Comparable(f, g, n)
  BY <1>2 DEF Comparable, Linear
<1>4. Rise(F, G) = k * r /\ r \in Int
  <2> HIDE DEF a, b, t, u
  <2>1. r = u * a - t * b
    BY DEF Rise, a, b, t, u
  <2>2. Rise(F, G) = (k * u + c * b) * a - (k * t + c * a) * b
    BY <1>2 DEF Rise
  <2> HIDE DEF r
  <2> QED
    BY <1>1, <2>1, <2>2, RiseOfLinear
<1>5. (Rise(F, G) > 0) <=> (r > 0)
  <2> HIDE DEF r
  <2> QED
    BY <1>4, Scaled, 0 \in Int
<1>6. Delta(F, G).num = k * r /\ Delta(F, G).den = b * a /\ Delta(f, g).num = r /\ Delta(f, g).den = b * a
  BY <1>2, <1>4 DEF Delta
<1>7. k = 1 => Rise(F, G) = r /\ Delta(F, G) = Delta(f, g)
  <2> HIDE DEF r, a, b
  <2>1. k = 1 => Rise(F, G) = r
    BY <1>4
  <2> QED
    BY <1>2, <2>1 DEF Delta, r, a, b
<1>8. ASSUME Comparable(f, g, n)
      PROVE  /\ Varies(Stat(F, n)) <=> Varies(Stat(f, n))
             /\ Varies(Stat(f, n)) =>
                       (Beyond(Delta(F, G), Stat(F, n), 2) <=> Beyond(Delta(f, g), Stat(f, n), 2))
  <2> DEFINE s == Stat(f, n)
             z == Stat(F, n)
             w == Spread(s)
             d == b * a
  <2>1. s.count = a /\ s.sum = t /\ s.squares = q /\ q \in Int
    <3>1. Known(f) # {}
      BY <1>8 DEF Comparable
    <3> QED
      BY <3>1, StatParts DEF Statistics
  <2>2. z.count = a /\ z.sum = k * t + c * a /\ z.squares = (k * k) * q + (2 * k * c) * t + (c * c) * a
    <3>1. Known(F) # {}
      BY <1>8 DEF Comparable, Linear
    <3> QED
      BY <1>2, <3>1, StatParts
  <2>3. w = a * q - t * t /\ w \in Int /\ Spread(z) = kk * w
    <3> HIDE DEF s, z, a, t, q
    <3>1. w = a * q - t * t
      BY <2>1 DEF Spread
    <3>2. Spread(z) = a * ((k * k) * q + (2 * k * c) * t + (c * c) * a) - (k * t + c * a) * (k * t + c * a)
      BY <2>2 DEF Spread
    <3> HIDE DEF w
    <3> QED
      BY <1>1, <2>1, <3>1, <3>2, SpreadOfLinear
  <2>4. kk \in Nat /\ kk > 0
    BY Positive
  <2>5. Varies(z) <=> Varies(s)
    <3> HIDE DEF w, kk
    <3>1. Spread(z) > 0 <=> w > 0
      BY <2>3, <2>4, Scaled, 0 \in Int
    <3> QED
      BY <2>1, <2>2, <3>1 DEF Varies, w
  <2>6. ASSUME Varies(s) PROVE Beyond(Delta(F, G), z, 2) <=> Beyond(Delta(f, g), s, 2)
    <3> DEFINE left == r * r * a * (a - 1)
               right == 2 * 2 * w * d * d
    <3>1. left \in Int /\ right \in Int /\ d \in Int
      <4> HIDE DEF r, a, b, w
      <4> QED
        BY <1>1, <1>4, <2>3
    <3>2. (k * r) * (k * r) * a * (a - 1) = kk * left
      <4> HIDE DEF r, a
      <4> QED
        BY <1>1, <1>4
    <3>3. 2 * 2 * (kk * w) * d * d = kk * right
      <4> HIDE DEF w, d, kk
      <4> QED
        BY <2>3, <2>4, <3>1
    <3>4. Beyond(Delta(f, g), s, 2) <=> left >= right
      <4>1. Beyond(Delta(f, g), s, 2) <=>
              Delta(f, g).num * Delta(f, g).num * s.count * (s.count - 1)
                >= 2 * 2 * Spread(s) * Delta(f, g).den * Delta(f, g).den
        BY <2>6 DEF Beyond
      <4> HIDE DEF s, z, w, a, b, r
      <4> QED
        BY <1>6, <2>1, <4>1 DEF w
    <3>5. Beyond(Delta(F, G), z, 2) <=> kk * left >= kk * right
      <4>1. Beyond(Delta(F, G), z, 2) <=>
              Delta(F, G).num * Delta(F, G).num * z.count * (z.count - 1)
                >= 2 * 2 * Spread(z) * Delta(F, G).den * Delta(F, G).den
        BY <2>5, <2>6 DEF Beyond
      <4>2. Beyond(Delta(F, G), z, 2) <=> (k * r) * (k * r) * a * (a - 1) >= 2 * 2 * (kk * w) * d * d
        <5> HIDE DEF s, z, w, a, b, r, kk
        <5> QED
          BY <1>6, <2>2, <2>3, <4>1
      <4> HIDE DEF left, right, kk, w, r, a, d, s, z
      <4> QED
        BY <3>2, <3>3, <4>2
    <3> HIDE DEF left, right, kk, s, z
    <3> QED
      BY <2>4, <3>1, <3>4, <3>5, Scaled
  <2> QED
    BY <2>5, <2>6
<1> QED
  BY <1>3, <1>5, <1>7, <1>8

-----------------------------------------------------------------------------
\* THE ANALYSES: THE HISTORY

Session(u, a, p) ==
    [id |-> u, workload |-> a, from |-> u, to |-> u + 1, cpu |-> p.cpu, gpu |-> p.gpu,
     network |-> p.network, zones |-> p.zones, incidents |-> p.incidents, worst |-> p.worst]

\* One session at a time, of one unit each, and one course of the resting temperature.
HistoryInv ==
    /\ unit \in Nat /\ unit <= LastUnit
    /\ IsFiniteSet(recorded)
    /\ \A s \in recorded : \E u \in 0 .. unit - 1, a \in Apps : \E p \in Profiles[a] : s = Session(u, a, p)
    /\ \A s, t \in recorded : s.from = t.from => s = t
    /\ \E c \in Courses : resting = c.resting /\ planned = c.changes

LEMMA HistoryInit_Inv == HistoryInit => HistoryInv
<1> SUFFICES ASSUME HistoryInit PROVE HistoryInv
  OBVIOUS
<1>1. unit = 0 /\ recorded = {} /\ \E c \in Courses : resting = c.resting /\ planned = c.changes
  BY DEF HistoryInit
<1>2. IsFiniteSet(recorded)
  BY <1>1, FS_EmptySet
<1> QED
  BY <1>1, <1>2, HistoryConstants DEF HistoryInv

LEMMA HistoryNext_Inv == HistoryInv /\ HistoryNext => HistoryInv'
<1> SUFFICES ASSUME HistoryInv, HistoryNext PROVE HistoryInv'
  OBVIOUS
<1>1. CASE Rest
  <2>1. /\ unit < LastUnit /\ unit' = unit + 1 /\ recorded' = recorded
        /\ resting' = resting /\ planned' = planned
    BY <1>1 DEF Rest
  <2>2. unit' \in Nat /\ unit' <= LastUnit
    BY <2>1, HistoryConstants DEF HistoryInv
  <2>3. ASSUME NEW s \in recorded
        PROVE  \E u \in 0 .. unit' - 1, a \in Apps : \E p \in Profiles[a] : s = Session(u, a, p)
    <3>1. PICK u \in 0 .. unit - 1, a \in Apps : \E p \in Profiles[a] : s = Session(u, a, p)
      BY DEF HistoryInv
    <3>2. u \in 0 .. unit' - 1
      BY <2>1 DEF HistoryInv
    <3> QED
      BY <3>1, <3>2
  <2> QED
    BY <2>1, <2>2, <2>3 DEF HistoryInv
<1>2. CASE \E a \in Apps : \E p \in Profiles[a] : SessionEnds(a, p)
  <2>1. PICK a \in Apps : \E p \in Profiles[a] : SessionEnds(a, p)
    BY <1>2
  <2>2. PICK p \in Profiles[a] : SessionEnds(a, p)
    BY <2>1
  <2>3. /\ unit < LastUnit /\ unit' = unit + 1 /\ recorded' = recorded \cup {Session(unit, a, p)}
        /\ resting' = resting /\ planned' = planned
    BY <2>2 DEF SessionEnds, Session
  <2>4. unit' \in Nat /\ unit' <= LastUnit
    BY <2>3, HistoryConstants DEF HistoryInv
  <2>5. ASSUME NEW s \in recorded'
        PROVE  \E u \in 0 .. unit' - 1, b \in Apps : \E q \in Profiles[b] : s = Session(u, b, q)
    <3>1. CASE s \in recorded
      <4>1. PICK u \in 0 .. unit - 1, b \in Apps : \E q \in Profiles[b] : s = Session(u, b, q)
        BY <3>1 DEF HistoryInv
      <4>2. u \in 0 .. unit' - 1
        BY <2>3 DEF HistoryInv
      <4> QED
        BY <4>1, <4>2
    <3>2. CASE s = Session(unit, a, p)
      <4>1. unit \in 0 .. unit' - 1
        BY <2>3 DEF HistoryInv
      <4> QED
        BY <3>2, <4>1
    <3> QED
      BY <2>3, <3>1, <3>2
  <2>6. IsFiniteSet(recorded')
    BY <2>3, FS_AddElement DEF HistoryInv
  <2>7. ASSUME NEW s \in recorded', NEW t \in recorded', s.from = t.from PROVE s = t
    <3>1. \A r \in recorded : r.from \in 0 .. unit - 1
      BY DEF HistoryInv, Session
    <3>2. Session(unit, a, p).from = unit /\ unit \notin 0 .. unit - 1
      BY DEF HistoryInv, Session
    <3> QED
      BY <2>3, <2>7, <3>1, <3>2 DEF HistoryInv
  <2>8. \E c \in Courses : resting' = c.resting /\ planned' = c.changes
    BY <2>3 DEF HistoryInv
  <2> QED
    BY <2>4, <2>5, <2>6, <2>7, <2>8 DEF HistoryInv
<1> QED
  BY <1>1, <1>2 DEF HistoryNext

-----------------------------------------------------------------------------
\* THE ANALYSES: SESSIONS

\* What the analyses need to know of a session.
IsSession(s) ==
    /\ s.from \in Nat /\ s.id = s.from /\ s.to = s.from + 1
    /\ {s.cpu.temp, s.cpu.power, s.gpu.core, s.gpu.hotspot, s.gpu.power, s.network}
          \subseteq Int \cup {None}
    /\ s.gpu.power # None /\ s.gpu.power > 0 =>
           EfficiencyScale = s.gpu.power * (EfficiencyScale \div s.gpu.power)
    /\ IsFiniteSet(s.zones)
    /\ \A z \in s.zones : z.zone \in {"YELLOW", "ORANGE", "RED"} /\ z.percent \in 0 .. 100
    /\ s.incidents \in Nat

AreSessions(S) ==
    /\ IsFiniteSet(S)
    /\ \A s \in S : IsSession(s)

LEMMA ProfileSession ==
    ASSUME NEW u \in Nat, NEW a, NEW p, IsProfile(p) PROVE IsSession(Session(u, a, p))
BY DEF IsProfile, IsSession, Session

LEMMA RecordedAreSessions ==
    ASSUME HistoryInv
    PROVE  AreSessions(recorded) /\ \A s \in recorded : s.from < unit /\ s.workload \in Apps
<1>1. ASSUME NEW s \in recorded PROVE IsSession(s) /\ s.from < unit /\ s.workload \in Apps
  <2>1. PICK u \in 0 .. unit - 1, a \in Apps : \E p \in Profiles[a] : s = Session(u, a, p)
    BY DEF HistoryInv
  <2>2. PICK p \in Profiles[a] : s = Session(u, a, p)
    BY <2>1
  <2>3. IsProfile(p)
    BY HistoryConstants
  <2>4. s.from = u /\ s.workload = a
    BY <2>2 DEF Session
  <2>5. u \in Nat /\ u < unit
    BY DEF HistoryInv
  <2> QED
    BY <2>2, <2>3, <2>4, <2>5, ProfileSession
<1> QED
  BY <1>1 DEF AreSessions, HistoryInv

LEMMA SomeSessions ==
    ASSUME NEW S, AreSessions(S), NEW T, T \subseteq S PROVE AreSessions(T)
BY FS_Subset DEF AreSessions

AllMetrics == Metrics \cup {"delta", "efficiency"}

LEMMA MeasuredType ==
    ASSUME NEW s, IsSession(s), NEW m \in AllMetrics
    PROVE  Measured(m, s) \in Int \cup {None}
<1>1. CASE m \in Metrics
  BY <1>1 DEF Metrics, Measured, IsSession
<1>2. CASE m = "delta"
  <2>1. Measured(m, s) = IF s.gpu.hotspot = None \/ s.gpu.core = None THEN None
                         ELSE s.gpu.hotspot - s.gpu.core
    BY <1>2 DEF Measured
  <2> QED
    BY <2>1 DEF IsSession
<1>3. CASE m = "efficiency"
  <2>1. Measured(m, s) = Efficiency(s.gpu.hotspot, s.gpu.power)
    BY <1>3 DEF Measured
  <2>2. EfficiencyScale \in Nat
    BY AnalyticsConstants
  <2>3. ASSUME NEW t \in Int, NEW p \in Int, p >= 1 PROVE (t * EfficiencyScale) \div p \in Int
    BY <2>2, <2>3
  <2> QED
    BY <2>1, <2>3 DEF IsSession, Efficiency
<1> QED
  BY <1>1, <1>2, <1>3 DEF AllMetrics

LEMMA LeastType ==
    ASSUME NEW m \in AllMetrics PROVE IsLeast(Least(m))
BY DEF AllMetrics, Metrics, Least, LeastDegrees, LeastWatts, LeastMbps, IsLeast

LEMMA ValuesAreData ==
    ASSUME NEW S, AreSessions(S), NEW m \in AllMetrics
    PROVE  /\ IsData(ValuesOf(m, S)) /\ DOMAIN ValuesOf(m, S) = S
           /\ Known(ValuesOf(m, S)) = {s \in S : Measured(m, s) # None}
           /\ \A s \in S : ValuesOf(m, S)[s] = Measured(m, s)
<1>1. \A s \in S : Measured(m, s) \in Int \cup {None}
  BY MeasuredType DEF AreSessions
<1> QED
  BY <1>1 DEF ValuesOf, IsData, Known, AreSessions

-----------------------------------------------------------------------------
\* THE ANALYSES: SCORES

\* What one session is compared with.
LEMMA AgainstParts ==
    ASSUME NEW s, IsSession(s), NEW S, AreSessions(S), NEW m \in AllMetrics
    PROVE  LET f == ValuesOf(m, S)
               v == Measured(m, s)
               b == Stat(f, MinSamples)
               a == AgainstOthers(s, S, m)
               d == [num |-> v * Number(f) - Total(f), den |-> Number(f)]
           IN  /\ (v = None \/ Known(f) = {} \/ Number(f) < MinSamples) => a = None
               /\ ~(v = None \/ Known(f) = {} \/ Number(f) < MinSamples) =>
                     /\ a = Judged(d, b, Least(m)) /\ a # None /\ a.delta = d
                     /\ v \in Int /\ d \in Fractions /\ d.den > 0 /\ b \in Statistics
<1> DEFINE f == ValuesOf(m, S)
           v == Measured(m, s)
           b == Stat(f, MinSamples)
           a == AgainstOthers(s, S, m)
           d == [num |-> v * Number(f) - Total(f), den |-> Number(f)]
<1>1. IsData(f) /\ v \in Int \cup {None} /\ MinSamples \in Nat
  BY ValuesAreData, MeasuredType, AnalyticsConstants
<1>2. a = Anomaly(IF v = None THEN None ELSE Exactly(v), b, Least(m))
  BY DEF AgainstOthers
<1>3. /\ Number(f) \in Nat /\ Total(f) \in Int
      /\ Number(f) = 0 <=> Known(f) = {}
      /\ Known(f) = {} => b = None
      /\ Known(f) # {} => /\ b # None /\ b \in Statistics /\ b.count = Number(f) /\ b.sum = Total(f)
                          /\ b.established = (Number(f) >= MinSamples)
  <2> HIDE DEF f
  <2> QED
    BY <1>1, StatParts
<1> HIDE DEF f, v, b, a
<1>4. CASE v = None \/ Known(f) = {} \/ Number(f) < MinSamples
  <2>1. v = None \/ b = None \/ ~b.established
    <3> DEFINE enough == Number(f) >= MinSamples
    <3>1. Known(f) # {} /\ ~(v = None) => ~enough
      BY <1>1, <1>3, <1>4
    <3>2. Known(f) # {} => b.established = enough
      BY <1>3
    <3> HIDE DEF enough
    <3> QED
      BY <1>3, <3>1, <3>2, Zenon
  <2>2. a = None
    BY <1>2, <2>1 DEF Anomaly
  <2> QED
    BY <1>4, <2>2 DEF f, v, a
<1>5. CASE ~(v = None \/ Known(f) = {} \/ Number(f) < MinSamples)
  <2>1. v \in Int /\ Exactly(v) # None
    <3>1. v \in Int
      BY <1>1, <1>5
    <3>2. Exactly(v) \in Fractions
      BY <3>1 DEF Exactly, Fractions
    <3> QED
      BY <3>1, <3>2, NoneIsApart
  <2>2. b # None /\ b.established
    <3> DEFINE enough == Number(f) >= MinSamples
    <3>1. enough
      BY <1>1, <1>3, <1>5
    <3>2. b # None /\ b.established = enough
      BY <1>3, <1>5
    <3> HIDE DEF enough
    <3> QED
      BY <3>1, <3>2, Zenon
  <2>3. Difference(Exactly(v), Mean(b)) = d
    <3>1. Difference(Exactly(v), Mean(b)) = [num |-> v * b.count - b.sum * 1, den |-> 1 * b.count]
      BY DEF Difference, Exactly, Mean
    <3> QED
      BY <1>3, <1>5, <2>1, <3>1
  <2>4. a = Judged(d, b, Least(m))
    BY <1>2, <1>5, <2>1, <2>2, <2>3 DEF Anomaly
  <2>5. d \in Fractions /\ d.den > 0
    BY <1>3, <1>5, <2>1 DEF Fractions
  <2>6. a.delta = d /\ a # None
    <3>1. a \in Anomalies
      <4> DEFINE un == IF Varies(b) THEN Beyond(d, b, 2)
                       ELSE Least(m) # None /\ Abs(d.num) >= Least(m) * d.den
                 st == Beyond(d, b, 3)
      <4>1. un \in BOOLEAN /\ st \in BOOLEAN
        BY BeyondType
      <4>2. a = [delta |-> d, unusual |-> un, strong |-> st]
        BY <2>4 DEF Judged
      <4> HIDE DEF un, st, d
      <4> QED
        BY <2>5, <4>1, <4>2 DEF Anomalies
    <3>2. a.delta = d
      <4> HIDE DEF d
      <4> QED
        BY <2>4 DEF Judged
    <3> QED
      BY <3>1, <3>2, NoneIsApart
  <2> QED
    BY <1>3, <1>5, <2>1, <2>4, <2>5, <2>6 DEF f, v, b, a
<1> QED
  BY <1>4, <1>5

\* Two sessions that measured the same are compared with the same, apart from the network.
LEMMA SameAgainst ==
    ASSUME NEW P, AreSessions(P), NEW s \in P, NEW t \in P, s.cpu = t.cpu, s.gpu = t.gpu,
           NEW m \in AllMetrics \ {"network"}
    PROVE  AgainstOthers(s, P \ {s}, m) = AgainstOthers(t, P \ {t}, m)
<1>1. Measured(m, s) = Measured(m, t)
  BY DEF AllMetrics, Metrics, Measured
<1>2. CASE s = t
  BY <1>2
<1>3. CASE s # t
  <2> DEFINE f == ValuesOf(m, P \ {s})
             g == ValuesOf(m, P \ {t})
             phi == [x \in Known(f) |-> IF x = t THEN s ELSE x]
  <2>1. /\ IsData(f) /\ IsData(g)
        /\ Known(f) = {x \in P \ {s} : Measured(m, x) # None}
        /\ Known(g) = {x \in P \ {t} : Measured(m, x) # None}
        /\ \A x \in P \ {s} : f[x] = Measured(m, x)
        /\ \A x \in P \ {t} : g[x] = Measured(m, x)
    <3>1. ASSUME NEW r \in P
          PROVE  /\ IsData(ValuesOf(m, P \ {r}))
                 /\ Known(ValuesOf(m, P \ {r})) = {x \in P \ {r} : Measured(m, x) # None}
                 /\ \A x \in P \ {r} : ValuesOf(m, P \ {r})[x] = Measured(m, x)
      <4> DEFINE R == P \ {r}
      <4>1. AreSessions(R) /\ m \in AllMetrics
        BY SomeSessions
      <4> HIDE DEF R
      <4>2. /\ IsData(ValuesOf(m, R))
            /\ Known(ValuesOf(m, R)) = {x \in R : Measured(m, x) # None}
            /\ \A x \in R : ValuesOf(m, R)[x] = Measured(m, x)
        BY <4>1, ValuesAreData
      <4> QED
        BY <4>2 DEF R
    <3> QED
      BY <3>1
  <2> HIDE DEF f, g
  <2>2. phi \in Bijection(Known(f), Known(g))
    <3>1. phi \in [Known(f) -> Known(g)]
      BY <1>1, <1>3, <2>1
    <3>2. \A x, y \in Known(f) : phi[x] = phi[y] => x = y
      BY <1>1, <1>3, <2>1
    <3>3. \A y \in Known(g) : \E x \in Known(f) : phi[x] = y
      <4> SUFFICES ASSUME NEW y \in Known(g) PROVE \E x \in Known(f) : phi[x] = y
        OBVIOUS
      <4>1. CASE y = s
        BY <1>1, <1>3, <2>1, <4>1
      <4>2. CASE y # s
        BY <1>1, <1>3, <2>1, <4>2
      <4> QED
        BY <4>1, <4>2
    <3> HIDE DEF phi
    <3> QED
      BY <3>1, <3>2, <3>3 DEF Bijection, Injection, Surjection, IsInjective
  <2>3. \A x \in Known(f) : g[phi[x]] = f[x]
    BY <1>1, <1>3, <2>1
  <2>4. Stat(g, MinSamples) = Stat(f, MinSamples)
    <3>1. MinSamples \in Nat
      BY AnalyticsConstants
    <3> HIDE DEF phi
    <3> QED
      BY <2>1, <2>2, <2>3, <3>1, SameStat
  <2> QED
    BY <1>1, <2>4 DEF f, g, AgainstOthers
<1> QED
  BY <1>2, <1>3

\* The sum of what the zones of a session weigh.
LEMMA SumOfZones ==
    ASSUME NEW S, NEW h, h = [z \in S |-> z.percent * ZoneWeight(z.zone)]
    PROVE  MapThenSumSet(LAMBDA z : z.percent * ZoneWeight(z.zone), S) = SumOver(h, S)
<1> DEFINE Full(g) == g = [s \in SUBSET S |-> IF s = {} THEN 0 ELSE h[Pick(s)] + g[s \ {Pick(s)}]]
           Plain(g) == g = [s \in SUBSET S |->
                              IF s = {} THEN 0
                              ELSE (Pick(s).percent * ZoneWeight(Pick(s).zone)) + g[s \ {Pick(s)}]]
<1>1. ASSUME NEW g PROVE Full(g) <=> Plain(g)
  <2>1. \A s \in SUBSET S : s # {} => h[Pick(s)] = Pick(s).percent * ZoneWeight(Pick(s).zone)
    BY PickIsIn
  <2> QED
    BY <2>1
<1>2. (CHOOSE g : Full(g)) = (CHOOSE g : Plain(g))
  BY <1>1
<1>3. SumOver(h, S) = (CHOOSE g : Full(g))[S]
  <2> DEFINE k == [x \in S |-> h[x]]
  <2>1. k = h /\ DOMAIN h = S
    OBVIOUS
  <2>2. SumOver(h, S) = SumOf(h)
    BY <2>1 DEF SumOver
  <2> QED
    BY <2>1, <2>2 DEF SumOf, MapThenSumSet, MapThenFoldSet, Pick
<1>4. MapThenSumSet(LAMBDA z : z.percent * ZoneWeight(z.zone), S) = (CHOOSE g : Plain(g))[S]
  BY DEF MapThenSumSet, MapThenFoldSet, Pick
<1> QED
  BY <1>2, <1>3, <1>4

LEMMA ZonePointsType == ASSUME NEW s, IsSession(s) PROVE ZonePoints(s) \in Int
<1> DEFINE h == [z \in s.zones |-> z.percent * ZoneWeight(z.zone)]
<1>1. \A z \in s.zones : h[z] \in Int
  BY DEF IsSession, ZoneWeight
<1>2. SumOver(h, s.zones) \in Int
  <2> HIDE DEF h
  <2> QED
    BY <1>1, SumIsInteger DEF IsSession
<1>3. ZonePoints(s) = SumOver(h, s.zones) \div 100
  BY SumOfZones DEF ZonePoints
<1> HIDE DEF h
<1> QED
  BY <1>2, <1>3

LEMMA MetricsAreFew == IsFiniteSet(Metrics) /\ Metrics \subseteq AllMetrics
<1>1. Metrics = {"cpu.temp", "cpu.power"} \cup {"gpu.core", "gpu.hotspot"} \cup {"gpu.power", "network"}
  BY DEF Metrics
<1>2. /\ IsFiniteSet({"cpu.temp", "cpu.power"}) /\ IsFiniteSet({"gpu.core", "gpu.hotspot"})
      /\ IsFiniteSet({"gpu.power", "network"})
  <2>1. ASSUME NEW a, NEW b PROVE IsFiniteSet({a, b})
    <3>1. {a, b} = {a} \cup {b} /\ IsFiniteSet({a}) /\ IsFiniteSet({b})
      BY FS_Singleton
    <3>2. IsFiniteSet({a} \cup {b})
      BY <3>1, FS_Union
    <3> QED
      BY <3>1, <3>2
  <2> QED
    BY <2>1
<1>3. IsFiniteSet({"cpu.temp", "cpu.power"} \cup {"gpu.core", "gpu.hotspot"})
  BY <1>2, FS_Union
<1> QED
  BY <1>1, <1>2, <1>3, FS_Union DEF AllMetrics

LEMMA DiagnosesAreFew == ASSUME NEW s, NEW S PROVE IsFiniteSet(Diagnoses(s, S))
<1>1. ASSUME NEW X, NEW x, X \subseteq {x} PROVE IsFiniteSet(X)
  BY <1>1, FS_Singleton, FS_Subset
<1>2. \A d, p : IsFiniteSet(GpuCoolingPattern(d, p))
  BY <1>1 DEF GpuCoolingPattern
<1>3. \A aspect, d, p : IsFiniteSet(TempVsPower(aspect, d, p))
  BY <1>1 DEF TempVsPower
<1> QED
  BY <1>2, <1>3, FS_Union DEF Diagnoses

\* The points the findings cost.
LEMMA PointsType ==
    ASSUME NEW s, NEW S
    PROVE  /\ PointsFor(Diagnoses(s, S)) \in Int
           /\ Cardinality(UnusualMetrics(s, S) \ {"network"}) \in Int
<1>1. IsFiniteSet(Diagnoses(s, S)) /\ IsFiniteSet(UnusualMetrics(s, S) \ {"network"})
  <2>1. UnusualMetrics(s, S) \ {"network"} \subseteq Metrics
    BY DEF UnusualMetrics
  <2> QED
    BY <2>1, DiagnosesAreFew, MetricsAreFew, FS_Subset
<1>2. IsFiniteSet({f \in Diagnoses(s, S) : f.confidence = "HIGH"})
  BY <1>1, FS_Subset
<1>3. /\ Cardinality(Diagnoses(s, S)) \in Nat
      /\ Cardinality({f \in Diagnoses(s, S) : f.confidence = "HIGH"}) \in Nat
      /\ Cardinality(UnusualMetrics(s, S) \ {"network"}) \in Nat
  BY <1>1, <1>2, FS_CardinalityType
<1> QED
  BY <1>3 DEF PointsFor

LEMMA IncidentPointsType ==
    ASSUME NEW s, IsSession(s) PROVE IncidentWeight(s.worst) \in Int /\ s.incidents \in Int
BY DEF IsSession, IncidentWeight

\* Sessions whose findings are the same score by their zones and incidents.
LEMMA ScoresOrder ==
    ASSUME NEW s, IsSession(s), NEW t, IsSession(t), NEW P, NEW Q,
           UnusualMetrics(s, P \ {s}) \ {"network"} = UnusualMetrics(t, Q \ {t}) \ {"network"},
           Diagnoses(s, P \ {s}) = Diagnoses(t, Q \ {t}),
           ZonePoints(s) <= ZonePoints(t),
           s.incidents * IncidentWeight(s.worst) <= t.incidents * IncidentWeight(t.worst)
    PROVE  HealthScore(s, P) >= HealthScore(t, Q)
<1> DEFINE u == 3 * Cardinality(UnusualMetrics(s, P \ {s}) \ {"network"})
           d == PointsFor(Diagnoses(s, P \ {s}))
           zs == ZonePoints(s)
           zt == ZonePoints(t)
           is == IncidentWeight(s.worst) * s.incidents
           it == IncidentWeight(t.worst) * t.incidents
<1>1. u \in Int /\ d \in Int
  <2> DEFINE n == Cardinality(UnusualMetrics(s, P \ {s}) \ {"network"})
  <2>1. n \in Int /\ d \in Int
    BY PointsType
  <2> HIDE DEF n, d
  <2>2. 3 * n \in Int
    BY <2>1
  <2> QED
    BY <2>1, <2>2 DEF n
<1>2. zs \in Int /\ zt \in Int /\ zs <= zt
  BY ZonePointsType
<1>3. is \in Int /\ it \in Int /\ is <= it
  BY IncidentPointsType
<1>4. HealthScore(s, P) = IF zs + is + u + d > 100 THEN 0 ELSE 100 - (zs + is + u + d)
  BY DEF HealthScore
<1>5. HealthScore(t, Q) = IF zt + it + u + d > 100 THEN 0 ELSE 100 - (zt + it + u + d)
  BY DEF HealthScore
<1> HIDE DEF u, d, zs, zt, is, it
<1> QED
  BY <1>1, <1>2, <1>3, <1>4, <1>5

LEMMA ScoreType ==
    ASSUME NEW s, IsSession(s), NEW P PROVE HealthScore(s, P) \in Int
<1> DEFINE u == 3 * Cardinality(UnusualMetrics(s, P \ {s}) \ {"network"})
           d == PointsFor(Diagnoses(s, P \ {s}))
           zs == ZonePoints(s)
           is == IncidentWeight(s.worst) * s.incidents
<1>1. u \in Int /\ d \in Int /\ zs \in Int /\ is \in Int
  <2> DEFINE n == Cardinality(UnusualMetrics(s, P \ {s}) \ {"network"})
             w == IncidentWeight(s.worst)
  <2>1. n \in Int /\ d \in Int /\ zs \in Int /\ w \in Int /\ s.incidents \in Int
    <3>1. n \in Int /\ d \in Int
      BY PointsType
    <3>2. zs \in Int /\ w \in Int /\ s.incidents \in Int
      BY ZonePointsType, IncidentPointsType
    <3> QED
      BY <3>1, <3>2
  <2> HIDE DEF n, d, zs, w
  <2>2. 3 * n \in Int /\ w * s.incidents \in Int
    BY <2>1
  <2> QED
    BY <2>1, <2>2 DEF n, w
<1>2. HealthScore(s, P) = IF zs + is + u + d > 100 THEN 0 ELSE 100 - (zs + is + u + d)
  BY DEF HealthScore
<1> HIDE DEF u, d, zs, is
<1> QED
  BY <1>1, <1>2

LEMMA SameFindings ==
    ASSUME NEW s, NEW t, NEW P, NEW Q,
           \A m \in AllMetrics \ {"network"} : AgainstOthers(s, P, m) = AgainstOthers(t, Q, m)
    PROVE  /\ UnusualMetrics(s, P) \ {"network"} = UnusualMetrics(t, Q) \ {"network"}
           /\ Diagnoses(s, P) = Diagnoses(t, Q)
<1>1. UnusualMetrics(s, P) \ {"network"} = UnusualMetrics(t, Q) \ {"network"}
  BY MetricsAreFew DEF UnusualMetrics
<1>2. {"delta", "gpu.power", "cpu.temp", "cpu.power", "gpu.core"} \subseteq AllMetrics \ {"network"}
  BY DEF AllMetrics, Metrics
<1>3. Diagnoses(s, P) = Diagnoses(t, Q)
  BY <1>2 DEF Diagnoses
<1> QED
  BY <1>1, <1>3

LEMMA OwnScores ==
    ASSUME NEW S, NEW s \in S
    PROVE  HealthScores(S)[s] = HealthScore(s, Workload(S, s.workload)) /\ s \in Workload(S, s.workload)
BY DEF HealthScores, ScoreIn, Workload

\* Sessions that measured the same.
LEMMA MeasuredAlike ==
    ASSUME NEW S, AreSessions(S), NEW s \in S, NEW t \in S, s.workload = t.workload,
           s.cpu = t.cpu, s.gpu = t.gpu, ZonePoints(s) <= ZonePoints(t),
           s.incidents * IncidentWeight(s.worst) <= t.incidents * IncidentWeight(t.worst)
    PROVE  HealthScores(S)[s] >= HealthScores(S)[t]
<1> DEFINE P == Workload(S, s.workload)
<1>1. s \in P /\ t \in P /\ P \subseteq S
  BY DEF Workload
<1>2. AreSessions(P) /\ IsSession(s) /\ IsSession(t)
  BY <1>1, SomeSessions DEF AreSessions
<1> HIDE DEF P
<1>3. \A m \in AllMetrics \ {"network"} : AgainstOthers(s, P \ {s}, m) = AgainstOthers(t, P \ {t}, m)
  BY <1>1, <1>2, SameAgainst
<1>4. HealthScore(s, P) >= HealthScore(t, P)
  BY <1>2, <1>3, SameFindings, ScoresOrder
<1> QED
  BY <1>4, OwnScores DEF P

\* A session without what the network did.
Offline(s) == [s EXCEPT !.network = None]

LEMMA OfflineSession ==
    ASSUME HistoryInv, NEW s \in recorded
    PROVE  /\ Offline(s).id = s.id /\ Offline(s).workload = s.workload
           /\ Offline(s).cpu = s.cpu /\ Offline(s).gpu = s.gpu /\ Offline(s).zones = s.zones
           /\ Offline(s).incidents = s.incidents /\ Offline(s).worst = s.worst
           /\ IsSession(Offline(s))
<1>1. PICK u \in 0 .. unit - 1, a \in Apps : \E p \in Profiles[a] : s = Session(u, a, p)
  BY DEF HistoryInv
<1>2. PICK p \in Profiles[a] : s = Session(u, a, p)
  BY <1>1
<1>3. IsSession(s)
  BY RecordedAreSessions DEF AreSessions
<1>4. Offline(s) = [id |-> u, workload |-> a, from |-> u, to |-> u + 1, cpu |-> p.cpu, gpu |-> p.gpu,
                    network |-> None, zones |-> p.zones, incidents |-> p.incidents, worst |-> p.worst]
  BY <1>2 DEF Offline, Session
<1>5. /\ Offline(s).id = s.id /\ Offline(s).workload = s.workload /\ Offline(s).from = s.from
      /\ Offline(s).to = s.to /\ Offline(s).network = None
      /\ Offline(s).cpu = s.cpu /\ Offline(s).gpu = s.gpu /\ Offline(s).zones = s.zones
      /\ Offline(s).incidents = s.incidents /\ Offline(s).worst = s.worst
  BY <1>2, <1>4 DEF Session
<1>6. IsSession(Offline(s))
  BY <1>3, <1>5 DEF IsSession
<1> QED
  BY <1>5, <1>6

LEMMA OfflineIsOneToOne ==
    ASSUME HistoryInv, NEW s \in recorded, NEW t \in recorded, Offline(s) = Offline(t)
    PROVE  s = t
<1>1. s.id = t.id
  BY OfflineSession
<1>2. s.id = s.from /\ t.id = t.from
  BY RecordedAreSessions DEF AreSessions, IsSession
<1> QED
  BY <1>1, <1>2 DEF HistoryInv

LEMMA OfflineAreSessions ==
    ASSUME HistoryInv, NEW S, S \subseteq recorded
    PROVE  AreSessions({Offline(s) : s \in S})
<1> DEFINE T == {Offline(s) : s \in S}
           phi == [s \in S |-> Offline(s)]
<1>1. IsFiniteSet(S)
  BY FS_Subset DEF HistoryInv
<1>2. phi \in Surjection(S, T)
  BY DEF Surjection
<1>3. IsFiniteSet(T)
  <2> HIDE DEF T, phi
  <2> QED
    BY <1>1, <1>2, FS_Surjection
<1>4. \A t \in T : IsSession(t)
  BY OfflineSession
<1> QED
  BY <1>3, <1>4 DEF AreSessions

LEMMA OfflineAgainst ==
    ASSUME HistoryInv, NEW s \in recorded, NEW S, S \subseteq recorded,
           NEW m \in AllMetrics \ {"network"}
    PROVE  AgainstOthers(s, S, m) = AgainstOthers(Offline(s), {Offline(r) : r \in S}, m)
<1>1. \A r \in recorded : Measured(m, r) = Measured(m, Offline(r))
  BY OfflineSession DEF AllMetrics, Metrics, Measured
<1> DEFINE T == {Offline(r) : r \in S}
           f == ValuesOf(m, S)
           g == ValuesOf(m, T)
           phi == [r \in Known(f) |-> Offline(r)]
<1>2. /\ IsData(f) /\ Known(f) = {r \in S : Measured(m, r) # None}
      /\ \A r \in S : f[r] = Measured(m, r)
  <2>1. AreSessions(S)
    BY RecordedAreSessions, SomeSessions
  <2> QED
    BY <2>1, ValuesAreData
<1>3. /\ IsData(g) /\ Known(g) = {r \in T : Measured(m, r) # None}
      /\ \A r \in T : g[r] = Measured(m, r)
  <2>1. AreSessions(T)
    BY OfflineAreSessions
  <2> HIDE DEF T
  <2> QED
    BY <2>1, ValuesAreData
<1>4. phi \in Bijection(Known(f), Known(g))
  <2>1. phi \in [Known(f) -> Known(g)]
    <3> SUFFICES ASSUME NEW r \in Known(f) PROVE Offline(r) \in Known(g)
      OBVIOUS
    <3>1. r \in S /\ Measured(m, r) # None
      BY <1>2
    <3>2. Offline(r) \in T /\ Measured(m, Offline(r)) # None
      BY <1>1, <3>1
    <3> HIDE DEF T
    <3> QED
      BY <1>3, <3>2
  <2>2. \A x, y \in Known(f) : phi[x] = phi[y] => x = y
    <3> SUFFICES ASSUME NEW x \in Known(f), NEW y \in Known(f), phi[x] = phi[y] PROVE x = y
      OBVIOUS
    <3>1. x \in recorded /\ y \in recorded /\ Offline(x) = Offline(y)
      BY <1>2
    <3> QED
      BY <3>1, OfflineIsOneToOne
  <2>3. \A y \in Known(g) : \E x \in Known(f) : phi[x] = y
    <3> SUFFICES ASSUME NEW y \in Known(g) PROVE \E x \in Known(f) : phi[x] = y
      OBVIOUS
    <3>1. y \in T /\ Measured(m, y) # None
      <4> HIDE DEF T
      <4> QED
        BY <1>3
    <3>2. PICK x \in S : y = Offline(x)
      BY <3>1
    <3>3. x \in Known(f)
      BY <1>1, <1>2, <3>1, <3>2
    <3> QED
      BY <3>2, <3>3
  <2> HIDE DEF phi
  <2> QED
    BY <2>1, <2>2, <2>3 DEF Bijection, Injection, Surjection, IsInjective
<1>5. \A x \in Known(f) : g[phi[x]] = f[x]
  <2> SUFFICES ASSUME NEW x \in Known(f) PROVE g[Offline(x)] = f[x]
    OBVIOUS
  <2>1. x \in S /\ x \in recorded /\ f[x] = Measured(m, x)
    BY <1>2
  <2>2. Offline(x) \in T
    BY <2>1
  <2>3. g[Offline(x)] = Measured(m, Offline(x))
    <3> HIDE DEF T
    <3> QED
      BY <1>3, <2>2
  <2> QED
    BY <1>1, <2>1, <2>3
<1>6. Stat(g, MinSamples) = Stat(f, MinSamples)
  <2>1. MinSamples \in Nat
    BY AnalyticsConstants
  <2> HIDE DEF phi, f, g
  <2> QED
    BY <1>2, <1>3, <1>4, <1>5, <2>1, SameStat
<1> QED
  BY <1>1, <1>6 DEF AgainstOthers

LEMMA OfflineScores ==
    ASSUME HistoryInv, NEW s \in recorded
    PROVE  HealthScores(recorded)[s] = HealthScores({Offline(r) : r \in recorded})[Offline(s)]
<1> DEFINE R == {Offline(r) : r \in recorded}
           z == Offline(s)
           P == Workload(recorded, s.workload)
           Q == Workload(R, z.workload)
<1>1. z \in R /\ IsSession(s) /\ IsSession(z) /\ z.workload = s.workload
  BY RecordedAreSessions, OfflineSession DEF AreSessions
<1>2. HealthScores(recorded)[s] = HealthScore(s, P) /\ HealthScores(R)[z] = HealthScore(z, Q)
  <2> HIDE DEF R, z
  <2> QED
    BY <1>1, OwnScores
<1>3. Q \ {z} = {Offline(r) : r \in P \ {s}}
  <2>1. \A r \in recorded : Offline(r).workload = r.workload
    BY OfflineSession
  <2>2. \A r \in recorded : Offline(r) = z => r = s
    BY OfflineIsOneToOne
  <2> QED
    BY <1>1, <2>1, <2>2 DEF Workload
<1>4. \A m \in AllMetrics \ {"network"} : AgainstOthers(s, P \ {s}, m) = AgainstOthers(z, Q \ {z}, m)
  <2>1. P \ {s} \subseteq recorded
    BY DEF Workload
  <2> DEFINE S == P \ {s}
  <2>2. \A m \in AllMetrics \ {"network"} :
            AgainstOthers(s, S, m) = AgainstOthers(z, {Offline(r) : r \in S}, m)
    <3> HIDE DEF S
    <3> QED
      BY <2>1, OfflineAgainst DEF S
  <2> HIDE DEF z, Q, P
  <2> QED
    BY <1>3, <2>2 DEF S
<1>5. /\ ZonePoints(z) = ZonePoints(s)
      /\ z.incidents = s.incidents /\ z.worst = s.worst
  BY OfflineSession DEF ZonePoints
<1>6. /\ UnusualMetrics(s, P \ {s}) \ {"network"} = UnusualMetrics(z, Q \ {z}) \ {"network"}
      /\ Diagnoses(s, P \ {s}) = Diagnoses(z, Q \ {z})
  <2> DEFINE X == P \ {s}
             Y == Q \ {z}
  <2>1. \A m \in AllMetrics \ {"network"} : AgainstOthers(s, X, m) = AgainstOthers(z, Y, m)
    BY <1>4
  <2> HIDE DEF X, Y, z
  <2>2. /\ UnusualMetrics(s, X) \ {"network"} = UnusualMetrics(z, Y) \ {"network"}
        /\ Diagnoses(s, X) = Diagnoses(z, Y)
    BY <2>1, SameFindings
  <2> QED
    BY <2>2 DEF X, Y, z
<1>7. HealthScore(s, P) = HealthScore(z, Q)
  <2> HIDE DEF P, Q, z
  <2> QED
    BY <1>5, <1>6 DEF HealthScore
<1> QED
  BY <1>2, <1>7

LEMMA ConstantTotal ==
    ASSUME NEW f, IsData(f), NEW v \in Int, \A x \in Known(f) : f[x] = v
    PROVE  Total(f) = v * Number(f)
BY 0 \in Nat, StatParts, SumOfConstant DEF Total, Number

\* Among sessions that are all alike, none is unusual.
AllAlike(S) == \A s, t \in S : s.cpu = t.cpu /\ s.gpu = t.gpu /\ s.network = t.network

LEMMA AlikeMeasure ==
    ASSUME NEW S, AllAlike(S), NEW m \in AllMetrics, NEW s \in S, NEW t \in S
    PROVE  Measured(m, s) = Measured(m, t)
BY DEF AllAlike, AllMetrics, Metrics, Measured

LEMMA NoneUnusual ==
    ASSUME NEW S, AreSessions(S), AllAlike(S), NEW s \in S, NEW m \in AllMetrics
    PROVE  ~Unusual(AgainstOthers(s, S \ {s}, m))
<1> DEFINE T == S \ {s}
           f == ValuesOf(m, T)
           v == Measured(m, s)
           b == Stat(f, MinSamples)
           a == AgainstOthers(s, T, m)
           d == [num |-> v * Number(f) - Total(f), den |-> Number(f)]
<1>1. AreSessions(T) /\ IsSession(s)
  BY SomeSessions DEF AreSessions
<1>2. IsData(f) /\ \A x \in Known(f) : f[x] = v
  <2>1. IsData(f) /\ Known(f) = {x \in T : Measured(m, x) # None} /\ \A x \in T : f[x] = Measured(m, x)
    <3> HIDE DEF T
    <3> QED
      BY <1>1, ValuesAreData
  <2>2. \A x \in T : Measured(m, x) = v
    BY AlikeMeasure
  <2> HIDE DEF f, v, T
  <2> QED
    BY <2>1, <2>2
<1>3. /\ (v = None \/ Known(f) = {} \/ Number(f) < MinSamples) => a = None
      /\ ~(v = None \/ Known(f) = {} \/ Number(f) < MinSamples) =>
            /\ a = Judged(d, b, Least(m)) /\ a # None
            /\ v \in Int /\ d \in Fractions /\ d.den > 0 /\ b \in Statistics
  <2> HIDE DEF T
  <2> QED
    BY <1>1, AgainstParts
<1>4. CASE v = None \/ Known(f) = {} \/ Number(f) < MinSamples
  BY <1>3, <1>4 DEF Unusual
<1>5. CASE ~(v = None \/ Known(f) = {} \/ Number(f) < MinSamples)
  <2>1. d.num = 0
    <3>1. Total(f) = v * Number(f)
      <4> HIDE DEF f, v
      <4> QED
        BY <1>2, <1>3, <1>5, ConstantTotal
    <3>2. v * Number(f) \in Int
      <4> HIDE DEF f, v
      <4> QED
        BY <1>2, <1>3, <1>5, 0 \in Nat, StatParts
    <3> HIDE DEF f, v
    <3> QED
      BY <3>1, <3>2
  <2> HIDE DEF d, b, a
  <2> QED
    BY <1>3, <1>5, <2>1, LeastType, NothingUnusual DEF Unusual, a
<1> QED
  BY <1>4, <1>5

LEMMA NothingDiagnosed ==
    ASSUME NEW S, AreSessions(S), AllAlike(S), NEW s \in S
    PROVE  UnusualMetrics(s, S \ {s}) = {} /\ Diagnoses(s, S \ {s}) = {}
<1>1. \A m \in AllMetrics : ~Unusual(AgainstOthers(s, S \ {s}, m))
  BY NoneUnusual
<1>2. {"delta", "gpu.power", "cpu.temp", "cpu.power", "gpu.core"} \subseteq AllMetrics
  BY DEF AllMetrics, Metrics
<1> QED
  BY <1>1, <1>2, MetricsAreFew DEF UnusualMetrics, Diagnoses, GpuCoolingPattern, TempVsPower, UnusuallyHigh

LEMMA NoneCounted ==
    ASSUME NEW S, AreSessions(S), AllAlike(S)
    PROVE  CountAnomalous(S) \in {None, 0}
<1>1. {s \in S : UnusualMetrics(s, S \ {s}) # {}} = {}
  BY NothingDiagnosed
<1> QED
  BY <1>1, FS_EmptySet DEF CountAnomalous

LEMMA MeansDiffer ==
    ASSUME NEW f, IsData(f), Known(f) # {}, NEW g, IsData(g), Known(g) # {}, NEW n \in Nat, NEW l \in Nat
    PROVE  /\ Difference(Mean(Stat(g, l)), Mean(Stat(f, n))) = Delta(f, g)
           /\ Mean(Stat(g, l)) # None
<1>1. /\ Stat(f, n).sum = Total(f) /\ Stat(f, n).count = Number(f)
      /\ Stat(g, l).sum = Total(g) /\ Stat(g, l).count = Number(g)
      /\ Total(g) \in Int /\ Number(g) \in Int
  BY StatParts
<1>2. Mean(Stat(g, l)) \in Fractions
  BY <1>1 DEF Mean, Fractions
<1> QED
  BY <1>1, <1>2, NoneIsApart DEF Difference, Mean, Delta, Rise

LEMMA NoSessionTrend ==
    ASSUME NEW S, AreSessions(S), AllAlike(S)
    PROVE  SessionTrend(S, "gpu.hotspot") = None
<1> DEFINE m == "gpu.hotspot"
           valued == {s \in S : Measured(m, s) # None}
           older  == {s \in valued : Cardinality({t \in valued : Before(t, s)})
                                        < Cardinality(valued) \div 2}
           recent == valued \ older
           f == ValuesOf(m, older)
           g == ValuesOf(m, recent)
           change == IF recent = {} THEN None
                     ELSE Anomaly(Mean(Stat(g, 1)), Stat(f, MinSamples), Least(m))
<1>1. SessionTrend(S, m) = IF Cardinality(older) < MinSamples \/ ~Unusual(change) THEN None
                           ELSE IF change.delta.num > 0 THEN "higher" ELSE "lower"
  BY DEF SessionTrend
<1>2. older \subseteq S /\ recent \subseteq S /\ older \subseteq valued /\ recent \subseteq valued
  OBVIOUS
<1>3. m \in AllMetrics
  BY DEF AllMetrics, Metrics
<1>4. /\ \A s \in older : Measured(m, s) # None
      /\ \A s \in recent : Measured(m, s) # None
      /\ \A s \in older, t \in recent : Measured(m, s) = Measured(m, t)
  <2>1. \A s, t \in S : Measured(m, s) = Measured(m, t)
    <3> HIDE DEF m
    <3> QED
      BY <1>3, AlikeMeasure
  <2>2. \A s \in valued : Measured(m, s) # None
    OBVIOUS
  <2> HIDE DEF older, recent, valued, m
  <2> QED
    BY <1>2, <2>1, <2>2
<1> HIDE DEF older, recent, valued, m
<1>5. AreSessions(older) /\ AreSessions(recent)
  BY <1>2, SomeSessions
<1>6. /\ IsData(f) /\ Known(f) = older /\ \A s \in older : f[s] = Measured(m, s)
      /\ IsData(g) /\ Known(g) = recent /\ \A s \in recent : g[s] = Measured(m, s)
  BY <1>3, <1>4, <1>5, ValuesAreData
<1> HIDE DEF f, g
<1>7. ~Unusual(change)
  <2>1. CASE recent = {}
    BY <2>1 DEF Unusual
  <2>2. CASE recent # {} /\ older = {}
    <3>1. Stat(f, MinSamples) = None
      BY <1>6, <2>2, AnalyticsConstants, StatParts
    <3> QED
      BY <2>2, <3>1 DEF Anomaly, Unusual
  <2>3. CASE recent # {} /\ older # {}
    <3>0. MinSamples \in Nat /\ 1 \in Nat
      BY AnalyticsConstants
    <3>1. /\ Difference(Mean(Stat(g, 1)), Mean(Stat(f, MinSamples))) = Delta(f, g)
          /\ Mean(Stat(g, 1)) # None /\ Stat(f, MinSamples) # None /\ Stat(f, MinSamples) \in Statistics
      BY <1>6, <2>3, <3>0, MeansDiffer, StatParts
    <3>2. Rise(f, g) = 0
      BY <1>4, <1>6, Flat
    <3>3. Delta(f, g) \in Fractions /\ Delta(f, g).den > 0 /\ Delta(f, g).num = 0
      BY <1>6, <2>3, <3>2, RiseType DEF Delta
    <3> DEFINE b == Stat(f, MinSamples)
    <3>4. change \in {None, Judged(Delta(f, g), b, Least(m))}
      BY <2>3, <3>1 DEF Anomaly
    <3>5. ~Judged(Delta(f, g), b, Least(m)).unusual
      <4> HIDE DEF b
      <4> QED
        BY <1>3, <3>1, <3>3, LeastType, NothingUnusual DEF b
    <3> HIDE DEF b, change
    <3> QED
      BY <3>4, <3>5 DEF Unusual
  <2> QED
    BY <2>1, <2>2, <2>3
<1> HIDE DEF change
<1> QED
  BY <1>1, <1>7 DEF m

-----------------------------------------------------------------------------
\* THE ANALYSES: WINDOWS

Early(S, w, m) == ValuesOf(m, Touching(S, w.from, w.middle))
Late(S, w, m) == ValuesOf(m, Touching(S, w.middle, w.to))

\* What the trend of a metric between two windows says.
LEMMA WindowedParts ==
    ASSUME NEW S, AreSessions(S), NEW w, NEW m \in AllMetrics,
           NEW f, f = Early(S, w, m), NEW g, g = Late(S, w, m), NEW t, t = Windowed(S, w, m)
    PROVE  /\ IsData(f) /\ Known(f) = {s \in Touching(S, w.from, w.middle) : Measured(m, s) # None}
           /\ \A s \in Known(f) : f[s] = Measured(m, s)
           /\ IsData(g) /\ Known(g) = {s \in Touching(S, w.middle, w.to) : Measured(m, s) # None}
           /\ \A s \in Known(g) : g[s] = Measured(m, s)
           /\ t = None <=> ~Comparable(f, g, MinSamples)
           /\ t # None =>
                 /\ t \in Trends
                 /\ t.older = Stat(f, MinSamples) /\ t.recent = Stat(g, MinSamples)
                 /\ t.delta = Delta(f, g)
                 /\ t.direction = IF ~Judged(Delta(f, g), Stat(f, MinSamples), Least(m)).unusual
                                  THEN "STABLE"
                                  ELSE IF Rise(f, g) > 0 THEN "WORSENING" ELSE "IMPROVING"
                 /\ Rise(f, g) = 0 => t.direction = "STABLE"
                 /\ t.direction = "WORSENING" => Rise(f, g) > 0
                 /\ t.confidence = "HIGH" => Number(f) >= Generous /\ Number(g) >= Generous
<1> DEFINE A == Touching(S, w.from, w.middle)
           B == Touching(S, w.middle, w.to)
<1>1. AreSessions(A) /\ AreSessions(B)
  BY SomeSessions DEF Touching
<1>2. f = ValuesOf(m, A) /\ g = ValuesOf(m, B) /\ t = Trend(f, g, Least(m), TRUE, MinSamples)
  BY DEF Early, Late, Windowed
<1> HIDE DEF A, B
<1>3. /\ IsData(f) /\ Known(f) = {s \in A : Measured(m, s) # None}
      /\ \A s \in A : f[s] = Measured(m, s)
      /\ IsData(g) /\ Known(g) = {s \in B : Measured(m, s) # None}
      /\ \A s \in B : g[s] = Measured(m, s)
  BY <1>1, <1>2, ValuesAreData
<1>4. IsLeast(Least(m)) /\ MinSamples \in Nat /\ TRUE \in BOOLEAN
  BY LeastType, AnalyticsConstants
<1> DEFINE worse == TRUE
<1>5. /\ t = None <=> ~Comparable(f, g, MinSamples)
      /\ t # None =>
            /\ t \in Trends
            /\ t.older = Stat(f, MinSamples) /\ t.recent = Stat(g, MinSamples)
            /\ t.delta = Delta(f, g)
            /\ t.direction = IF ~Judged(Delta(f, g), Stat(f, MinSamples), Least(m)).unusual THEN "STABLE"
                             ELSE IF (Rise(f, g) > 0) = worse THEN "WORSENING" ELSE "IMPROVING"
            /\ Rise(f, g) = 0 => t.direction = "STABLE"
            /\ worse /\ t.direction = "WORSENING" => Rise(f, g) > 0
            /\ t.confidence = "HIGH" => Number(f) >= Generous /\ Number(g) >= Generous
  <2>1. worse \in BOOLEAN /\ t = Trend(f, g, Least(m), worse, MinSamples)
    BY <1>2
  <2> HIDE DEF worse
  <2> QED
    BY <1>3, <1>4, <2>1, TrendParts
<1>6. t # None => t.direction = IF ~Judged(Delta(f, g), Stat(f, MinSamples), Least(m)).unusual THEN "STABLE"
                                ELSE IF Rise(f, g) > 0 THEN "WORSENING" ELSE "IMPROVING"
  <2> DEFINE rises == Rise(f, g) > 0
  <2>1. rises = TRUE <=> rises
    <3>1. rises \in BOOLEAN
      OBVIOUS
    <3> HIDE DEF rises
    <3> QED
      BY <3>1, Zenon
  <2>2. t # None => t.direction = IF ~Judged(Delta(f, g), Stat(f, MinSamples), Least(m)).unusual THEN "STABLE"
                                  ELSE IF rises = TRUE THEN "WORSENING" ELSE "IMPROVING"
    BY <1>5
  <2> HIDE DEF rises
  <2>3. t # None => t.direction = IF ~Judged(Delta(f, g), Stat(f, MinSamples), Least(m)).unusual THEN "STABLE"
                                  ELSE IF rises THEN "WORSENING" ELSE "IMPROVING"
    BY <2>1, <2>2, Zenon
  <2> QED
    BY <2>3 DEF rises
<1> QED
  BY <1>3, <1>5, <1>6 DEF A, B

LEMMA HotspotIsMetric ==
    /\ {"gpu.hotspot", "gpu.power", "cpu.temp", "cpu.power", "delta", "efficiency"} \subseteq AllMetrics
    /\ \A s : Measured("gpu.hotspot", s) = s.gpu.hotspot
BY DEF AllMetrics, Metrics, Measured

\* What the cooling of a workload is reported to do.
LEMMA CoolingParts ==
    ASSUME NEW S, NEW a, NEW now,
           NEW h, h = Windowed(Workload(S, a), Halves(TrendSpan, now), "gpu.hotspot"),
           NEW p, p = Windowed(Workload(S, a), Halves(TrendSpan, now), "gpu.power"),
           NEW r, r = CoolingReport(S, a, now)
    PROVE  /\ r = CoolingOf(h, p)
           /\ h = None => r.direction = "STABLE" /\ r.confidence = None
           /\ h # None => /\ r.direction = h.direction
                          /\ r.confidence = IF h.direction = "STABLE" THEN None
                                            ELSE IF p # None /\ p.direction = "WORSENING"
                                            THEN Downgraded(h.confidence)
                                            ELSE h.confidence
<1>1. r = CoolingOf(h, p)
  BY DEF CoolingReport
<1> QED
  BY <1>1 DEF CoolingOf

\* A hotspot that is the same in all sessions has no trend.
LEMMA SameHotspots ==
    ASSUME NEW S, AreSessions(S), NEW a, NEW now,
           \A s, t \in Workload(S, a) : s.gpu = t.gpu
    PROVE  CoolingReport(S, a, now).direction = "STABLE"
<1> DEFINE own == Workload(S, a)
           w == Halves(TrendSpan, now)
           m == "gpu.hotspot"
           f == Early(own, w, m)
           g == Late(own, w, m)
           h == Windowed(own, w, m)
<1>1. AreSessions(own) /\ m \in AllMetrics
  BY SomeSessions, HotspotIsMetric DEF Workload
<1>2. \A s, t \in own : Measured(m, s) = Measured(m, t)
  BY HotspotIsMetric
<1>3. h = Windowed(Workload(S, a), Halves(TrendSpan, now), "gpu.hotspot")
  OBVIOUS
<1> HIDE DEF own, w, m
<1>4. /\ IsData(f) /\ Known(f) \subseteq own /\ \A s \in Known(f) : f[s] = Measured(m, s)
      /\ IsData(g) /\ Known(g) \subseteq own /\ \A s \in Known(g) : g[s] = Measured(m, s)
      /\ h # None /\ Rise(f, g) = 0 => h.direction = "STABLE"
  BY <1>1, WindowedParts DEF Touching
<1> HIDE DEF f, g, h
<1>5. Rise(f, g) = 0
  <2>1. \A x \in Known(f), y \in Known(g) : f[x] = g[y]
    BY <1>2, <1>4
  <2> QED
    BY <1>4, <2>1, Flat
<1> QED
  BY <1>3, <1>4, <1>5, CoolingParts

LEMMA ScoresFair == HistoryInv => ScoresAreFair
<1> SUFFICES ASSUME HistoryInv PROVE ScoresAreFair
  OBVIOUS
<1>1. AreSessions(recorded)
  BY RecordedAreSessions
<1>2. FairTo(HealthScores(recorded), HealthScores({[s EXCEPT !.network = None] : s \in recorded}))
  <2> DEFINE score == HealthScores(recorded)
             offline == HealthScores({[s EXCEPT !.network = None] : s \in recorded})
  <2>1. ASSUME NEW s \in recorded, NEW t \in recorded,
               s.workload = t.workload, s.cpu = t.cpu, s.gpu = t.gpu,
               ZonePoints(s) <= ZonePoints(t),
               s.incidents * IncidentWeight(s.worst) <= t.incidents * IncidentWeight(t.worst)
        PROVE  score[s] >= score[t]
    BY <1>1, <2>1, MeasuredAlike
  <2>2. ASSUME NEW s \in recorded PROVE score[s] = offline[[s EXCEPT !.network = None]]
    BY OfflineScores DEF Offline
  <2> HIDE DEF score, offline
  <2>3. FairTo(score, offline)
    BY <2>1, <2>2 DEF FairTo
  <2> QED
    BY <2>3 DEF score, offline
<1>3. ASSUME NEW a \in Workloads(recorded),
             \A s, t \in Workload(recorded, a) : s.cpu = t.cpu /\ s.gpu = t.gpu /\ s.network = t.network
      PROVE  /\ CountAnomalous(Workload(recorded, a)) \in {None, 0}
             /\ SessionTrend(Workload(recorded, a), "gpu.hotspot") = None
             /\ CoolingReport(recorded, a, unit).direction = "STABLE"
             /\ \A s \in Workload(recorded, a) : Diagnoses(s, Workload(recorded, a) \ {s}) = {}
  <2> DEFINE own == Workload(recorded, a)
  <2>1. AreSessions(own) /\ AllAlike(own)
    BY <1>1, <1>3, SomeSessions DEF Workload, AllAlike
  <2>2. CoolingReport(recorded, a, unit).direction = "STABLE"
    BY <1>1, <1>3, SameHotspots
  <2> HIDE DEF own
  <2>3. /\ CountAnomalous(own) \in {None, 0}
        /\ SessionTrend(own, "gpu.hotspot") = None
        /\ \A s \in own : Diagnoses(s, own \ {s}) = {}
    BY <2>1, NoneCounted, NoSessionTrend, NothingDiagnosed
  <2> QED
    BY <2>2, <2>3 DEF own
<1> QED
  BY <1>2, <1>3 DEF ScoresAreFair

-----------------------------------------------------------------------------
\* THE ANALYSES: CLAIMS

LEMMA HalvesOrder ==
    ASSUME NEW span \in Nat, NEW now \in Int, NEW w, w = Halves(span, now)
    PROVE  /\ w.from \in Int /\ w.middle \in Int /\ w.to = now
           /\ w.from <= w.middle /\ w.middle <= w.to /\ w.from = now - span
<1>1. w.from = now - span /\ w.middle = now - span \div 2 /\ w.to = now
  BY DEF Halves
<1>2. span \div 2 \in Nat /\ span \div 2 <= span
  OBVIOUS
<1> QED
  BY <1>1, <1>2

LEMMA HistoryWindows ==
    ASSUME HistoryInv
    PROVE  /\ Window.from \in Int /\ Window.middle \in Int /\ Window.to = unit
           /\ Window.from <= Window.middle /\ Window.middle <= Window.to /\ Window.from = unit - TrendSpan
           /\ Week.from \in Int /\ Week.middle \in Int /\ Week.to = unit
           /\ Week.from <= Week.middle /\ Week.middle <= Week.to /\ Week.from = unit - WeekSpan
<1>1. TrendSpan \in Nat /\ WeekSpan \in Nat /\ unit \in Int
  BY AnalyticsConstants DEF HistoryInv
<1> QED
  BY <1>1, HalvesOrder DEF Window, Week

\* Who touches a half touches the whole.
LEMMA HalvesTouch ==
    ASSUME NEW S, \A s \in S : s.from \in Int /\ s.to \in Int,
           NEW a \in Int, NEW b \in Int, NEW c \in Int, a <= b, b <= c
    PROVE  Touching(S, a, b) \subseteq Touching(S, a, c) /\ Touching(S, b, c) \subseteq Touching(S, a, c)
BY DEF Touching

\* The same values on both sides do not rise.
LEMMA SameSides ==
    ASSUME NEW f, IsData(f), NEW g, IsData(g), Known(f) = Known(g), \A x \in Known(f) : f[x] = g[x]
    PROVE  Rise(f, g) = 0
<1>1. Number(f) = Number(g)
  BY DEF Number
<1>2. Total(f) = Total(g)
  BY SumsAreSame DEF Total
<1>3. Total(f) \in Int /\ Number(f) \in Nat
  BY 0 \in Nat, StatParts
<1> QED
  BY <1>1, <1>2, <1>3 DEF Rise

\* Few enough to be all on both sides.
LEMMA AllOnBothSides ==
    ASSUME NEW S, IsFiniteSet(S), NEW A, A \subseteq S, NEW B, B \subseteq S, NEW n \in Nat,
           Cardinality(A) >= n, Cardinality(B) >= n, ~(Cardinality(S) > n)
    PROVE  A = B
<1>1. ASSUME NEW X, X \subseteq S, Cardinality(X) >= n PROVE X = S
  <2>1. /\ Cardinality(X) \in Nat /\ Cardinality(S) \in Nat
        /\ Cardinality(X) <= Cardinality(S) /\ (Cardinality(X) = Cardinality(S) => X = S)
    BY <1>1, FS_Subset, FS_CardinalityType
  <2> QED
    BY <1>1, <2>1
<1> QED
  BY <1>1

LEMMA EarnedTrend ==
    ASSUME HistoryInv, NEW a,
           NEW within, within = Touching(Workload(recorded, a), Window.from, Window.to),
           NEW r, r = CoolingReport(recorded, a, unit)
    PROVE  /\ r.direction # "STABLE" => Cardinality(within) > MinSamples
           /\ r.confidence = "HIGH" => Cardinality(within) > Generous
<1> DEFINE own == Workload(recorded, a)
           w == Window
           m == "gpu.hotspot"
           f == Early(own, w, m)
           g == Late(own, w, m)
           h == Windowed(own, w, m)
           p == Windowed(own, w, "gpu.power")
<1>1. AreSessions(own) /\ m \in AllMetrics
  BY RecordedAreSessions, SomeSessions, HotspotIsMetric DEF Workload
<1>2. /\ h = None => r.direction = "STABLE" /\ r.confidence = None
      /\ h # None => /\ r.direction = h.direction
                     /\ r.confidence = IF h.direction = "STABLE" THEN None
                                       ELSE IF p # None /\ p.direction = "WORSENING"
                                       THEN Downgraded(h.confidence)
                                       ELSE h.confidence
  BY CoolingParts DEF Window
<1>3. within = Touching(own, w.from, w.to)
  OBVIOUS
<1> HIDE DEF own, w, m, p
<1>4. /\ IsData(f) /\ Known(f) = {s \in Touching(own, w.from, w.middle) : Measured(m, s) # None}
      /\ \A s \in Known(f) : f[s] = Measured(m, s)
      /\ IsData(g) /\ Known(g) = {s \in Touching(own, w.middle, w.to) : Measured(m, s) # None}
      /\ \A s \in Known(g) : g[s] = Measured(m, s)
      /\ h = None <=> ~Comparable(f, g, MinSamples)
      /\ h # None =>
            /\ h \in Trends
            /\ Rise(f, g) = 0 => h.direction = "STABLE"
            /\ h.confidence = "HIGH" => Number(f) >= Generous /\ Number(g) >= Generous
  BY <1>1, WindowedParts
<1> HIDE DEF f, g, h
<1>5. Known(f) \subseteq within /\ Known(g) \subseteq within /\ IsFiniteSet(within)
  <2>1. \A s \in own : s.from \in Int /\ s.to \in Int
    BY <1>1 DEF AreSessions, IsSession
  <2>2. w.from \in Int /\ w.middle \in Int /\ w.to \in Int /\ w.from <= w.middle /\ w.middle <= w.to
    BY HistoryWindows DEF w, HistoryInv
  <2>3. Touching(own, w.from, w.middle) \subseteq within /\ Touching(own, w.middle, w.to) \subseteq within
    BY <1>3, <2>1, <2>2, HalvesTouch
  <2>4. IsFiniteSet(within)
    BY <1>1, <1>3, FS_Subset DEF Touching, AreSessions
  <2> QED
    BY <1>4, <2>3, <2>4
<1>6. ASSUME NEW n \in Nat, h # None, Number(f) >= n, Number(g) >= n, ~(Cardinality(within) > n)
      PROVE  h.direction = "STABLE"
  <2>1. Known(f) = Known(g)
    BY <1>5, <1>6, AllOnBothSides DEF Number
  <2>2. Rise(f, g) = 0
    BY <1>4, <2>1, SameSides
  <2> QED
    BY <1>4, <1>6, <2>2
<1>7. ASSUME r.direction # "STABLE" PROVE Cardinality(within) > MinSamples
  <2>1. h # None /\ h.direction # "STABLE" /\ Comparable(f, g, MinSamples)
    BY <1>2, <1>4, <1>7
  <2>2. Number(f) >= MinSamples /\ Number(g) >= MinSamples /\ MinSamples \in Nat
    BY <2>1, AnalyticsConstants DEF Comparable
  <2> QED
    BY <1>6, <2>1, <2>2
<1>8. ASSUME r.confidence = "HIGH" PROVE Cardinality(within) > Generous
  <2>1. "HIGH" # None
    <3>1. "HIGH" \in Confidences
      BY DEF Confidences
    <3> QED
      BY <3>1, NoneIsApart
  <2>2. h # None /\ h.direction # "STABLE" /\ h.confidence = "HIGH"
    <3>1. h # None /\ h.direction # "STABLE"
      BY <1>2, <1>8, <2>1
    <3>2. h.confidence \in Confidences
      BY <1>4, <3>1 DEF Trends
    <3>3. Downgraded(h.confidence) # "HIGH"
      BY <3>2 DEF Downgraded, Confidences
    <3> QED
      BY <1>2, <1>8, <3>1, <3>3
  <2>3. Number(f) >= Generous /\ Number(g) >= Generous /\ Generous \in Nat
    BY <1>4, <2>2, AnalyticsConstants
  <2> QED
    BY <1>6, <2>2, <2>3
<1> QED
  BY <1>7, <1>8

\* The sides share one high and one low value: neither mean is beyond the middle of them.
LEMMA SharedValues ==
    ASSUME NEW lo \in Int, NEW hi \in Int, lo <= hi, NEW n \in Nat, NEW m \in Nat, n > 1, m > 1,
           NEW t \in Int, NEW u \in Int, t >= hi * (n - 1) + lo, u <= lo * (m - 1) + hi
    PROVE  u * n - t * m <= 0
<1> DEFINE d == hi - lo
           a == n - 1
           b == m - 1
<1>1. d \in Nat /\ a \in Nat /\ b \in Nat /\ a > 0 /\ b > 0 /\ n = a + 1 /\ m = b + 1 /\ hi = lo + d
  OBVIOUS
<1>2. u * n <= (lo * b + hi) * n
  <2>1. u <= lo * b + hi /\ lo * b + hi \in Int
    OBVIOUS
  <2> DEFINE x == lo * b + hi
  <2>2. u <= x /\ x \in Int
    BY <2>1
  <2> HIDE DEF x
  <2>3. u * n <= x * n
    BY <2>2, ProductsOrder
  <2> QED
    BY <2>3 DEF x
<1>3. (hi * a + lo) * m <= t * m
  <2> DEFINE x == hi * a + lo
  <2>2. x <= t /\ x \in Int
    OBVIOUS
  <2> HIDE DEF x
  <2>3. x * m <= t * m
    BY <2>2, ProductsOrder
  <2> QED
    BY <2>3 DEF x
<1>4. (lo * b + hi) * n - (hi * a + lo) * m = d * (1 - a * b)
  <2>1. \A p, q \in Nat, v, e \in Int :
            (v * q + (v + e)) * (p + 1) - ((v + e) * p + v) * (q + 1) = e * (1 - p * q)
    OBVIOUS
  <2> HIDE DEF d, a, b
  <2> QED
    BY <1>1, <2>1
<1>5. d * (1 - a * b) <= 0
  <2> HIDE DEF d, a, b
  <2>1. a * b \in Nat /\ a * b > 0
    BY <1>1, Positive
  <2>2. d * (a * b) >= d
    <3> DEFINE e == a * b
    <3>1. e \in Nat /\ e >= 1
      BY <2>1
    <3> HIDE DEF e
    <3>2. d * e >= d
      BY <1>1, <3>1
    <3> QED
      BY <3>2 DEF e
  <2> DEFINE e == a * b
  <2>3. e \in Nat /\ d * e >= d
    BY <2>1, <2>2
  <2> HIDE DEF e
  <2>4. d * (1 - e) <= 0
    BY <1>1, <2>3
  <2> QED
    BY <2>4 DEF e
<1>6. u * n \in Int /\ t * m \in Int /\ (lo * b + hi) * n \in Int /\ (hi * a + lo) * m \in Int
  OBVIOUS
<1> DEFINE p == u * n
           q == t * m
           x == (lo * b + hi) * n
           y == (hi * a + lo) * m
<1>7. p \in Int /\ q \in Int /\ x \in Int /\ y \in Int /\ p <= x /\ y <= q /\ x - y <= 0
  BY <1>2, <1>3, <1>4, <1>5, <1>6
<1> HIDE DEF p, q, x, y
<1>8. p - q <= 0
  BY <1>7
<1> QED
  BY <1>8 DEF p, q

\* All values but one are at least hi: so is their sum.
LEMMA SumAbove ==
    ASSUME NEW f, NEW S, IsFiniteSet(S), \A x \in S : f[x] \in Int, NEW hi \in Int, NEW y \in S,
           \A x \in S \ {y} : f[x] >= hi
    PROVE  SumOver(f, S) >= hi * (Cardinality(S) - 1) + f[y]
<1> DEFINE R == S \ {y}
           h == [x \in R |-> hi]
<1>1. IsFiniteSet(R) /\ Cardinality(R) = Cardinality(S) - 1
  BY FS_RemoveElement
<1>2. SumOver(f, S) = f[y] + SumOver(f, R)
  BY SumTakesAny
<1>3. SumOver(h, R) = hi * Cardinality(R)
  <2>1. \A x \in R : h[x] = hi
    OBVIOUS
  <2> HIDE DEF h, R
  <2> QED
    BY <1>1, <2>1, SumOfConstant
<1>4. SumOver(h, R) <= SumOver(f, R)
  <2>1. \A x \in R : h[x] \in Int /\ f[x] \in Int /\ h[x] <= f[x]
    OBVIOUS
  <2> HIDE DEF h, R
  <2> QED
    BY <1>1, <2>1, SumsAreOrdered
<1>5. SumOver(f, R) \in Int /\ Cardinality(R) \in Nat /\ f[y] \in Int
  <2>1. \A x \in R : f[x] \in Int
    OBVIOUS
  <2> HIDE DEF R
  <2> QED
    BY <1>1, <2>1, SumIsInteger, FS_CardinalityType
<1> DEFINE n == Cardinality(R)
           s == SumOver(f, R)
<1>6. s \in Int /\ n \in Nat /\ hi * n <= s
  BY <1>3, <1>4, <1>5
<1>7. SumOver(f, S) = f[y] + s /\ Cardinality(S) - 1 = n
  BY <1>1, <1>2
<1> HIDE DEF n, s
<1>8. hi * n \in Int
  BY <1>6
<1> QED
  BY <1>5, <1>6, <1>7, <1>8

LEMMA SumBelow ==
    ASSUME NEW f, NEW S, IsFiniteSet(S), \A x \in S : f[x] \in Int, NEW lo \in Int, NEW y \in S,
           \A x \in S \ {y} : f[x] <= lo
    PROVE  SumOver(f, S) <= lo * (Cardinality(S) - 1) + f[y]
<1> DEFINE R == S \ {y}
           h == [x \in R |-> lo]
<1>1. IsFiniteSet(R) /\ Cardinality(R) = Cardinality(S) - 1
  BY FS_RemoveElement
<1>2. SumOver(f, S) = f[y] + SumOver(f, R)
  BY SumTakesAny
<1>3. SumOver(h, R) = lo * Cardinality(R)
  <2>1. \A x \in R : h[x] = lo
    OBVIOUS
  <2> HIDE DEF h, R
  <2> QED
    BY <1>1, <2>1, SumOfConstant
<1>4. SumOver(f, R) <= SumOver(h, R)
  <2>1. \A x \in R : h[x] \in Int /\ f[x] \in Int /\ f[x] <= h[x]
    OBVIOUS
  <2> HIDE DEF h, R
  <2> QED
    BY <1>1, <2>1, SumsAreOrdered
<1>5. SumOver(f, R) \in Int /\ Cardinality(R) \in Nat /\ f[y] \in Int
  <2>1. \A x \in R : f[x] \in Int
    OBVIOUS
  <2> HIDE DEF R
  <2> QED
    BY <1>1, <2>1, SumIsInteger, FS_CardinalityType
<1> DEFINE n == Cardinality(R)
           s == SumOver(f, R)
<1>6. s \in Int /\ n \in Nat /\ s <= lo * n
  BY <1>3, <1>4, <1>5
<1>7. SumOver(f, S) = f[y] + s /\ Cardinality(S) - 1 = n
  BY <1>1, <1>2
<1> HIDE DEF n, s
<1>8. lo * n \in Int
  BY <1>6
<1> QED
  BY <1>5, <1>6, <1>7, <1>8

LEMMA TwoOfMany ==
    ASSUME NEW S, IsFiniteSet(S), NEW x \in S, NEW y \in S, x # y
    PROVE  Cardinality(S) \in Nat /\ Cardinality(S) > 1
<1>1. IsFiniteSet(S \ {x}) /\ Cardinality(S \ {x}) = Cardinality(S) - 1
  BY FS_RemoveElement
<1>2. Cardinality(S \ {x}) \in Nat /\ Cardinality(S) \in Nat
  BY <1>1, FS_CardinalityType
<1>3. S \ {x} # {}
  OBVIOUS
<1>4. Cardinality(S \ {x}) # 0
  <2> DEFINE T == S \ {x}
  <2>1. IsFiniteSet(T) /\ T # {}
    BY <1>1, <1>3
  <2> HIDE DEF T
  <2>2. Cardinality(T) # 0
    BY <2>1, FS_EmptySet
  <2> QED
    BY <2>2 DEF T
<1> QED
  BY <1>1, <1>2, <1>4

\* A rise has a later value above an earlier one, of sessions in that order: at most one
\* session ends and one begins in the middle, and both are on both sides.
LEMMA RiseHasWitness ==
    ASSUME HistoryInv, NEW S, S \subseteq recorded, NEW w, NEW m \in AllMetrics,
           w.from \in Int, w.middle \in Int, w.to \in Int, w.from <= w.middle, w.middle <= w.to,
           NEW f, f = Early(S, w, m), NEW g, g = Late(S, w, m), Rise(f, g) > 0
    PROVE  \E s, t \in S : /\ Measured(m, s) \in Int /\ Measured(m, t) \in Int
                           /\ Measured(m, s) > Measured(m, t) /\ s.to > t.from
<1> SUFFICES ASSUME \A s, t \in S : Measured(m, s) \in Int /\ Measured(m, t) \in Int /\ s.to > t.from
                                        => Measured(m, s) <= Measured(m, t)
             PROVE  FALSE
  <2>1. \A s, t \in S : Measured(m, s) \in Int /\ Measured(m, t) \in Int =>
            (~(Measured(m, s) > Measured(m, t)) <=> Measured(m, s) <= Measured(m, t))
    OBVIOUS
  <2> QED
    BY <2>1
<1>1. AreSessions(S)
  BY RecordedAreSessions, SomeSessions
<1>2. /\ IsData(f) /\ Known(f) = {s \in Touching(S, w.from, w.middle) : Measured(m, s) # None}
      /\ \A s \in Known(f) : f[s] = Measured(m, s)
      /\ IsData(g) /\ Known(g) = {s \in Touching(S, w.middle, w.to) : Measured(m, s) # None}
      /\ \A s \in Known(g) : g[s] = Measured(m, s)
  BY <1>1, WindowedParts
<1>3. \A s \in S : s.from \in Nat /\ s.to = s.from + 1 /\ Measured(m, s) \in Int \cup {None}
  BY <1>1, MeasuredType DEF AreSessions, IsSession
<1>4. \A s, t \in S : s.from = t.from => s = t
  BY DEF HistoryInv
<1>5. /\ IsFiniteSet(Known(f)) /\ IsFiniteSet(Known(g))
      /\ Number(f) \in Nat /\ Number(g) \in Nat /\ Total(f) \in Int /\ Total(g) \in Int
      /\ \A x \in Known(f) : f[x] \in Int
      /\ \A x \in Known(g) : g[x] \in Int
  BY <1>2, 0 \in Nat, StatParts
<1>6. \A x \in Known(f) : x \in S /\ x.from <= w.middle /\ x.to >= w.from /\ Measured(m, x) = f[x]
  BY <1>2 DEF Touching
<1>7. \A y \in Known(g) : y \in S /\ y.from <= w.to /\ y.to >= w.middle /\ Measured(m, y) = g[y]
  BY <1>2 DEF Touching
<1>8. PICK x \in Known(f), y \in Known(g) : ~(f[x] >= g[y])
  <2>1. ~(\A x \in Known(f), y \in Known(g) : f[x] >= g[y])
    <3>1. Rise(f, g) \in Int
      BY <1>2, RiseType
    <3> QED
      BY <1>2, <3>1, Falls
  <2> QED
    BY <2>1
<1>9. ~(y.to > x.from) /\ f[x] \in Int /\ g[y] \in Int /\ f[x] < g[y]
  BY <1>5, <1>6, <1>7, <1>8
<1>10. x.from = w.middle /\ y.to = w.middle /\ y.from = w.middle - 1
  BY <1>3, <1>6, <1>7, <1>9
<1>11. x \in Known(g) /\ y \in Known(f) /\ x # y
  <2>1. x \in S /\ x.from <= w.to /\ x.to >= w.middle /\ Measured(m, x) # None
    BY <1>2, <1>3, <1>6, <1>10
  <2>2. y \in S /\ y.from <= w.middle /\ y.to >= w.from /\ Measured(m, y) # None
    BY <1>2, <1>3, <1>7, <1>10
  <2> QED
    BY <1>2, <1>10, <2>1, <2>2 DEF Touching
<1>12. f[y] = g[y] /\ g[x] = f[x]
  BY <1>2, <1>11
<1>13. \A z \in Known(f) \ {x} : f[z] >= g[y]
  <2> SUFFICES ASSUME NEW z \in Known(f) \ {x} PROVE f[z] >= g[y]
    OBVIOUS
  <2>1. z.from # w.middle
    BY <1>4, <1>6, <1>10
  <2>2. y.to > z.from
    BY <1>3, <1>6, <1>10, <2>1
  <2> QED
    BY <1>5, <1>6, <1>7, <2>2
<1>14. \A z \in Known(g) \ {y} : g[z] <= f[x]
  <2> SUFFICES ASSUME NEW z \in Known(g) \ {y} PROVE g[z] <= f[x]
    OBVIOUS
  <2>1. z.to # w.middle
    <3>1. z.to = w.middle => z.from = y.from
      BY <1>3, <1>7, <1>10
    <3> QED
      BY <1>4, <1>7, <3>1
  <2>2. z.to > x.from
    BY <1>3, <1>7, <1>10, <2>1
  <2> QED
    BY <1>5, <1>6, <1>7, <2>2
<1>15. Total(f) >= g[y] * (Number(f) - 1) + f[x]
  BY <1>5, <1>9, <1>13, SumAbove DEF Total, Number
<1>16. Total(g) <= f[x] * (Number(g) - 1) + g[y]
  BY <1>5, <1>9, <1>14, SumBelow DEF Total, Number
<1>17. Number(f) > 1 /\ Number(g) > 1
  BY <1>5, <1>11, TwoOfMany DEF Number
<1>18. f[x] <= g[y]
  BY <1>9
<1>19. Total(g) * Number(f) - Total(f) * Number(g) <= 0
  BY <1>5, <1>9, <1>15, <1>16, <1>17, <1>18, SharedValues
<1>20. Rise(f, g) <= 0
  BY <1>19 DEF Rise
<1>21. Rise(f, g) \in Int
  BY <1>2, RiseType
<1> QED
  BY <1>20, <1>21

LEMMA SumOfPercents ==
    ASSUME NEW S, NEW h, h = [z \in S |-> z.percent]
    PROVE  MapThenSumSet(LAMBDA z : z.percent, S) = SumOver(h, S)
<1> DEFINE Full(g) == g = [s \in SUBSET S |-> IF s = {} THEN 0 ELSE h[Pick(s)] + g[s \ {Pick(s)}]]
           Plain(g) == g = [s \in SUBSET S |->
                              IF s = {} THEN 0 ELSE Pick(s).percent + g[s \ {Pick(s)}]]
<1>1. ASSUME NEW g PROVE Full(g) <=> Plain(g)
  <2>1. \A s \in SUBSET S : s # {} => h[Pick(s)] = Pick(s).percent
    BY PickIsIn
  <2> QED
    BY <2>1
<1>2. (CHOOSE g : Full(g)) = (CHOOSE g : Plain(g))
  BY <1>1
<1>3. SumOver(h, S) = (CHOOSE g : Full(g))[S]
  <2> DEFINE k == [x \in S |-> h[x]]
  <2>1. k = h /\ DOMAIN h = S
    OBVIOUS
  <2>2. SumOver(h, S) = SumOf(h)
    BY <2>1 DEF SumOver
  <2> QED
    BY <2>1, <2>2 DEF SumOf, MapThenSumSet, MapThenFoldSet, Pick
<1>4. MapThenSumSet(LAMBDA z : z.percent, S) = (CHOOSE g : Plain(g))[S]
  BY DEF MapThenSumSet, MapThenFoldSet, Pick
<1> QED
  BY <1>2, <1>3, <1>4

\* A session without time in a zone is not at the ceiling.
LEMMA CeilingHasZones ==
    ASSUME NEW S PROVE AtCeiling(S) \subseteq {s \in S : s.zones # {}}
<1> SUFFICES ASSUME NEW s \in AtCeiling(S), s.zones = {} PROVE FALSE
  BY DEF AtCeiling
<1> DEFINE Z == {z \in s.zones : z.component = "cpu" /\ z.zone \in {"ORANGE", "RED"}}
           h == [z \in Z |-> z.percent]
<1>1. MapThenSumSet(LAMBDA z : z.percent, Z) >= 10
  BY DEF AtCeiling
<1>2. Z = {}
  OBVIOUS
<1>3. MapThenSumSet(LAMBDA z : z.percent, Z) = SumOver(h, Z)
  <2> HIDE DEF Z
  <2> QED
    BY SumOfPercents
<1>4. SumOver(h, Z) = 0
  <2> HIDE DEF h, Z
  <2> QED
    BY <1>2, SumOfNothing
<1> QED
  BY <1>1, <1>3, <1>4

\* Where a recommendation comes from.
LEMMA RecommendationParts ==
    ASSUME NEW S, NEW moderate, NEW now, NEW r \in Recommendations(S, moderate, now)
    PROVE  \/ r.about \in Workloads(S) /\ RecommendsGpu(S, r.about, now)
           \/ r.about = "cpu" /\ RecommendsCpu(S, moderate) # None
           \/ r.about = "nothing"
<1> DEFINE gpu == {[about |-> a, confidence |-> CoolingReport(S, a, now).confidence] :
                    a \in {x \in Workloads(S) : RecommendsGpu(S, x, now)}}
           cpu == {[about |-> "cpu", confidence |-> c] : c \in {RecommendsCpu(S, moderate)} \ {None}}
<1>1. r \in gpu \/ r \in cpu \/ r = NoAction
  BY DEF Recommendations
<1>2. CASE r \in gpu
  BY <1>2
<1>3. CASE r \in cpu
  BY <1>3
<1>4. CASE r = NoAction
  BY <1>4 DEF NoAction
<1> QED
  BY <1>1, <1>2, <1>3, <1>4

LEMMA ManyAtCeiling ==
    ASSUME NEW S, IsFiniteSet(S), NEW moderate, RecommendsCpu(S, moderate) # None
    PROVE  Cardinality({s \in S : s.zones # {}}) > 1
<1> DEFINE A == AtCeiling(S)
           Z == {s \in S : s.zones # {}}
<1>1. A \subseteq Z /\ Z \subseteq S
  BY CeilingHasZones
<1>2. ~(Cardinality(A) < MinOccurrences)
  BY DEF RecommendsCpu
<1> HIDE DEF A, Z
<1>3. IsFiniteSet(Z)
  BY <1>1, FS_Subset
<1>4. IsFiniteSet(A) /\ Cardinality(A) <= Cardinality(Z)
  BY <1>1, <1>3, FS_Subset
<1>5. Cardinality(A) \in Nat /\ Cardinality(Z) \in Nat
  BY <1>3, <1>4, FS_CardinalityType
<1>6. MinOccurrences \in Nat /\ MinOccurrences > 1
  BY AnalyticsConstants, HistoryConstants
<1> QED
  BY <1>2, <1>4, <1>5, <1>6 DEF Z

\* Whom a cooling is recommended for got hotter.
LEMMA HotterLater ==
    ASSUME HistoryInv, NEW a, RecommendsGpu(recorded, a, unit)
    PROVE  \E s, t \in Workload(recorded, a) : s.gpu.hotspot > t.gpu.hotspot /\ s.to > t.from
<1> DEFINE own == Workload(recorded, a)
           w == Window
           m == "gpu.hotspot"
           f == Early(own, w, m)
           g == Late(own, w, m)
           h == Windowed(own, w, m)
           r == CoolingReport(recorded, a, unit)
<1>1. AreSessions(own) /\ m \in AllMetrics /\ own \subseteq recorded
  BY RecordedAreSessions, SomeSessions, HotspotIsMetric DEF Workload
<1>2. r.direction = "WORSENING"
  BY DEF RecommendsGpu
<1>3. h # None /\ h.direction = "WORSENING"
  BY <1>2, CoolingParts DEF Window
<1> HIDE DEF own, w, r
<1>4. Rise(f, g) > 0
  <2> HIDE DEF m
  <2> QED
    BY <1>1, <1>3, WindowedParts
<1>5. w.from \in Int /\ w.middle \in Int /\ w.to \in Int /\ w.from <= w.middle /\ w.middle <= w.to
  BY HistoryWindows DEF w, HistoryInv
<1>6. PICK s \in own, t \in own : Measured(m, s) > Measured(m, t) /\ s.to > t.from
  <2> HIDE DEF m
  <2> QED
    BY <1>1, <1>4, <1>5, RiseHasWitness
<1> QED
  BY <1>6, HotspotIsMetric DEF own

LEMMA ClaimsEarned == HistoryInv => ClaimsAreEarned
<1> SUFFICES ASSUME HistoryInv PROVE ClaimsAreEarned
  OBVIOUS
<1>0. AreSessions(recorded) /\ IsFiniteSet(recorded) /\ Workloads(recorded) \subseteq Apps
  BY RecordedAreSessions DEF Workloads, AreSessions
<1>1. ASSUME NEW a \in Apps
      PROVE  LET within == Touching(Workload(recorded, a), Window.from, Window.to)
                 report == CoolingReport(recorded, a, unit)
             IN  /\ report.direction # "STABLE" => Cardinality(within) > MinSamples
                 /\ report.confidence = "HIGH" => Cardinality(within) > Generous
  BY EarnedTrend
<1>2. ASSUME NEW r \in Recommendations(recorded, TRUE, unit)
      PROVE  /\ r.about = "cpu" => Cardinality({s \in recorded : s.zones # {}}) > 1
             /\ r.about \in Apps => \E s, t \in Workload(recorded, r.about) :
                                       s.gpu.hotspot > t.gpu.hotspot /\ s.to > t.from
  <2>1. \/ r.about \in Workloads(recorded) /\ RecommendsGpu(recorded, r.about, unit)
        \/ r.about = "cpu" /\ RecommendsCpu(recorded, TRUE) # None
        \/ r.about = "nothing"
    BY RecommendationParts
  <2>2. "cpu" \notin Apps /\ "nothing" \notin Apps
    BY HistoryConstants
  <2>3. ASSUME r.about = "cpu" PROVE Cardinality({s \in recorded : s.zones # {}}) > 1
    <3>1. RecommendsCpu(recorded, TRUE) # None
      BY <1>0, <2>1, <2>2, <2>3
    <3> QED
      BY <1>0, <3>1, ManyAtCeiling
  <2>4. ASSUME r.about \in Apps
        PROVE  \E s, t \in Workload(recorded, r.about) : s.gpu.hotspot > t.gpu.hotspot /\ s.to > t.from
    <3>1. RecommendsGpu(recorded, r.about, unit)
      BY <2>1, <2>2, <2>4
    <3> QED
      BY <3>1, HotterLater
  <2> QED
    BY <2>3, <2>4
<1>3. ASSUME \A s, t \in recorded : s.workload = t.workload => s.gpu = t.gpu /\ s.zones = {}
      PROVE  Recommendations(recorded, TRUE, unit) = {NoAction}
  <2>1. \A a : ~RecommendsGpu(recorded, a, unit)
    <3> SUFFICES ASSUME NEW a PROVE CoolingReport(recorded, a, unit).direction = "STABLE"
      BY DEF RecommendsGpu
    <3>1. \A s, t \in Workload(recorded, a) : s.gpu = t.gpu
      BY <1>3 DEF Workload
    <3> QED
      BY <1>0, <3>1, SameHotspots
  <2>2. RecommendsCpu(recorded, TRUE) = None
    <3>1. AtCeiling(recorded) = {}
      BY <1>3, CeilingHasZones
    <3>2. Cardinality(AtCeiling(recorded)) = 0
      BY <3>1, FS_EmptySet
    <3>3. 0 < MinOccurrences
      BY AnalyticsConstants, HistoryConstants
    <3> QED
      BY <3>2, <3>3 DEF RecommendsCpu
  <2>3. {[about |-> a, confidence |-> CoolingReport(recorded, a, unit).confidence] :
            a \in {x \in Workloads(recorded) : RecommendsGpu(recorded, x, unit)}} = {}
    BY <2>1
  <2>4. {[about |-> "cpu", confidence |-> c] : c \in {RecommendsCpu(recorded, TRUE)} \ {None}} = {}
    BY <2>2
  <2> QED
    BY <2>3, <2>4 DEF Recommendations
<1> QED
  BY <1>1, <1>2, <1>3 DEF ClaimsAreEarned

-----------------------------------------------------------------------------
\* THE ANALYSES: CONCURRENCE

LEMMA MultipleDivided ==
    ASSUME NEW x \in Int, NEW p \in Nat, p > 0 PROVE (x * p) \div p = x
OBVIOUS

LEMMA UnusualIs ==
    ASSUME NEW d, NEW b, NEW least
    PROVE  Judged(d, b, least).unusual = IF Varies(b) THEN Beyond(d, b, 2)
                                         ELSE least # None /\ Abs(d.num) >= least * d.den
BY DEF Judged

\* The hotspot per watt is a multiple of the hotspot where the power is the same.
LEMMA RatioIsLinear ==
    ASSUME NEW S, AreSessions(S),
           \A s, t \in S : s.gpu.power = t.gpu.power /\ s.gpu.power # None /\ s.gpu.power > 0
    PROVE  \E k \in Nat : /\ k > 0
                          /\ \A A : A \subseteq S =>
                                Linear(ValuesOf("gpu.hotspot", A), ValuesOf("efficiency", A), k, 0)
<1>1. CASE S = {}
  <2>1. Linear(ValuesOf("gpu.hotspot", {}), ValuesOf("efficiency", {}), 1, 0)
    BY DEF Linear, ValuesOf, Known
  <2>2. 1 \in Nat /\ 1 > 0
    OBVIOUS
  <2>3. \A A : A \subseteq S => A = {}
    BY <1>1
  <2> QED
    BY <2>1, <2>2, <2>3
<1>2. CASE S # {}
  <2>1. PICK r \in S : TRUE
    BY <1>2
  <2> DEFINE p == r.gpu.power
             k == EfficiencyScale \div p
  <2>2. p \in Nat /\ p > 0 /\ EfficiencyScale = p * k /\ EfficiencyScale \in Nat /\ EfficiencyScale > 0
    <3>1. p \in Int \cup {None} /\ p # None /\ p > 0 /\ EfficiencyScale = p * k
      BY DEF AreSessions, IsSession
    <3>2. EfficiencyScale \in Nat /\ EfficiencyScale > 0
      BY AnalyticsConstants
    <3> QED
      BY <3>1, <3>2
  <2>3. k \in Nat /\ k > 0
    <3>1. k \in Int
      BY <2>2
    <3> HIDE DEF k, p
    <3>2. k <= 0 => p * k <= 0
      BY <2>2, <3>1
    <3> QED
      BY <2>2, <3>1, <3>2
  <2>4. \A s \in S : s.gpu.power = p /\ s.gpu.hotspot \in Int \cup {None}
    BY DEF AreSessions, IsSession
  <2> HIDE DEF k, p
  <2>5. \A s \in S : /\ (Measured("efficiency", s) # None) <=> (Measured("gpu.hotspot", s) # None)
                     /\ Measured("gpu.hotspot", s) # None =>
                           Measured("efficiency", s) = k * Measured("gpu.hotspot", s) + 0
    <3> SUFFICES ASSUME NEW s \in S
                 PROVE  /\ (Measured("efficiency", s) # None) <=> (Measured("gpu.hotspot", s) # None)
                        /\ Measured("gpu.hotspot", s) # None =>
                              Measured("efficiency", s) = k * Measured("gpu.hotspot", s) + 0
      OBVIOUS
    <3>1. Measured("gpu.hotspot", s) = s.gpu.hotspot /\ Measured("efficiency", s) = Efficiency(s.gpu.hotspot, p)
      BY <2>4 DEF Measured
    <3>2. CASE s.gpu.hotspot = None
      BY <3>1, <3>2 DEF Efficiency
    <3>3. CASE s.gpu.hotspot # None
      <4> DEFINE v == s.gpu.hotspot
      <4>1. v \in Int
        BY <2>4, <3>3
      <4>2. p # None
        BY <2>2, NoneIsApart
      <4>3. Efficiency(v, p) = (v * EfficiencyScale) \div p
        BY <2>2, <3>3, <4>2 DEF Efficiency
      <4> HIDE DEF v
      <4>4. v * EfficiencyScale = (k * v) * p
        BY <2>2, <2>3, <4>1
      <4>5. Efficiency(v, p) = k * v
        <5> DEFINE x == k * v
        <5>1. x \in Int
          BY <2>3, <4>1
        <5> HIDE DEF x
        <5>2. (x * p) \div p = x
          BY <2>2, <5>1, MultipleDivided
        <5> QED
          BY <4>3, <4>4, <5>2 DEF x
      <4>6. k * v \in Int
        BY <2>3, <4>1
      <4>7. k * v # None
        BY <4>6, NoneIsApart
      <4> QED
        BY <3>1, <3>3, <4>5, <4>6, <4>7 DEF v
    <3> QED
      BY <3>2, <3>3
  <2>6. ASSUME NEW A, A \subseteq S
        PROVE  Linear(ValuesOf("gpu.hotspot", A), ValuesOf("efficiency", A), k, 0)
    BY <2>5, <2>6 DEF Linear, Known, ValuesOf
  <2> QED
    BY <2>3, <2>6
<1> QED
  BY <1>1, <1>2

\* What the hotspot is above the core differs from it by a constant where the core is the same.
LEMMA DeltaIsLinear ==
    ASSUME NEW S, AreSessions(S), \A s, t \in S : s.gpu.core = t.gpu.core /\ s.gpu.core # None
    PROVE  \E c \in Int : \A A : A \subseteq S =>
               Linear(ValuesOf("gpu.hotspot", A), ValuesOf("delta", A), 1, c)
<1>1. CASE S = {}
  <2>1. Linear(ValuesOf("gpu.hotspot", {}), ValuesOf("delta", {}), 1, 0)
    BY DEF Linear, ValuesOf, Known
  <2>2. \A A : A \subseteq S => A = {}
    BY <1>1
  <2> QED
    BY <2>1, <2>2
<1>2. CASE S # {}
  <2>1. PICK r \in S : TRUE
    BY <1>2
  <2> DEFINE q == r.gpu.core
             c == -q
  <2>2. q \in Int /\ c \in Int
    BY DEF AreSessions, IsSession
  <2>3. \A s \in S : s.gpu.core = q /\ s.gpu.core # None /\ s.gpu.hotspot \in Int \cup {None}
    BY DEF AreSessions, IsSession
  <2>4. \A s \in S : /\ (Measured("delta", s) # None) <=> (Measured("gpu.hotspot", s) # None)
                     /\ Measured("gpu.hotspot", s) # None =>
                           Measured("delta", s) = 1 * Measured("gpu.hotspot", s) + c
    <3> SUFFICES ASSUME NEW s \in S
                 PROVE  /\ (Measured("delta", s) # None) <=> (Measured("gpu.hotspot", s) # None)
                        /\ Measured("gpu.hotspot", s) # None =>
                              Measured("delta", s) = 1 * Measured("gpu.hotspot", s) + c
      OBVIOUS
    <3> HIDE DEF q
    <3>1. /\ Measured("gpu.hotspot", s) = s.gpu.hotspot
          /\ Measured("delta", s) = IF s.gpu.hotspot = None THEN None ELSE s.gpu.hotspot - q
      BY <2>3 DEF Measured
    <3>2. CASE s.gpu.hotspot = None
      BY <3>1, <3>2
    <3>3. CASE s.gpu.hotspot # None
      <4>1. s.gpu.hotspot \in Int /\ s.gpu.hotspot - q \in Int
        BY <2>2, <2>3, <3>3
      <4>2. s.gpu.hotspot - q # None
        BY <4>1, NoneIsApart
      <4> QED
        BY <2>2, <3>1, <3>3, <4>1, <4>2
    <3> QED
      BY <3>2, <3>3
  <2> HIDE DEF q, c
  <2>5. ASSUME NEW A, A \subseteq S
        PROVE  Linear(ValuesOf("gpu.hotspot", A), ValuesOf("delta", A), 1, c)
    BY <2>4, <2>5 DEF Linear, Known, ValuesOf
  <2> QED
    BY <2>2, <2>5
<1> QED
  BY <1>1, <1>2

\* The trend of a metric that is a multiple of the hotspot, and has no least difference.
LEMMA RatioConcurs ==
    ASSUME NEW S, AreSessions(S), NEW w,
           Touching(S, w.from, w.middle) \subseteq S, Touching(S, w.middle, w.to) \subseteq S,
           \A s, t \in S : s.gpu.power = t.gpu.power /\ s.gpu.power # None /\ s.gpu.power > 0,
           NEW h, h = Windowed(S, w, "gpu.hotspot"), NEW r, r = EfficiencyTrend(S, w)
    PROVE  IF h = None THEN r = None
           ELSE r.direction = IF Varies(h.older) THEN h.direction ELSE "STABLE"
<1> DEFINE m == "gpu.hotspot"
           e == "efficiency"
           f == Early(S, w, m)
           g == Late(S, w, m)
           F == Early(S, w, e)
           G == Late(S, w, e)
<1>1. PICK k \in Nat : k > 0 /\ Linear(f, F, k, 0) /\ Linear(g, G, k, 0)
  <2>1. PICK k \in Nat : k > 0 /\ \A A : A \subseteq S => Linear(ValuesOf(m, A), ValuesOf(e, A), k, 0)
    BY RatioIsLinear
  <2> QED
    BY <2>1 DEF Early, Late
<1>2. m \in AllMetrics /\ e \in AllMetrics /\ r = Windowed(S, w, e) /\ h = Windowed(S, w, m)
  BY HotspotIsMetric DEF EfficiencyTrend
<1>3. Least(e) = None
  BY DEF Least
<1> HIDE DEF m, e
<1>4. /\ IsData(f) /\ IsData(g)
      /\ h = None <=> ~Comparable(f, g, MinSamples)
      /\ h # None =>
            /\ h.older = Stat(f, MinSamples)
            /\ h.direction = IF ~Judged(Delta(f, g), Stat(f, MinSamples), Least(m)).unusual
                             THEN "STABLE"
                             ELSE IF Rise(f, g) > 0 THEN "WORSENING" ELSE "IMPROVING"
  BY <1>2, WindowedParts
<1>5. /\ IsData(F) /\ IsData(G)
      /\ r = None <=> ~Comparable(F, G, MinSamples)
      /\ r # None =>
            r.direction = IF ~Judged(Delta(F, G), Stat(F, MinSamples), Least(e)).unusual
                          THEN "STABLE"
                          ELSE IF Rise(F, G) > 0 THEN "WORSENING" ELSE "IMPROVING"
  BY <1>2, WindowedParts
<1> HIDE DEF f, g, F, G
<1>6. MinSamples \in Nat /\ 0 \in Int
  BY AnalyticsConstants
<1>7. /\ Comparable(F, G, MinSamples) <=> Comparable(f, g, MinSamples)
      /\ (Rise(F, G) > 0) <=> (Rise(f, g) > 0)
      /\ Comparable(f, g, MinSamples) =>
            /\ Varies(Stat(F, MinSamples)) <=> Varies(Stat(f, MinSamples))
            /\ Varies(Stat(f, MinSamples)) =>
                  (Beyond(Delta(F, G), Stat(F, MinSamples), 2) <=> Beyond(Delta(f, g), Stat(f, MinSamples), 2))
  BY <1>1, <1>4, <1>5, <1>6, LinearShift
<1>8. CASE h = None
  BY <1>4, <1>5, <1>7, <1>8
<1>9. CASE h # None
  <2>1. Comparable(f, g, MinSamples) /\ r # None
    BY <1>4, <1>5, <1>7, <1>9
  <2> DEFINE u == Judged(Delta(f, g), Stat(f, MinSamples), Least(m)).unusual
             U == Judged(Delta(F, G), Stat(F, MinSamples), Least(e)).unusual
             v == Varies(Stat(f, MinSamples))
             V == Varies(Stat(F, MinSamples))
             x == Beyond(Delta(f, g), Stat(f, MinSamples), 2)
             X == Beyond(Delta(F, G), Stat(F, MinSamples), 2)
             y == Rise(f, g) > 0
             Y == Rise(F, G) > 0
  <2>2. ~V => U = FALSE
    BY <1>3, UnusualIs
  <2>3. /\ V => (U <=> X)
        /\ v => (u <=> x)
    BY UnusualIs
  <2>4. (V <=> v) /\ (v => (X <=> x)) /\ (Y <=> y)
    BY <1>7, <2>1
  <2>5. /\ r.direction = IF ~U THEN "STABLE" ELSE IF Y THEN "WORSENING" ELSE "IMPROVING"
        /\ h.direction = IF ~u THEN "STABLE" ELSE IF y THEN "WORSENING" ELSE "IMPROVING"
        /\ Varies(h.older) <=> v
    BY <1>4, <1>5, <1>9, <2>1
  <2> HIDE DEF u, U, v, V, x, X, y, Y
  <2>6. r.direction = IF v THEN h.direction ELSE "STABLE"
    <3>1. CASE v
      <4>1. (U <=> u) /\ (Y <=> y)
        BY <2>3, <2>4, <3>1, Zenon
      <4> QED
        BY <2>5, <3>1, <4>1
    <3>2. CASE ~v
      <4>1. ~U
        BY <2>2, <2>4, <3>2, Zenon
      <4> QED
        BY <2>5, <3>2, <4>1
    <3> QED
      BY <3>1, <3>2
  <2> QED
    BY <1>9, <2>5, <2>6
<1> QED
  BY <1>8, <1>9

\* The trend of a metric that differs from the hotspot by a constant.
LEMMA DeltaConcurs ==
    ASSUME NEW S, AreSessions(S), NEW w,
           \A s, t \in S : s.gpu.core = t.gpu.core /\ s.gpu.core # None,
           NEW h, h = Windowed(S, w, "gpu.hotspot"), NEW r, r = DeltaTrend(S, w)
    PROVE  IF h = None THEN r = None ELSE r.direction = h.direction
<1> DEFINE m == "gpu.hotspot"
           e == "delta"
           f == Early(S, w, m)
           g == Late(S, w, m)
           F == Early(S, w, e)
           G == Late(S, w, e)
           one == 1
<1>1. PICK c \in Int : Linear(f, F, one, c) /\ Linear(g, G, one, c)
  <2>1. PICK c \in Int : \A A : A \subseteq S => Linear(ValuesOf(m, A), ValuesOf(e, A), one, c)
    BY DeltaIsLinear
  <2>2. Touching(S, w.from, w.middle) \subseteq S /\ Touching(S, w.middle, w.to) \subseteq S
    BY DEF Touching
  <2> QED
    BY <2>1, <2>2 DEF Early, Late
<1>2. m \in AllMetrics /\ e \in AllMetrics /\ r = Windowed(S, w, e) /\ h = Windowed(S, w, m)
  BY HotspotIsMetric DEF DeltaTrend
<1>3. Least(e) = Least(m)
  BY DEF Least
<1> HIDE DEF m, e
<1>4. /\ IsData(f) /\ IsData(g)
      /\ h = None <=> ~Comparable(f, g, MinSamples)
      /\ h # None =>
            h.direction = IF ~Judged(Delta(f, g), Stat(f, MinSamples), Least(m)).unusual
                          THEN "STABLE"
                          ELSE IF Rise(f, g) > 0 THEN "WORSENING" ELSE "IMPROVING"
  BY <1>2, WindowedParts
<1>5. /\ IsData(F) /\ IsData(G)
      /\ r = None <=> ~Comparable(F, G, MinSamples)
      /\ r # None =>
            r.direction = IF ~Judged(Delta(F, G), Stat(F, MinSamples), Least(e)).unusual
                          THEN "STABLE"
                          ELSE IF Rise(F, G) > 0 THEN "WORSENING" ELSE "IMPROVING"
  BY <1>2, WindowedParts
<1>6. MinSamples \in Nat /\ one \in Nat /\ one > 0 /\ one = 1
  BY AnalyticsConstants
<1> HIDE DEF f, g, F, G, one
<1>7. /\ Comparable(F, G, MinSamples) <=> Comparable(f, g, MinSamples)
      /\ Rise(F, G) = Rise(f, g) /\ Delta(F, G) = Delta(f, g)
      /\ Comparable(f, g, MinSamples) =>
            /\ Varies(Stat(F, MinSamples)) <=> Varies(Stat(f, MinSamples))
            /\ Varies(Stat(f, MinSamples)) =>
                  (Beyond(Delta(F, G), Stat(F, MinSamples), 2) <=> Beyond(Delta(f, g), Stat(f, MinSamples), 2))
  BY <1>1, <1>4, <1>5, <1>6, LinearShift
<1>8. CASE h = None
  BY <1>4, <1>5, <1>7, <1>8
<1>9. CASE h # None
  <2>1. Comparable(f, g, MinSamples) /\ r # None
    BY <1>4, <1>5, <1>7, <1>9
  <2> DEFINE d == Delta(f, g)
             u == Judged(d, Stat(f, MinSamples), Least(m)).unusual
             U == Judged(d, Stat(F, MinSamples), Least(m)).unusual
             v == Varies(Stat(f, MinSamples))
             V == Varies(Stat(F, MinSamples))
             x == Beyond(d, Stat(f, MinSamples), 2)
             X == Beyond(d, Stat(F, MinSamples), 2)
             y == Least(m) # None /\ Abs(d.num) >= Least(m) * d.den
  <2>2. /\ V => (U <=> X)
        /\ ~V => (U <=> y)
        /\ v => (u <=> x)
        /\ ~v => (u <=> y)
    <3>1. U = (IF V THEN X ELSE y) /\ u = (IF v THEN x ELSE y)
      BY UnusualIs
    <3> HIDE DEF u, U, v, V, x, X, y
    <3> QED
      BY <3>1, Zenon
  <2>3. (V <=> v) /\ (v => (X <=> x))
    BY <1>7, <2>1
  <2>4. /\ r.direction = IF ~U THEN "STABLE" ELSE IF Rise(f, g) > 0 THEN "WORSENING" ELSE "IMPROVING"
        /\ h.direction = IF ~u THEN "STABLE" ELSE IF Rise(f, g) > 0 THEN "WORSENING" ELSE "IMPROVING"
    BY <1>3, <1>4, <1>5, <1>7, <1>9, <2>1
  <2> HIDE DEF u, U, v, V, x, X, y
  <2>5. U <=> u
    BY <2>2, <2>3, Zenon
  <2> QED
    BY <1>9, <2>4, <2>5
<1> QED
  BY <1>8, <1>9

\* Scores that are all alike have no trend.
LEMMA AlikeScores ==
    ASSUME NEW S, AreSessions(S), NEW w, NEW t, t = ScoreTrend(HealthScores(S), w)
    PROVE  ScoresConcur(HealthScores(S), t)
<1> DEFINE score == HealthScores(S)
           A == Touching(DOMAIN score, w.from, w.middle)
           B == Touching(DOMAIN score, w.middle, w.to)
           f == Restrict(score, A)
           g == Restrict(score, B)
<1> SUFFICES ASSUME t # None, Cardinality({score[s] : s \in DOMAIN score}) = 1
             PROVE  t.direction = "STABLE"
  BY DEF ScoresConcur
<1>1. DOMAIN score = S /\ \A s \in S : score[s] \in Int
  <2>1. \A s \in S : score[s] = HealthScore(s, Workload(S, s.workload)) /\ IsSession(s)
    BY OwnScores DEF AreSessions
  <2>2. \A s \in S : score[s] \in Int
    BY <2>1, ScoreType
  <2> QED
    BY <2>2 DEF HealthScores
<1>2. \A x, y \in S : score[x] = score[y]
  <2> SUFFICES ASSUME NEW x \in S, NEW y \in S, score[x] # score[y] PROVE FALSE
    OBVIOUS
  <2> DEFINE V == {score[s] : s \in DOMAIN score}
             phi == [s \in S |-> score[s]]
  <2>1. phi \in Surjection(S, V) /\ IsFiniteSet(S)
    <3> HIDE DEF score
    <3> QED
      BY <1>1 DEF Surjection, AreSessions
  <2>2. IsFiniteSet(V)
    <3> HIDE DEF V, phi, score
    <3> QED
      BY <2>1, FS_Surjection
  <2>3. score[x] \in V /\ score[y] \in V
    <3> HIDE DEF score
    <3> QED
      BY <1>1
  <2>4. Cardinality(V) > 1
    <3> HIDE DEF V, score
    <3> QED
      BY <2>2, <2>3, TwoOfMany
  <2> QED
    BY <2>4
<1>3. A \subseteq S /\ B \subseteq S
  <2> HIDE DEF score
  <2> QED
    BY <1>1 DEF Touching
<1>4. t = Trend(f, g, None, FALSE, MinSamples)
  BY DEF ScoreTrend
<1> HIDE DEF score, A, B
<1>5. /\ IsData(f) /\ \A x \in Known(f) : x \in S /\ f[x] = score[x]
      /\ IsData(g) /\ \A x \in Known(g) : x \in S /\ g[x] = score[x]
  <2>1. IsFiniteSet(A) /\ IsFiniteSet(B)
    BY <1>3, FS_Subset DEF AreSessions
  <2>2. f = [x \in A |-> score[x]] /\ g = [x \in B |-> score[x]]
    BY DEF Restrict
  <2>3. \A x \in A : score[x] \in Int
    BY <1>1, <1>3
  <2>4. \A x \in B : score[x] \in Int
    BY <1>1, <1>3
  <2> QED
    BY <1>3, <2>1, <2>2, <2>3, <2>4 DEF IsData, Known
<1> HIDE DEF f, g
<1>6. Rise(f, g) = 0
  <2>1. \A x \in Known(f), y \in Known(g) : f[x] = g[y]
    BY <1>2, <1>5
  <2> QED
    BY <1>5, <2>1, Flat
<1>7. MinSamples \in Nat /\ IsLeast(None) /\ FALSE \in BOOLEAN
  BY AnalyticsConstants DEF IsLeast
<1> DEFINE worse == FALSE
           least == None
<1>8. t = Trend(f, g, least, worse, MinSamples) /\ IsLeast(least) /\ worse \in BOOLEAN
  BY <1>4, <1>7
<1> HIDE DEF worse, least
<1> QED
  BY <1>5, <1>6, <1>7, <1>8, TrendParts

LEMMA TrendsAgree == HistoryInv => TrendsConcur
<1> SUFFICES ASSUME HistoryInv PROVE TrendsConcur
  OBVIOUS
<1>1. ASSUME NEW a \in Workloads(recorded),
             NEW own, own = Touching(Workload(recorded, a), Window.from, Window.to)
      PROVE  ConcurIn(own, Windowed(own, Window, "gpu.hotspot"),
                      EfficiencyTrend(own, Window), DeltaTrend(own, Window))
  <2>1. AreSessions(own)
    <3>1. own \subseteq recorded
      BY <1>1 DEF Touching, Workload
    <3> QED
      BY <3>1, RecordedAreSessions, SomeSessions
  <2>2. Touching(own, Window.from, Window.middle) \subseteq own /\ Touching(own, Window.middle, Window.to) \subseteq own
    BY DEF Touching
  <2> DEFINE h == Windowed(own, Window, "gpu.hotspot")
             r == EfficiencyTrend(own, Window)
             d == DeltaTrend(own, Window)
  <2>3. (\A s, t \in own : s.gpu.power = t.gpu.power /\ s.gpu.power # None /\ s.gpu.power > 0) =>
           IF h = None THEN r = None
           ELSE r.direction = IF Varies(h.older) THEN h.direction ELSE "STABLE"
    BY <2>1, <2>2, RatioConcurs
  <2>4. (\A s, t \in own : s.gpu.core = t.gpu.core /\ s.gpu.core # None) =>
           IF h = None THEN d = None ELSE d.direction = h.direction
    BY <2>1, DeltaConcurs
  <2> HIDE DEF h, r, d
  <2>5. ConcurIn(own, h, r, d)
    BY <2>3, <2>4 DEF ConcurIn
  <2> QED
    BY <2>5 DEF h, r, d
<1>2. ScoresConcur(HealthScores(Touching(recorded, Window.from, Window.to)), HealthTrend(recorded, Window))
  <2>1. AreSessions(Touching(recorded, Window.from, Window.to))
    BY RecordedAreSessions, SomeSessions DEF Touching
  <2> QED
    BY <2>1, AlikeScores DEF HealthTrend
<1> QED
  BY <1>1, <1>2 DEF TrendsConcur

-----------------------------------------------------------------------------
\* THE ANALYSES: REST

Bucket(u, busyTemp) ==
    [start |-> u, end |-> u + 1,
     temp    |-> IF BusyAt(u) THEN busyTemp ELSE resting[u],
     hotspot |-> IF BusyAt(u) THEN busyTemp ELSE resting[u] + 10,
     load    |-> 0,
     fan     |-> IF BusyAt(u) THEN 2 ELSE 1]

\* What is recorded of a unit at rest.
RestBucket(u) ==
    [start |-> u, end |-> u + 1, temp |-> resting[u], hotspot |-> resting[u] + 10, load |-> 0, fan |-> 1]

Watch == {u \in 0 .. unit - 1 : resting[u] # None}

Rests(a, b) == {u \in Watch : ~BusyAt(u) /\ a <= u /\ u < b}

LEMMA TelemetryIs ==
    ASSUME NEW t PROVE TelemetryUpTo(t) = {Bucket(u, t) : u \in Watch}
BY DEF TelemetryUpTo, Bucket, Watch

LEMMA WatchType ==
    ASSUME HistoryInv
    PROVE  /\ IsFiniteSet(Watch) /\ Watch \subseteq 0 .. unit - 1
           /\ \A u \in Watch : resting[u] \in Int
<1>1. \A u \in 0 .. unit - 1 : resting[u] \in Int \cup {None}
  <2>1. PICK c \in Courses : resting = c.resting
    BY DEF HistoryInv
  <2>2. c.resting \in [0 .. LastUnit - 1 -> Int \cup {None}]
    BY HistoryConstants
  <2>3. 0 .. unit - 1 \subseteq 0 .. LastUnit - 1
    BY HistoryConstants DEF HistoryInv
  <2> QED
    BY <2>1, <2>2, <2>3
<1>2. IsFiniteSet(0 .. unit - 1)
  BY FS_Interval DEF HistoryInv
<1> QED
  BY <1>1, <1>2, FS_Subset DEF Watch

\* A bucket is idle if no session began with it.
LEMMA BucketIdle ==
    ASSUME HistoryInv, NEW t, NEW S, S \subseteq recorded, NEW u \in Watch
    PROVE  (Bucket(u, t) \in IdleBuckets(TelemetryUpTo(t), S)) <=> (\A s \in S : s.from # u)
<1>1. Bucket(u, t) \in TelemetryUpTo(t)
  BY TelemetryIs
<1>2. u \in Nat
  BY WatchType DEF HistoryInv
<1>3. Bucket(u, t).start = u /\ Bucket(u, t).end = u + 1 /\ u + 1 # None
  <2>1. u + 1 \in Int
    BY <1>2
  <2> QED
    BY <2>1, NoneIsApart DEF Bucket
<1>4. \A s \in S : s.from \in Nat /\ s.to = s.from + 1
  BY RecordedAreSessions DEF AreSessions, IsSession
<1>5. (Bucket(u, t) \in IdleBuckets(TelemetryUpTo(t), S)) <=> \A s \in S : u >= s.to \/ u + 1 <= s.from
  BY <1>1, <1>3 DEF IdleBuckets
<1>6. \A s \in S : (u >= s.to \/ u + 1 <= s.from) <=> s.from # u
  BY <1>2, <1>4
<1> QED
  BY <1>5, <1>6

LEMMA IdleAreBuckets ==
    ASSUME NEW t, NEW S, NEW b \in IdleBuckets(TelemetryUpTo(t), S)
    PROVE  \E u \in Watch : b = Bucket(u, t)
BY TelemetryIs DEF IdleBuckets

LEMMA AtRest ==
    ASSUME NEW u, ~BusyAt(u), NEW t PROVE Bucket(u, t) = RestBucket(u)
BY DEF Bucket, RestBucket

\* The idle buckets of a part of a window are the units at rest in it.
LEMMA IdleInWindow ==
    ASSUME HistoryInv, NEW t, NEW from \in Int, NEW to \in Int, NEW a \in Int, NEW b \in Int,
           from <= a, b <= to
    PROVE  Starting(IdleBuckets(TelemetryUpTo(t), Touching(recorded, from, to)), a, b)
             = {RestBucket(u) : u \in Rests(a, b)}
<1> DEFINE S == Touching(recorded, from, to)
           I == IdleBuckets(TelemetryUpTo(t), S)
<1>1. S \subseteq recorded
  BY DEF Touching
<1>2. ASSUME NEW u \in Watch, a <= u, u < b PROVE (\A s \in S : s.from # u) <=> ~BusyAt(u)
  <2>1. u \in Nat
    BY WatchType DEF HistoryInv
  <2>2. \A s \in recorded : s.from \in Nat /\ s.to = s.from + 1
    BY RecordedAreSessions DEF AreSessions, IsSession
  <2>3. \A s \in recorded : s.from = u => s \in S
    BY <1>2, <2>1, <2>2 DEF Touching
  <2> QED
    BY <1>1, <2>3 DEF BusyAt
<1>3. ASSUME NEW u \in Watch, a <= u, u < b PROVE (Bucket(u, t) \in I) <=> ~BusyAt(u)
  <2>1. (Bucket(u, t) \in I) <=> (\A s \in S : s.from # u)
    <3> HIDE DEF S
    <3> QED
      BY <1>1, BucketIdle
  <2> QED
    BY <1>2, <1>3, <2>1
<1> HIDE DEF S
<1>4. \A u : Bucket(u, t).start = u /\ RestBucket(u).start = u
  BY DEF Bucket, RestBucket
<1>5. ASSUME NEW x \in Starting(I, a, b) PROVE x \in {RestBucket(u) : u \in Rests(a, b)}
  <2>1. x \in I /\ a <= x.start /\ x.start < b
    BY DEF Starting
  <2>2. PICK u \in Watch : x = Bucket(u, t)
    BY <2>1, IdleAreBuckets
  <2>3. a <= u /\ u < b /\ ~BusyAt(u)
    BY <1>3, <1>4, <2>1, <2>2
  <2> QED
    BY <2>2, <2>3, AtRest DEF Rests
<1>6. ASSUME NEW x \in {RestBucket(u) : u \in Rests(a, b)} PROVE x \in Starting(I, a, b)
  <2>1. PICK u \in Rests(a, b) : x = RestBucket(u)
    BY <1>6
  <2>2. u \in Watch /\ ~BusyAt(u) /\ a <= u /\ u < b
    BY DEF Rests
  <2>3. x = Bucket(u, t) /\ x \in I
    BY <1>3, <2>1, <2>2, AtRest
  <2> QED
    BY <1>4, <2>2, <2>3 DEF Starting
<1> QED
  BY <1>5, <1>6 DEF S

LEMMA IdleOfAll ==
    ASSUME HistoryInv, NEW t
    PROVE  IdleBuckets(TelemetryUpTo(t), recorded) = {RestBucket(u) : u \in {v \in Watch : ~BusyAt(v)}}
<1> DEFINE I == IdleBuckets(TelemetryUpTo(t), recorded)
<1>1. \A u \in Watch : (Bucket(u, t) \in I) <=> ~BusyAt(u)
  BY BucketIdle DEF BusyAt
<1>2. ASSUME NEW x \in I PROVE x \in {RestBucket(u) : u \in {v \in Watch : ~BusyAt(v)}}
  <2>1. PICK u \in Watch : x = Bucket(u, t)
    BY IdleAreBuckets
  <2>2. ~BusyAt(u)
    BY <1>1, <2>1
  <2> QED
    BY <2>1, <2>2, AtRest
<1>3. ASSUME NEW x \in {RestBucket(u) : u \in {v \in Watch : ~BusyAt(v)}} PROVE x \in I
  <2>1. PICK u \in Watch : ~BusyAt(u) /\ x = RestBucket(u)
    BY <1>3
  <2> QED
    BY <1>1, <2>1, AtRest
<1> HIDE DEF I
<1> QED
  BY <1>2, <1>3 DEF I

\* The values of a metric at some units at rest.
RestValues(A, m) == [b \in {RestBucket(u) : u \in A} |-> b[m]]

LEMMA RestData ==
    ASSUME HistoryInv, NEW A, A \subseteq Watch, NEW m \in {"temp", "hotspot"}
    PROVE  /\ IsData(RestValues(A, m)) /\ IsFiniteSet(A)
           /\ Known(RestValues(A, m)) = {RestBucket(u) : u \in A}
           /\ \A u \in A : /\ resting[u] \in Int
                           /\ RestValues(A, m)[RestBucket(u)] = resting[u] + (IF m = "temp" THEN 0 ELSE 10)
           /\ Number(RestValues(A, m)) <= Cardinality(A)
<1> DEFINE B == {RestBucket(u) : u \in A}
           f == RestValues(A, m)
           phi == [u \in A |-> RestBucket(u)]
<1>1. IsFiniteSet(A) /\ \A u \in A : resting[u] \in Int
  BY WatchType, FS_Subset
<1>2. phi \in Surjection(A, B)
  BY DEF Surjection
<1>3. IsFiniteSet(B) /\ Cardinality(B) <= Cardinality(A)
  <2> HIDE DEF B, phi
  <2> QED
    BY <1>1, <1>2, FS_Surjection
<1>4. \A u \in A : RestBucket(u)[m] = resting[u] + (IF m = "temp" THEN 0 ELSE 10)
  <2> SUFFICES ASSUME NEW u \in A PROVE RestBucket(u)[m] = resting[u] + (IF m = "temp" THEN 0 ELSE 10)
    OBVIOUS
  <2>1. RestBucket(u).temp = resting[u] /\ RestBucket(u).hotspot = resting[u] + 10
    BY DEF RestBucket
  <2>2. CASE m = "temp"
    BY <1>1, <2>1, <2>2
  <2>3. CASE m = "hotspot"
    BY <1>1, <2>1, <2>3
  <2> QED
    BY <2>2, <2>3
<1>5. \A b \in B : b[m] \in Int
  BY <1>1, <1>4
<1>6. f = [b \in B |-> b[m]]
  BY DEF RestValues
<1> HIDE DEF f
<1>7. IsData(f) /\ Known(f) = B
  <2> HIDE DEF B
  <2>1. \A b \in B : f[b] \in Int /\ f[b] # None
    BY <1>5, <1>6, NoneIsApart
  <2> QED
    BY <1>3, <1>6, <2>1 DEF IsData, Known
<1>8. \A u \in A : f[RestBucket(u)] = resting[u] + (IF m = "temp" THEN 0 ELSE 10)
  BY <1>4, <1>6
<1> QED
  BY <1>1, <1>3, <1>7, <1>8 DEF f, Number

LEMMA IdleTrendIs ==
    ASSUME HistoryInv, NEW t, NEW w, w.from \in Int, w.middle \in Int, w.to \in Int,
           w.from <= w.middle, w.middle <= w.to, NEW m
    PROVE  IdleTrend(TelemetryUpTo(t), recorded, w, m)
             = Trend(RestValues(Rests(w.from, w.middle), m), RestValues(Rests(w.middle, w.to), m),
                     LeastDegrees, TRUE, MinIdle)
<1> DEFINE I == IdleBuckets(TelemetryUpTo(t), Touching(recorded, w.from, w.to))
<1>1. /\ Starting(I, w.from, w.middle) = {RestBucket(u) : u \in Rests(w.from, w.middle)}
      /\ Starting(I, w.middle, w.to) = {RestBucket(u) : u \in Rests(w.middle, w.to)}
  <2> DEFINE a == w.from
             b == w.middle
             c == w.to
  <2>1. a \in Int /\ b \in Int /\ c \in Int /\ a <= a /\ a <= b /\ b <= c /\ c <= c
    OBVIOUS
  <2> HIDE DEF a, b, c
  <2>2. /\ Starting(IdleBuckets(TelemetryUpTo(t), Touching(recorded, a, c)), a, b) = {RestBucket(u) : u \in Rests(a, b)}
        /\ Starting(IdleBuckets(TelemetryUpTo(t), Touching(recorded, a, c)), b, c) = {RestBucket(u) : u \in Rests(b, c)}
    BY <2>1, IdleInWindow
  <2> QED
    BY <2>2 DEF a, b, c
<1>2. IdleTrend(TelemetryUpTo(t), recorded, w, m)
        = Trend([b \in Starting(I, w.from, w.middle) |-> b[m]], [b \in Starting(I, w.middle, w.to) |-> b[m]],
                LeastDegrees, TRUE, MinIdle)
  BY DEF IdleTrend
<1> HIDE DEF I
<1> QED
  BY <1>1, <1>2 DEF RestValues

LEMMA IdleConstants == IsLeast(LeastDegrees) /\ MinIdle \in Nat /\ TRUE \in BOOLEAN
BY AnalyticsConstants DEF IsLeast, LeastDegrees

\* Nothing that does not rise at rest is projected.
LEMMA NothingProjected ==
    ASSUME HistoryInv, NEW t, NEW m \in {"temp", "hotspot"},
           \A u, v \in Rests(Window.from, Window.to) : u <= v => resting[u] >= resting[v]
    PROVE  Outlook(TelemetryUpTo(t), recorded, unit)[m].projection = None
<1> DEFINE w == Window
           A == Rests(w.from, w.middle)
           B == Rests(w.middle, w.to)
           f == RestValues(A, m)
           g == RestValues(B, m)
           trend == IdleTrend(TelemetryUpTo(t), recorded, w, m)
<1>1. Outlook(TelemetryUpTo(t), recorded, unit)[m].projection = Projection(trend)
  BY DEF Outlook, Window
<1>2. w.from \in Int /\ w.middle \in Int /\ w.to \in Int /\ w.from <= w.middle /\ w.middle <= w.to
  BY HistoryWindows DEF HistoryInv
<1> HIDE DEF w
<1>3. trend = Trend(f, g, LeastDegrees, TRUE, MinIdle)
  BY <1>2, IdleTrendIs
<1>4. A \subseteq Watch /\ B \subseteq Watch
  BY DEF Rests
<1>5. \A u \in A, v \in B : resting[u] >= resting[v]
  <2> SUFFICES ASSUME NEW u \in A, NEW v \in B PROVE resting[u] >= resting[v]
    OBVIOUS
  <2>1. u \in Int /\ v \in Int
    BY <1>4, WatchType DEF HistoryInv
  <2>2. /\ u \in Watch /\ ~BusyAt(u) /\ w.from <= u /\ u < w.middle
        /\ v \in Watch /\ ~BusyAt(v) /\ w.middle <= v /\ v < w.to
    BY DEF Rests
  <2>3. w.from <= u /\ u < w.to /\ w.from <= v /\ v < w.to /\ u <= v
    BY <1>2, <2>1, <2>2
  <2>4. u \in Rests(Window.from, Window.to) /\ v \in Rests(Window.from, Window.to)
    BY <2>2, <2>3 DEF Rests, w
  <2> QED
    BY <2>3, <2>4
<1> HIDE DEF A, B
<1>6. /\ IsData(f) /\ Known(f) = {RestBucket(u) : u \in A}
      /\ \A u \in A : /\ resting[u] \in Int
                      /\ f[RestBucket(u)] = resting[u] + (IF m = "temp" THEN 0 ELSE 10)
      /\ IsData(g) /\ Known(g) = {RestBucket(u) : u \in B}
      /\ \A u \in B : /\ resting[u] \in Int
                      /\ g[RestBucket(u)] = resting[u] + (IF m = "temp" THEN 0 ELSE 10)
  BY <1>4, RestData
<1> HIDE DEF f, g, trend
<1>7. Rise(f, g) <= 0 /\ Rise(f, g) \in Int
  <2>1. \A x \in Known(f), y \in Known(g) : f[x] >= g[y]
    <3> SUFFICES ASSUME NEW x \in Known(f), NEW y \in Known(g) PROVE f[x] >= g[y]
      OBVIOUS
    <3>1. PICK u \in A : x = RestBucket(u)
      BY <1>6
    <3>2. PICK v \in B : y = RestBucket(v)
      BY <1>6
    <3>3. resting[u] >= resting[v] /\ resting[u] \in Int /\ resting[v] \in Int
      BY <1>5, <1>6
    <3> QED
      BY <1>6, <3>1, <3>2, <3>3
  <2> QED
    BY <1>6, <2>1, Falls, RiseType
<1>8. trend # None => trend.direction # "WORSENING"
  <2> DEFINE worse == TRUE
             least == LeastDegrees
  <2>1. trend = Trend(f, g, least, worse, MinIdle) /\ worse \in BOOLEAN /\ worse /\ IsLeast(least) /\ MinIdle \in Nat
    BY <1>3, IdleConstants
  <2> HIDE DEF worse, least
  <2>2. trend # None /\ worse /\ trend.direction = "WORSENING" => Rise(f, g) > 0
    BY <1>6, <2>1, TrendParts
  <2>3. ~(Rise(f, g) > 0)
    BY <1>7
  <2> QED
    BY <2>1, <2>2, <2>3, Zenon
<1>9. Projection(trend) = None
  BY <1>8 DEF Projection
<1> QED
  BY <1>1, <1>9

LEMMA MaxOfTwo ==
    ASSUME NEW a \in Int, NEW b \in Int
    PROVE  Max({a, b}) = IF b <= a THEN a ELSE b
<1>1. CASE b <= a
  <2>1. \A k \in {a, b} : k <= a
    BY <1>1
  <2> QED
    BY <1>1, <2>1, MaxIsGreatest
<1>2. CASE ~(b <= a)
  <2>1. \A k \in {a, b} : k <= b
    BY <1>2
  <2> QED
    BY <1>2, <2>1, MaxIsGreatest
<1> QED
  BY <1>1, <1>2

\* Without telemetry in its later half nothing is said of a window.
LEMMA UnwatchedHalf ==
    ASSUME HistoryInv, NEW t, NEW those,
           \A u \in Window.middle .. unit - 1 : u < 0 \/ resting[u] = None
    PROVE  IncidentTrend(those, TelemetryUpTo(t), Window) = None
<1> DEFINE a == Window.middle
           b == Window.to
<1>1. a \in Int /\ b = unit /\ unit \in Int
  BY HistoryWindows DEF HistoryInv
<1>2. Starting(TelemetryUpTo(t), a, b) = {}
  <2> SUFFICES ASSUME NEW x \in Starting(TelemetryUpTo(t), a, b) PROVE FALSE
    OBVIOUS
  <2>1. PICK u \in Watch : x = Bucket(u, t)
    BY TelemetryIs DEF Starting
  <2>2. a <= u /\ u < b /\ u \in 0 .. unit - 1 /\ resting[u] # None
    <3>1. x.start = u
      BY <2>1 DEF Bucket
    <3> QED
      BY <3>1 DEF Starting, Watch
  <2> QED
    BY <1>1, <2>2
<1>3. ~Watched(TelemetryUpTo(t), a, b)
  <2> DEFINE k == Max({1, b - a})
  <2>1. Cardinality(Starting(TelemetryUpTo(t), a, b)) = 0
    BY <1>2, FS_EmptySet
  <2>2. k \in Int /\ k >= 1
    <3>1. 1 \in Int /\ b - a \in Int
      BY <1>1
    <3> DEFINE d == b - a
    <3>2. Max({1, d}) = IF d <= 1 THEN 1 ELSE d
      <4> HIDE DEF d
      <4> QED
        BY <3>1, MaxOfTwo DEF d
    <3> QED
      BY <3>1, <3>2
  <2>3. Watched(TelemetryUpTo(t), a, b) <=> 100 * Cardinality(Starting(TelemetryUpTo(t), a, b)) >= 40 * k
    BY DEF Watched
  <2> HIDE DEF k, a, b
  <2> QED
    BY <2>1, <2>2, <2>3
<1> QED
  BY <1>3 DEF IncidentTrend

-----------------------------------------------------------------------------
\* THE ANALYSES: CEILINGS

AllRests == {u \in 0 .. unit - 1 : resting[u] # None /\ ~BusyAt(u)}

LEMMA BaselineIs ==
    ASSUME HistoryInv, NEW t
    PROVE  IdleBaseline(TelemetryUpTo(t), recorded, "temp") = Stat(RestValues(AllRests, "temp"), MinIdle)
<1>1. AllRests = {v \in Watch : ~BusyAt(v)}
  BY DEF AllRests, Watch
<1>2. IdleBuckets(TelemetryUpTo(t), recorded) = {RestBucket(u) : u \in AllRests}
  BY <1>1, IdleOfAll
<1> QED
  BY <1>2 DEF IdleBaseline, RestValues

\* A case no warmer than the baseline is not unusually warm.
LEMMA NotUnusuallyWarm ==
    ASSUME HistoryInv, NEW level \in Int, \A u \in AllRests : resting[u] >= level,
           NEW b, b = Stat(RestValues(AllRests, "temp"), MinIdle)
    PROVE  ~UnusuallyHigh(Anomaly(Exactly(level), b, LeastDegrees))
<1> DEFINE A == AllRests
           m == "temp"
           f == RestValues(A, m)
           d == Difference(Exactly(level), Mean(b))
           a == Anomaly(Exactly(level), b, LeastDegrees)
<1>1. A \subseteq Watch /\ m \in {"temp", "hotspot"}
  BY DEF AllRests, Watch
<1>2. \A u \in A : resting[u] >= level
  OBVIOUS
<1>3. b = Stat(f, MinIdle)
  OBVIOUS
<1> HIDE DEF A
<1>4. /\ IsData(f) /\ Known(f) = {RestBucket(u) : u \in A}
      /\ \A u \in A : /\ resting[u] \in Int
                      /\ f[RestBucket(u)] = resting[u] + (IF m = "temp" THEN 0 ELSE 10)
  <2> HIDE DEF m
  <2> QED
    BY <1>1, RestData
<1> HIDE DEF f
<1>5. \A x \in Known(f) : f[x] >= level /\ f[x] \in Int
  BY <1>2, <1>4
<1>6. SUFFICES ASSUME a # None, a.unusual, a.delta.num > 0 PROVE FALSE
  BY DEF UnusuallyHigh, Unusual
<1>7. b # None /\ a = Judged(d, b, LeastDegrees)
  BY <1>6 DEF Anomaly
<1>8. a.delta = d
  <2> HIDE DEF d
  <2> QED
    BY <1>7 DEF Judged
<1>9. Known(f) # {} /\ b.sum = Total(f) /\ b.count = Number(f) /\ Total(f) \in Int /\ Number(f) \in Nat
  BY <1>3, <1>4, <1>7, IdleConstants, StatParts
<1>10. d.num = level * Number(f) - Total(f) * 1
  BY <1>9 DEF Difference, Exactly, Mean
<1>11. level * Number(f) <= Total(f)
  <2> DEFINE h == [x \in Known(f) |-> level]
  <2>0. IsFiniteSet(Known(f))
    BY <1>4, IdleConstants, StatParts
  <2>1. SumOver(h, Known(f)) = level * Cardinality(Known(f))
    <3>1. \A x \in Known(f) : h[x] = level
      OBVIOUS
    <3> HIDE DEF h
    <3> QED
      BY <2>0, <3>1, SumOfConstant
  <2>2. SumOver(h, Known(f)) <= SumOver(f, Known(f))
    <3>1. \A x \in Known(f) : h[x] \in Int /\ f[x] \in Int /\ h[x] <= f[x]
      BY <1>5
    <3> HIDE DEF h
    <3> QED
      BY <2>0, <3>1, SumsAreOrdered
  <2> QED
    BY <2>1, <2>2 DEF Total, Number
<1> DEFINE n == Number(f)
           s == Total(f)
<1>12. n \in Nat /\ s \in Int /\ level * n <= s /\ d.num = level * n - s * 1
  BY <1>9, <1>10, <1>11
<1>13. d.num > 0
  BY <1>6, <1>8
<1> HIDE DEF n, s, d
<1>14. level * n \in Int
  BY <1>12
<1> QED
  BY <1>12, <1>13, <1>14

\* With few units at rest there is no telling what the case is like.
LEMMA TooFewRests ==
    ASSUME HistoryInv, Cardinality(AllRests) < MinIdle, NEW value,
           NEW b, b = Stat(RestValues(AllRests, "temp"), MinIdle)
    PROVE  Anomaly(value, b, LeastDegrees) = None
<1> DEFINE A == AllRests
           m == "temp"
           f == RestValues(A, m)
<1>1. A \subseteq Watch /\ m \in {"temp", "hotspot"}
  BY DEF AllRests, Watch
<1>2. b = Stat(f, MinIdle) /\ Cardinality(A) < MinIdle
  OBVIOUS
<1> HIDE DEF A, m
<1>3. IsData(f) /\ IsFiniteSet(A) /\ Number(f) <= Cardinality(A)
  BY <1>1, RestData
<1> HIDE DEF f
<1>4. Number(f) \in Nat /\ Cardinality(A) \in Nat /\ MinIdle \in Nat
  BY <1>3, IdleConstants, StatParts, FS_CardinalityType
<1>5. b = None \/ ~b.established
  <2> DEFINE enough == Number(f) >= MinIdle
  <2>1. ~enough
    BY <1>2, <1>3, <1>4
  <2>2. b = None \/ b.established = enough
    BY <1>2, <1>3, <1>4, StatParts
  <2> HIDE DEF enough
  <2> QED
    BY <2>1, <2>2
<1> QED
  BY <1>5 DEF Anomaly

LEMMA CeilingsHold == ASSUME HistoryInv, NEW level \in Int PROVE CeilingHolds(level)
<1> DEFINE baseline == IdleBaseline(TelemetryUpTo(80), recorded, "temp")
           cooler   == IdleBaseline(TelemetryUpTo(20), recorded, "temp")
           warm     == Anomaly(Exactly(level), baseline, LeastDegrees)
<1>1. baseline = Stat(RestValues(AllRests, "temp"), MinIdle) /\ cooler = baseline
  BY BaselineIs
<1>2. level # None
  BY NoneIsApart
<1> HIDE DEF baseline, cooler
<1>3. ASSUME NEW zone
      PROVE  CpuCeiling(zone, level, baseline)
               = IF zone \notin {"ORANGE", "RED"} \/ UnusuallyHigh(warm) THEN None
                 ELSE IF zone = "RED" /\ warm # None /\ ~Unusual(warm) THEN "HIGH" ELSE "MEDIUM"
  BY <1>2 DEF CpuCeiling
<1> HIDE DEF warm
<1>4. ASSUME \A u \in AllRests : resting[u] >= level
      PROVE  GpuCeiling("ORANGE", level, baseline) # None
  <2>1. ~UnusuallyHigh(warm)
    BY <1>1, <1>4, NotUnusuallyWarm DEF warm
  <2>2. GpuCeiling("ORANGE", level, baseline) = "MEDIUM"
    BY <1>3, <2>1 DEF GpuCeiling
  <2>3. "MEDIUM" # None
    BY NoneIsApart DEF Confidences
  <2> QED
    BY <2>2, <2>3
<1>5. ASSUME Cardinality(AllRests) < MinIdle PROVE CpuCeiling("RED", level, baseline) = "MEDIUM"
  <2>1. warm = None
    BY <1>1, <1>5, TooFewRests DEF warm
  <2> QED
    BY <1>3, <2>1 DEF UnusuallyHigh, Unusual
<1>6. CpuCeiling("RED", level, baseline) = CpuCeiling("RED", level, cooler)
  BY <1>1
<1> QED
  BY <1>4, <1>5, <1>6 DEF CeilingHolds, baseline, cooler, AllRests

\* The fan has two speeds, and each qualifies on two days.
LEMMA FanOnTwoDays ==
    ASSUME HistoryInv, NEW t, FanResponse(TelemetryUpTo(t)) # None, NEW speed \in {1, 2}
    PROVE  \E b, c \in TelemetryUpTo(t) :
               /\ b.fan = speed /\ c.fan = speed
               /\ b.start \div UnitsPerDay # c.start \div UnitsPerDay
<1> DEFINE T == TelemetryUpTo(t)
           loads == {b.load : b \in T} \ {None}
           Q == Qualifying(T, 0)
           C == {Cardinality(Qualifying(T, l)) : l \in loads}
           most == Max({0} \cup C)
<1>1. \A b \in T : b.load = 0 /\ b.fan \in {1, 2}
  BY TelemetryIs DEF Bucket
<1>2. IsFiniteSet(T)
  <2> DEFINE phi == [u \in Watch |-> Bucket(u, t)]
  <2>1. phi \in Surjection(Watch, T)
    BY TelemetryIs DEF Surjection
  <2> HIDE DEF phi, T
  <2> QED
    BY <2>1, WatchType, FS_Surjection
<1>3. ~(most < 2)
  BY DEF FanResponse
<1> HIDE DEF T
<1>4. Q \subseteq {1, 2}
  BY <1>1 DEF Qualifying
<1>5. IsFiniteSet({1, 2}) /\ Cardinality({1, 2}) = 2
  <2>1. {1, 2} = 1 .. 2
    OBVIOUS
  <2>2. \A a, b \in Int : IsFiniteSet(a .. b) /\ Cardinality(a .. b) = IF a > b THEN 0 ELSE b - a + 1
    BY FS_Interval
  <2>3. 1 \in Int /\ 2 \in Int /\ ~(1 > 2) /\ 2 - 1 + 1 = 2
    OBVIOUS
  <2>4. IsFiniteSet(1 .. 2) /\ Cardinality(1 .. 2) = 2
    BY <2>2, <2>3
  <2> QED
    BY <2>1, <2>4
<1>6. IsFiniteSet(Q) /\ Cardinality(Q) \in Nat /\ Cardinality(Q) <= 2 /\ (Cardinality(Q) = 2 => Q = {1, 2})
  <2>1. IsFiniteSet(Q) /\ Cardinality(Q) <= Cardinality({1, 2})
        /\ (Cardinality({1, 2}) = Cardinality(Q) => {1, 2} = Q)
    BY <1>4, <1>5, FS_Subset
  <2> HIDE DEF Q
  <2>2. Cardinality(Q) \in Nat
    BY <2>1, FS_CardinalityType
  <2> QED
    BY <1>5, <2>1, <2>2
<1>7. most \in {0, Cardinality(Q)}
  <2>1. loads \subseteq {0}
    BY <1>1
  <2>2. {0} \cup C \in {{0}, {0, Cardinality(Q)}}
    <3>1. CASE loads = {}
      BY <3>1
    <3>2. CASE loads = {0}
      <4>1. C = {Cardinality(Q)}
        BY <3>2
      <4> QED
        BY <4>1
    <3> HIDE DEF loads
    <3> QED
      BY <2>1, <3>1, <3>2
  <2> DEFINE n == Cardinality(Q)
             M == {0} \cup C
  <2>3. M \in {{0}, {0, n}} /\ n \in Nat
    BY <1>6, <2>2
  <2> HIDE DEF n, M
  <2>4. Max({0}) = 0
    BY MaxIsGreatest
  <2>5. Max({0, n}) \in {0, n}
    BY <2>3, MaxOfTwo
  <2> QED
    BY <2>3, <2>4, <2>5 DEF n, M
<1>8. Q = {1, 2}
  <2> HIDE DEF Q, most
  <2> QED
    BY <1>3, <1>6, <1>7
<1> DEFINE bin == Bin(T, 0, speed)
           days == {b.start \div UnitsPerDay : b \in bin}
<1>9. Cardinality(days) >= 2
  <2>1. speed \in Q
    BY <1>8
  <2> QED
    BY <2>1 DEF Qualifying
<1>10. \A b \in bin : b \in T /\ b.fan = speed
  BY DEF Bin
<1>11. IsFiniteSet(bin)
  BY <1>2, FS_Subset DEF Bin
<1> HIDE DEF bin
<1>12. ~(\A b, c \in bin : b.start \div UnitsPerDay = c.start \div UnitsPerDay)
  <2> SUFFICES ASSUME \A b, c \in bin : b.start \div UnitsPerDay = c.start \div UnitsPerDay
               PROVE  FALSE
    OBVIOUS
  <2>1. \A x, y \in days : x = y
    OBVIOUS
  <2>2. days = {} \/ \E x : days = {x}
    <3> HIDE DEF days
    <3> QED
      BY <2>1
  <2>3. Cardinality(days) \in {0, 1}
    <3> HIDE DEF days
    <3>1. CASE days = {}
      BY <3>1, FS_EmptySet
    <3>2. ASSUME NEW x, days = {x} PROVE Cardinality(days) = 1
      BY <3>2, FS_Singleton
    <3> QED
      BY <2>2, <3>1, <3>2
  <2> HIDE DEF days
  <2> QED
    BY <1>9, <2>3
<1> QED
  BY <1>10, <1>12 DEF T

LEMMA RestHolds == HistoryInv => RestIsRest
<1> SUFFICES ASSUME HistoryInv PROVE RestIsRest
  OBVIOUS
<1> DEFINE rests == {u \in Window.from .. unit - 1 : u >= 0 /\ ~BusyAt(u)}
<1>1. IdleTrend(TelemetryUpTo(80), recorded, Window, "temp") = IdleTrend(TelemetryUpTo(20), recorded, Window, "temp")
  <2> DEFINE w == Window
  <2>1. w.from \in Int /\ w.middle \in Int /\ w.to \in Int /\ w.from <= w.middle /\ w.middle <= w.to
    BY HistoryWindows DEF HistoryInv
  <2> HIDE DEF w
  <2>2. \A t : IdleTrend(TelemetryUpTo(t), recorded, w, "temp")
                = Trend(RestValues(Rests(w.from, w.middle), "temp"), RestValues(Rests(w.middle, w.to), "temp"),
                        LeastDegrees, TRUE, MinIdle)
    BY <2>1, IdleTrendIs
  <2> QED
    BY <2>2 DEF w
<1>2. ASSUME \A u, v \in rests : u <= v /\ resting[u] # None /\ resting[v] # None => resting[u] >= resting[v],
             NEW m \in {"temp", "hotspot"}
      PROVE  Outlook(TelemetryUpTo(80), recorded, unit)[m].projection = None
  <2>1. ASSUME NEW u \in Rests(Window.from, Window.to) PROVE u \in rests /\ resting[u] # None
    <3>1. u \in 0 .. unit - 1 /\ resting[u] # None /\ ~BusyAt(u) /\ Window.from <= u
      BY DEF Rests, Watch
    <3>2. Window.from \in Int /\ unit \in Nat
      BY HistoryWindows DEF HistoryInv
    <3> QED
      BY <3>1, <3>2
  <2>2. \A u, v \in Rests(Window.from, Window.to) : u <= v => resting[u] >= resting[v]
    BY <1>2, <2>1
  <2> QED
    BY <2>2, NothingProjected
<1>3. (\A u \in Window.middle .. unit - 1 : u < 0 \/ resting[u] = None) =>
          IncidentTrend(IncidentsSoFar, TelemetryUpTo(80), Window) = None
  BY UnwatchedHalf
<1>4. \A level \in {40, 45, 50} : CeilingHolds(level)
  BY CeilingsHold
<1>5. FanResponse(TelemetryUpTo(80)) # None =>
          \A speed \in {1, 2} :
              \E b, c \in TelemetryUpTo(80) :
                  /\ b.fan = speed /\ c.fan = speed
                  /\ b.start \div UnitsPerDay # c.start \div UnitsPerDay
  BY FanOnTwoDays
<1> QED
  BY <1>1, <1>2, <1>3, <1>4, <1>5 DEF RestIsRest

-----------------------------------------------------------------------------
\* THE ANALYSES: THE WEEK

LEMMA RecordedTimes ==
    ASSUME HistoryInv, NEW S, S \subseteq recorded
    PROVE  IsFiniteSet(S) /\ \A s \in S : s.from \in Int /\ s.to \in Int /\ s.id \in Nat
BY RecordedAreSessions, FS_Subset DEF AreSessions, IsSession

\* A session that ended before the week touches neither half.
LEMMA OlderUntouched ==
    ASSUME HistoryInv, NEW S, S \subseteq recorded, NEW s, s.to < Week.from
    PROVE  /\ Touching(S \ {s}, Week.from, Week.middle) = Touching(S, Week.from, Week.middle)
           /\ Touching(S \ {s}, Week.middle, Week.to) = Touching(S, Week.middle, Week.to)
<1>1. Week.from \in Int /\ Week.middle \in Int /\ Week.from <= Week.middle
  BY HistoryWindows DEF HistoryInv
<1>2. s \in S => ~(s.to >= Week.from) /\ ~(s.to >= Week.middle)
  BY <1>1, RecordedTimes
<1> QED
  BY <1>2 DEF Touching

LEMMA DigestParts ==
    ASSUME NEW S, NEW those, NEW e \in Digest(S, those).workloads
    PROVE  /\ e.workload \in Busiest(S, 1, Week)
           /\ e = [workload |-> e.workload,
                   cpu |-> Windowed(Workload(S, e.workload), Week, "cpu.temp"),
                   gpu |-> Windowed(Workload(S, e.workload), Week, "gpu.hotspot")]
<1>1. Digest(S, those).workloads
        = {[workload |-> a,
            cpu |-> Windowed(Workload(S, a), Week, "cpu.temp"),
            gpu |-> Windowed(Workload(S, a), Week, "gpu.hotspot")] : a \in Busiest(S, 1, Week)}
  BY DEF Digest, WeekOverWeek, Week
<1>2. PICK a \in Busiest(S, 1, Week) :
        e = [workload |-> a,
             cpu |-> Windowed(Workload(S, a), Week, "cpu.temp"),
             gpu |-> Windowed(Workload(S, a), Week, "gpu.hotspot")]
  BY <1>1
<1>3. e.workload = a
  BY <1>2
<1> QED
  BY <1>2, <1>3

LEMMA InDigest ==
    ASSUME NEW S, NEW those, NEW a \in Busiest(S, 1, Week)
    PROVE  [workload |-> a,
            cpu |-> Windowed(Workload(S, a), Week, "cpu.temp"),
            gpu |-> Windowed(Workload(S, a), Week, "gpu.hotspot")] \in Digest(S, those).workloads
BY DEF Digest, WeekOverWeek, Week

LEMMA OlderUnnoticed ==
    ASSUME HistoryInv, NEW s \in recorded PROVE Unnoticed(Digest(recorded, IncidentsSoFar), s)
<1> SUFFICES ASSUME s.to < Week.from,
                    NEW e \in Digest(recorded, IncidentsSoFar).workloads,
                    NEW f \in Digest(recorded \ {s}, IncidentsSoFar \ {s}).workloads,
                    e.workload = f.workload
             PROVE  e = f
  BY DEF Unnoticed
<1> DEFINE a == e.workload
           P == Workload(recorded, a)
           Q == Workload(recorded \ {s}, a)
<1>1. Q = P \ {s} /\ P \subseteq recorded
  BY DEF Workload
<1>2. e = [workload |-> a, cpu |-> Windowed(P, Week, "cpu.temp"), gpu |-> Windowed(P, Week, "gpu.hotspot")]
  BY DigestParts
<1>3. f = [workload |-> a, cpu |-> Windowed(Q, Week, "cpu.temp"), gpu |-> Windowed(Q, Week, "gpu.hotspot")]
  BY DigestParts
<1> HIDE DEF P, Q
<1>4. /\ Touching(Q, Week.from, Week.middle) = Touching(P, Week.from, Week.middle)
      /\ Touching(Q, Week.middle, Week.to) = Touching(P, Week.middle, Week.to)
  BY <1>1, OlderUntouched
<1>5. \A m : Windowed(Q, Week, m) = Windowed(P, Week, m)
  BY <1>4 DEF Windowed
<1> QED
  BY <1>2, <1>3, <1>5

LEMMA RecentType ==
    ASSUME HistoryInv, NEW S, S \subseteq recorded, NEW a
    PROVE  RecentSessions(S, a, Week) \in Nat
<1>1. IsFiniteSet(Touching(Workload(S, a), Week.middle, Week.to))
  BY FS_Subset DEF Touching, Workload, HistoryInv
<1> QED
  BY <1>1, FS_CardinalityType DEF RecentSessions

LEMMA FirstType ==
    ASSUME HistoryInv, NEW S, S \subseteq recorded, NEW a \in Workloads(S)
    PROVE  FirstOf(S, a) \in Nat
<1> DEFINE I == {s.id : s \in Workload(S, a)}
<1>1. I \in SUBSET Nat
  BY RecordedTimes DEF Workload
<1>2. I # {}
  BY DEF Workloads, Workload
<1> HIDE DEF I
<1>3. Min(I) \in I
  BY <1>1, <1>2, MinIsIn
<1> QED
  BY <1>1, <1>3 DEF FirstOf, I

\* Nobody is ahead of the busiest.
LEMMA BusiestIsFirst ==
    ASSUME HistoryInv, NEW S, S \subseteq recorded, NEW a \in Workloads(S)
    PROVE  (Cardinality({b \in Workloads(S) : Ahead(S, b, a, Week)}) < 1)
              <=> \A b \in Workloads(S) : ~Ahead(S, b, a, Week)
<1> DEFINE A == {b \in Workloads(S) : Ahead(S, b, a, Week)}
<1>1. IsFiniteSet(Workloads(S))
  <2> DEFINE W == Workloads(S)
             phi == [s \in S |-> s.workload]
  <2>1. phi \in Surjection(S, W)
    BY DEF Surjection, Workloads
  <2> HIDE DEF W, phi
  <2>2. IsFiniteSet(W)
    BY <2>1, FS_Surjection, RecordedTimes
  <2> QED
    BY <2>2 DEF W
<1>2. IsFiniteSet(A)
  BY <1>1, FS_Subset
<1>3. A = {} <=> \A b \in Workloads(S) : ~Ahead(S, b, a, Week)
  OBVIOUS
<1> HIDE DEF A
<1>4. Cardinality(A) \in Nat /\ (Cardinality(A) = 0 <=> A = {})
  BY <1>2, FS_CardinalityType, FS_EmptySet
<1>5. Cardinality(A) < 1 <=> Cardinality(A) = 0
  BY <1>4
<1> QED
  BY <1>3, <1>4, <1>5 DEF A

LEMMA DigestEntry ==
    ASSUME HistoryInv, NEW e \in Digest(recorded, IncidentsSoFar).workloads
    PROVE  /\ e \in Digest(Workload(recorded, e.workload), {}).workloads
           /\ \A a \in Workloads(recorded) :
                  RecentSessions(recorded, a, Week) <= RecentSessions(recorded, e.workload, Week)
           /\ e.gpu # None => Cardinality(Touching(Workload(recorded, e.workload), Week.from, Week.to)) > 1
<1> DEFINE a == e.workload
           own == Workload(recorded, a)
<1>1. /\ a \in Busiest(recorded, 1, Week)
      /\ e = [workload |-> a, cpu |-> Windowed(own, Week, "cpu.temp"), gpu |-> Windowed(own, Week, "gpu.hotspot")]
  BY DigestParts
<1>2. /\ a \in Workloads(recorded) /\ RecentSessions(recorded, a, Week) > 0
      /\ \A b \in Workloads(recorded) : ~Ahead(recorded, b, a, Week)
  <2>1. /\ a \in Workloads(recorded) /\ RecentSessions(recorded, a, Week) > 0
        /\ Cardinality({b \in Workloads(recorded) : Ahead(recorded, b, a, Week)}) < 1
    BY <1>1 DEF Busiest
  <2> HIDE DEF a
  <2> QED
    BY <2>1, BusiestIsFirst
<1>3. /\ Workload(own, a) = own /\ own \subseteq recorded /\ Workloads(own) = {a}
  BY <1>2 DEF Workload, Workloads
<1> HIDE DEF a, own
<1>4. a \in Busiest(own, 1, Week)
  <2>1. RecentSessions(own, a, Week) = RecentSessions(recorded, a, Week)
    BY <1>3 DEF RecentSessions, own
  <2>2. ~Ahead(own, a, a, Week)
    <3>1. RecentSessions(own, a, Week) \in Nat /\ FirstOf(own, a) \in Nat
      BY <1>3, RecentType, FirstType
    <3> QED
      BY <3>1 DEF Ahead
  <2>3. Cardinality({b \in Workloads(own) : Ahead(own, b, a, Week)}) < 1
    BY <1>3, <2>2, BusiestIsFirst
  <2> QED
    BY <1>2, <1>3, <2>1, <2>3 DEF Busiest
<1>5. e \in Digest(own, {}).workloads
  <2>1. [workload |-> a, cpu |-> Windowed(Workload(own, a), Week, "cpu.temp"),
         gpu |-> Windowed(Workload(own, a), Week, "gpu.hotspot")] \in Digest(own, {}).workloads
    BY <1>4, InDigest
  <2> QED
    BY <1>1, <1>3, <2>1
<1>6. ASSUME NEW b \in Workloads(recorded)
      PROVE  RecentSessions(recorded, b, Week) <= RecentSessions(recorded, a, Week)
  <2>1. ~(RecentSessions(recorded, b, Week) > RecentSessions(recorded, a, Week))
    BY <1>2 DEF Ahead
  <2>2. RecentSessions(recorded, b, Week) \in Nat /\ RecentSessions(recorded, a, Week) \in Nat
    BY RecentType
  <2> QED
    BY <2>1, <2>2
<1>7. ASSUME e.gpu # None PROVE Cardinality(Touching(own, Week.from, Week.to)) > 1
  <2> DEFINE m == "gpu.hotspot"
             w == Week
             f == Early(own, w, m)
             g == Late(own, w, m)
             h == Windowed(own, w, m)
             T == Touching(own, w.from, w.to)
  <2>1. h # None /\ m \in AllMetrics /\ AreSessions(own)
    <3>1. h # None /\ m \in AllMetrics
      BY <1>1, <1>7, HotspotIsMetric
    <3>2. AreSessions(own)
      BY <1>3, RecordedAreSessions, SomeSessions
    <3> QED
      BY <3>1, <3>2
  <2>2. w.from \in Int /\ w.middle \in Int /\ w.to \in Int /\ w.from <= w.middle /\ w.middle <= w.to
    BY HistoryWindows DEF HistoryInv
  <2> HIDE DEF m, w
  <2>3. /\ IsData(f) /\ Known(f) \subseteq Touching(own, w.from, w.middle)
        /\ Comparable(f, g, MinSamples)
    BY <2>1, WindowedParts
  <2> HIDE DEF f, g, T
  <2>4. Known(f) \subseteq T /\ IsFiniteSet(T)
    <3>1. IsFiniteSet(own) /\ \A s \in own : s.from \in Int /\ s.to \in Int
      BY <1>3, RecordedTimes
    <3>2. Touching(own, w.from, w.middle) \subseteq T
      BY <2>2, <3>1, HalvesTouch DEF T
    <3>3. IsFiniteSet(T)
      BY <3>1, FS_Subset DEF T, Touching
    <3> QED
      BY <2>3, <3>2, <3>3
  <2>5. Cardinality(Known(f)) <= Cardinality(T) /\ Cardinality(T) \in Nat /\ Cardinality(Known(f)) \in Nat
    BY <2>4, FS_Subset, FS_CardinalityType
  <2>6. Cardinality(Known(f)) >= MinSamples /\ MinSamples \in Nat /\ MinSamples > 1
    BY <2>3, AnalyticsConstants, HistoryConstants DEF Comparable, Number
  <2> QED
    BY <2>5, <2>6 DEF T, w
<1> QED
  BY <1>5, <1>6, <1>7 DEF a, own

LEMMA NoCriticalTrend ==
    ASSUME HistoryInv, \A s \in IncidentsSoFar : s.to < Week.from
    PROVE  Digest(recorded, IncidentsSoFar).critical \in {None, "STABLE"}
<1> DEFINE R == {i \in IncidentsSoFar : i.worst = "RED"}
<1>1. Digest(recorded, IncidentsSoFar).critical = IncidentTrend(R, TelemetryUpTo(80), Week)
  BY DEF Digest, WeekOverWeek, Week
<1>2. \A s \in R : s \in recorded /\ s.to < Week.from
  BY DEF IncidentsSoFar
<1> HIDE DEF R
<1>3. Week.from \in Int /\ Week.middle \in Int /\ Week.from <= Week.middle
  BY HistoryWindows DEF HistoryInv
<1>4. \A s \in recorded : s.to \in Int
  BY RecordedTimes
<1>5. Touching(R, Week.from, Week.middle) = {} /\ Touching(R, Week.middle, Week.to) = {}
  BY <1>2, <1>3, <1>4 DEF Touching
<1> QED
  BY <1>1, <1>5 DEF IncidentTrend

LEMMA DigestHolds == HistoryInv => DigestIsOfTheWeek
BY OlderUnnoticed, DigestEntry, NoCriticalTrend DEF DigestIsOfTheWeek
-----------------------------------------------------------------------------
\* THE ANALYSES: VERDICTS

LEMMA MinOfThree ==
    ASSUME NEW a \in Int, NEW b \in Int, NEW c \in Int, NEW n, n = Min({a, b, c})
    PROVE  n \in {a, b, c} /\ n <= a /\ n <= b /\ n <= c
<1>1. IsFiniteSet({a, b, c})
  <2>1. IsFiniteSet({a})
    BY FS_Singleton
  <2>2. IsFiniteSet({a} \cup {b})
    BY <2>1, FS_AddElement
  <2>3. IsFiniteSet(({a} \cup {b}) \cup {c})
    BY <2>2, FS_AddElement
  <2>4. {a, b, c} = ({a} \cup {b}) \cup {c}
    OBVIOUS
  <2> QED
    BY <2>3, <2>4
<1> QED
  BY <1>1, MinOfIntegers

\* The windows of a change are as long as each other, and of what has been stored.
LEMMA ChangeWindowIs ==
    ASSUME HistoryInv, NEW m \in Markers, NEW w, w = ChangeWindow(m.at, unit), w # None
    PROVE  /\ w.from \in Int /\ w.middle \in Int /\ w.to \in Int
           /\ w.from <= w.middle /\ w.middle <= w.to
           /\ w.middle - w.from = w.to - w.middle
           /\ w.to <= unit /\ w.from >= unit - HistorySpan
<1>1. m.at \in Int /\ unit \in Int
  BY HistoryConstants DEF HistoryInv, Markers
<1>2. HistorySpan \in Int /\ WindowSpan \in Int /\ WindowSpan > 0 /\ UnitsPerDay \in Int /\ UnitsPerDay > 0
  BY AnalyticsConstants
<1> DEFINE elapsed == unit - m.at
           stored == m.at - (unit - HistorySpan)
           length == Min({elapsed, stored, WindowSpan})
<1>3. /\ ~(elapsed < UnitsPerDay \/ stored < UnitsPerDay)
      /\ w = [from |-> m.at - length, middle |-> m.at, to |-> m.at + length]
  BY DEF ChangeWindow
<1>4. elapsed \in Int /\ stored \in Int
  BY <1>1, <1>2
<1>5. elapsed > 0 /\ stored > 0
  BY <1>1, <1>2, <1>3, <1>4
<1>6. elapsed + m.at = unit /\ m.at - stored = unit - HistorySpan
  BY <1>1, <1>2
<1> HIDE DEF elapsed, stored
<1>7. length \in {elapsed, stored, WindowSpan} /\ length <= elapsed /\ length <= stored
  BY <1>2, <1>4, MinOfThree
<1>8. length \in Int /\ length > 0
  BY <1>2, <1>4, <1>5, <1>7
<1>9. w.from = m.at - length /\ w.middle = m.at /\ w.to = m.at + length
  BY <1>3
<1> HIDE DEF length
<1> QED
  BY <1>1, <1>2, <1>4, <1>6, <1>7, <1>8, <1>9

\* What is outside a window is no part of what is compared in it.
LEMMA WithinTouches ==
    ASSUME HistoryInv, NEW w,
           w.from \in Int, w.middle \in Int, w.to \in Int, w.from <= w.middle, w.middle <= w.to,
           NEW within, within = Touching(recorded, w.from, w.to), NEW a
    PROVE  /\ Touching(Workload(within, a), w.from, w.middle) = Touching(Workload(recorded, a), w.from, w.middle)
           /\ Touching(Workload(within, a), w.middle, w.to) = Touching(Workload(recorded, a), w.middle, w.to)
<1>1. \A s \in recorded : s.from \in Int /\ s.to \in Int
  BY RecordedTimes
<1> QED
  BY <1>1 DEF Touching, Workload

LEMMA WithinWindowed ==
    ASSUME HistoryInv, NEW w,
           w.from \in Int, w.middle \in Int, w.to \in Int, w.from <= w.middle, w.middle <= w.to,
           NEW within, within = Touching(recorded, w.from, w.to), NEW a
    PROVE  /\ \A m : Windowed(Workload(within, a), w, m) = Windowed(Workload(recorded, a), w, m)
           /\ SessionsBeside(Workload(within, a), w) = SessionsBeside(Workload(recorded, a), w)
           /\ Touching(within, w.from, w.to) = within
<1>1. Touching(within, w.from, w.to) = within
  BY DEF Touching
<1> QED
  BY <1>1, WithinTouches DEF Windowed, SessionsBeside

\* A trend has sessions.
LEMMA TrendedWorkload ==
    ASSUME NEW S, AreSessions(S), NEW w, NEW a, NEW m \in AllMetrics,
           Windowed(Workload(S, a), w, m) # None
    PROVE  \E s \in S : s.workload = a /\ s \in Touching(S, w.from, w.middle)
<1> DEFINE own == Workload(S, a)
           f == Early(own, w, m)
<1>1. AreSessions(own)
  BY SomeSessions DEF Workload
<1> HIDE DEF own, f
<1>2. Known(f) # {} /\ Known(f) \subseteq Touching(own, w.from, w.middle)
  BY <1>1, WindowedParts DEF Comparable, own, f
<1> QED
  BY <1>2 DEF own, Workload, Touching

Trended(m, S, w) ==
    {x \in Workloads(S) : m.component # "system" /\ ChangeTrend(m, Workload(S, x), w) # None}

ChangeMetric(m) == IF m.component = "cpu" THEN "cpu.temp" ELSE "gpu.hotspot"

LEMMA WithinTrended ==
    ASSUME HistoryInv, NEW m, NEW w,
           w.from \in Int, w.middle \in Int, w.to \in Int, w.from <= w.middle, w.middle <= w.to,
           NEW within, within = Touching(recorded, w.from, w.to)
    PROVE  Trended(m, within, w) = Trended(m, recorded, w)
<1>1. ASSUME NEW S, NEW x PROVE ChangeTrend(m, Workload(S, x), w) = Windowed(Workload(S, x), w, ChangeMetric(m))
  BY DEF ChangeTrend, ChangeMetric
<1>2. ChangeMetric(m) \in AllMetrics
  BY HotspotIsMetric DEF ChangeMetric
<1>3. ASSUME NEW x, Windowed(Workload(recorded, x), w, ChangeMetric(m)) # None
      PROVE  x \in Workloads(within) /\ x \in Workloads(recorded)
  <2>1. PICK s \in recorded : s.workload = x /\ s \in Touching(recorded, w.from, w.middle)
    <3> HIDE DEF ChangeMetric
    <3> QED
      BY <1>2, <1>3, RecordedAreSessions, TrendedWorkload
  <2>2. s \in within
    BY <2>1, RecordedTimes DEF Touching
  <2> QED
    BY <2>1, <2>2 DEF Workloads
<1>4. \A x : Windowed(Workload(within, x), w, ChangeMetric(m)) = Windowed(Workload(recorded, x), w, ChangeMetric(m))
  BY WithinWindowed
<1> QED
  BY <1>1, <1>3, <1>4 DEF Trended

LEMMA WithinMost ==
    ASSUME HistoryInv, NEW C, NEW w,
           w.from \in Int, w.middle \in Int, w.to \in Int, w.from <= w.middle, w.middle <= w.to,
           NEW within, within = Touching(recorded, w.from, w.to)
    PROVE  MostSessions(C, within, w) = MostSessions(C, recorded, w)
<1>1. \A x : SessionsBeside(Workload(within, x), w) = SessionsBeside(Workload(recorded, x), w)
  BY WithinWindowed
<1> QED
  BY <1>1 DEF MostSessions

\* What is concluded around a change is concluded of the sessions in its windows.
LEMMA WithinReport ==
    ASSUME HistoryInv, NEW m \in Markers, NEW w, w = ChangeWindow(m.at, unit), w # None,
           NEW within, within = Touching(recorded, w.from, w.to), NEW t
    PROVE  ChangeReport(m, recorded, TelemetryUpTo(t), Markers, unit)
             = ChangeReport(m, within, TelemetryUpTo(t), Markers, unit)
<1>1. /\ w.from \in Int /\ w.middle \in Int /\ w.to \in Int
      /\ w.from <= w.middle /\ w.middle <= w.to
  BY ChangeWindowIs
<1> DEFINE C == Trended(m, recorded, w)
           x == MostSessions(C, recorded, w)
           buckets == TelemetryUpTo(t)
<1>2. Trended(m, within, w) = C /\ MostSessions(C, within, w) = x
  BY <1>1, WithinTrended, WithinMost
<1>3. \A k : Windowed(Workload(within, x), w, k) = Windowed(Workload(recorded, x), w, k)
  BY <1>1, WithinWindowed
<1>4. WorkloadVerdict(m, Workload(within, x), w) = WorkloadVerdict(m, Workload(recorded, x), w)
  BY <1>3 DEF WorkloadVerdict, ChangeTrend, ChangePower
<1>5. \A k : ChangeRest(buckets, within, w, k) = ChangeRest(buckets, recorded, w, k)
  <2>1. Touching(within, w.from, w.to) = Touching(recorded, w.from, w.to)
    BY DEF Touching
  <2> QED
    BY <2>1 DEF ChangeRest, IdleTrend
<1>6. RestVerdict(m, within, buckets, w) = RestVerdict(m, recorded, buckets, w)
  BY <1>5 DEF RestVerdict
<1>7. ASSUME NEW S
      PROVE  ChangeVerdict(m, S, buckets, w)
               = IF Trended(m, S, w) # {}
                 THEN WorkloadVerdict(m, Workload(S, MostSessions(Trended(m, S, w), S, w)), w)
                 ELSE RestVerdict(m, S, buckets, w)
  BY DEF ChangeVerdict, Trended
<1>8. ChangeVerdict(m, within, buckets, w) = ChangeVerdict(m, recorded, buckets, w)
  <2> HIDE DEF C, x, buckets
  <2>1. ChangeVerdict(m, recorded, buckets, w)
          = IF C # {} THEN WorkloadVerdict(m, Workload(recorded, x), w)
            ELSE RestVerdict(m, recorded, buckets, w)
    BY <1>7 DEF C, x
  <2>2. ChangeVerdict(m, within, buckets, w)
          = IF C # {} THEN WorkloadVerdict(m, Workload(within, x), w)
            ELSE RestVerdict(m, within, buckets, w)
    BY <1>2, <1>7
  <2> QED
    BY <1>4, <1>6, <2>1, <2>2
<1> QED
  BY <1>8 DEF ChangeReport

LEMMA ChangeScores ==
    ASSUME HistoryInv, NEW w
    PROVE  ScoresConcur(HealthScores(Touching(recorded, w.from, w.to)), ChangeHealth(recorded, w))
<1> DEFINE within == Touching(recorded, w.from, w.to)
<1>1. CASE within = {}
  BY <1>1 DEF ChangeHealth, ScoresConcur
<1>2. CASE within # {}
  <2>1. AreSessions(within)
    BY RecordedAreSessions, SomeSessions DEF Touching
  <2>2. ChangeHealth(recorded, w) = ScoreTrend(HealthScores(within), w)
    BY <1>2 DEF ChangeHealth, HealthTrend
  <2> QED
    BY <2>1, <2>2, AlikeScores
<1> QED
  BY <1>1, <1>2

\* What is confounded is worth little.
LEMMA ConfoundedIsLow ==
    ASSUME NEW m, NEW S, NEW buckets, NEW markers, NEW now,
           NEW w, w = ChangeWindow(m.at, now), w # None,
           NEW r, r = ChangeReport(m, S, buckets, markers, now),
           r.direction # None, Confounds(markers, m, w) # {}
    PROVE  r.confidence = "LOW"
<1> DEFINE v == ChangeVerdict(m, S, buckets, w)
<1>1. r = Concluded(v, TRUE)
  BY DEF ChangeReport
<1> HIDE DEF v
<1>2. v # None
  BY <1>1 DEF Concluded, NoVerdict
<1> QED
  BY <1>1, <1>2 DEF Concluded

\* The only workload runs hotter after a change to its graphics card.
RunsHotter(S, a, m, w, h, p) ==
    /\ Workloads(S) = {a} /\ m.component = "gpu"
    /\ h = Windowed(Workload(S, a), w, "gpu.hotspot") /\ h # None /\ h.direction = "WORSENING"
    /\ p = Windowed(Workload(S, a), w, "gpu.power")

\* Of the only workload there is, the verdict is the report on its cooling.
LEMMA SameVerdict ==
    ASSUME NEW S, AreSessions(S), NEW a, NEW w, NEW buckets, NEW m, NEW h, NEW p,
           RunsHotter(S, a, m, w, h, p), NEW markers, Confounds(markers, m, w) = {},
           NEW now, w = ChangeWindow(m.at, now), w # None
    PROVE  ChangeReport(m, S, buckets, markers, now) = CoolingOf(h, p)
<1> USE DEF RunsHotter
<1>1. h \in Trends /\ (p # None => p \in Trends)
  <2>1. AreSessions(Workload(S, a)) /\ "gpu.hotspot" \in AllMetrics /\ "gpu.power" \in AllMetrics
    BY HotspotIsMetric, SomeSessions DEF Workload
  <2>2. ASSUME NEW k \in AllMetrics, NEW x, x = Windowed(Workload(S, a), w, k), x # None
        PROVE  x \in Trends
    BY <2>1, <2>2, WindowedParts
  <2> QED
    BY <2>1, <2>2
<1> DEFINE own == Workload(S, a)
           v == BusyVerdict(h, p)
<1>2. ChangeTrend(m, own, w) = h /\ ChangePower(m, own, w) = p
  BY DEF ChangeTrend, ChangePower
<1>3. ChangeVerdict(m, S, buckets, w) = v
  <2>1. Trended(m, S, w) = {a}
    BY <1>2 DEF Trended
  <2>2. MostSessions({a}, S, w) = a
    <3>1. SessionsBeside(own, w) \in Int
      <4>1. IsFiniteSet(Touching(own, w.from, w.middle)) /\ IsFiniteSet(Touching(own, w.middle, w.to))
        BY FS_Subset DEF Touching, Workload, AreSessions
      <4> QED
        BY <4>1, FS_CardinalityType DEF SessionsBeside
    <3>2. SessionsBeside(own, w) >= SessionsBeside(own, w)
      BY <3>1
    <3> QED
      BY <3>2 DEF MostSessions
  <2>3. WorkloadVerdict(m, own, w) = v
    BY <1>2 DEF WorkloadVerdict
  <2> QED
    BY <2>1, <2>2, <2>3 DEF ChangeVerdict, Trended
<1>4. v # None
  <2>1. v \in Verdicts
    BY <1>1 DEF BusyVerdict, Verdicts
  <2> QED
    BY <2>1, NoneIsApart
<1>5. v.trend = h /\ v.corroborated = (p = None \/ p.direction # "WORSENING")
  BY DEF BusyVerdict
<1>6. Concluded(v, FALSE)
        = [direction |-> h.direction,
           confidence |-> IF v.corroborated THEN h.confidence ELSE Downgraded(h.confidence)]
  BY <1>4, <1>5 DEF Concluded
<1>7. ChangeReport(m, S, buckets, markers, now) = Concluded(v, FALSE)
  BY <1>3 DEF ChangeReport
<1> QED
  BY <1>5, <1>6, <1>7 DEF CoolingOf

LEMMA DowngradedType == ASSUME NEW c \in Confidences PROVE Downgraded(c) \in Confidences
BY DEF Downgraded, Confidences

\* A workload that got worse is recommended for unless little speaks for it.
LEMMA RecommendedUnlessLow ==
    ASSUME HistoryInv, NEW a \in Apps, a \in Workloads(recorded),
           NEW r, r = CoolingReport(recorded, a, unit), r.direction = "WORSENING"
    PROVE  RecommendsAbout(a) <=> r.confidence # "LOW"
<1> DEFINE own == Workload(recorded, a)
           h == Windowed(own, Halves(TrendSpan, unit), "gpu.hotspot")
           p == Windowed(own, Halves(TrendSpan, unit), "gpu.power")
<1>1. r = CoolingOf(h, p) /\ h # None /\ h.direction = "WORSENING"
  BY CoolingParts
<1>2. h \in Trends
  <2>1. AreSessions(own) /\ "gpu.hotspot" \in AllMetrics
    BY RecordedAreSessions, SomeSessions, HotspotIsMetric DEF Workload
  <2> DEFINE k == "gpu.hotspot"
             w == Halves(TrendSpan, unit)
  <2> HIDE DEF own
  <2>2. ASSUME NEW x, x = Windowed(own, w, k), x # None PROVE x \in Trends
    <3> HIDE DEF w, k
    <3> QED
      BY <2>1, <2>2, WindowedParts DEF k
  <2> QED
    BY <1>1, <2>2
<1>3. h.confidence \in Confidences
  BY <1>2 DEF Trends
<1> HIDE DEF h, p
<1>4. r.confidence \in Confidences /\ r = [direction |-> "WORSENING", confidence |-> r.confidence]
  BY <1>1, <1>3, DowngradedType DEF CoolingOf
<1>5. RecommendsGpu(recorded, a, unit) <=> r.confidence # "LOW"
  BY <1>4 DEF RecommendsGpu, Confidences
<1>6. ASSUME RecommendsAbout(a) PROVE RecommendsGpu(recorded, a, unit)
  <2>1. PICK q \in Recommendations(recorded, FALSE, unit) : q.about = a
    BY <1>6 DEF RecommendsAbout
  <2>2. a # "cpu" /\ a # "nothing"
    BY HistoryConstants
  <2> QED
    BY <2>1, <2>2, RecommendationParts
<1>7. ASSUME RecommendsGpu(recorded, a, unit) PROVE RecommendsAbout(a)
  <2> DEFINE q == [about |-> a, confidence |-> CoolingReport(recorded, a, unit).confidence]
  <2>1. q \in Recommendations(recorded, FALSE, unit)
    BY <1>7 DEF Recommendations
  <2> QED
    BY <2>1 DEF RecommendsAbout
<1> QED
  BY <1>5, <1>6, <1>7

LEMMA BothSame ==
    ASSUME HistoryInv, NEW m \in Markers, m.component = "gpu", ChangeWindow(m.at, unit) = Window, Window # None,
           Confounds(Markers, m, Window) = {}, NEW a \in Apps,
           NEW within, within = Touching(recorded, Window.from, Window.to), Workloads(within) = {a},
           NEW t, NEW report, report = ChangeReport(m, recorded, TelemetryUpTo(t), Markers, unit)
    PROVE  SameOfBoth(report, CoolingReport(recorded, a, unit), RecommendsAbout(a))
<1> SUFFICES ASSUME CoolingReport(recorded, a, unit).direction = "WORSENING"
             PROVE  /\ report = CoolingReport(recorded, a, unit)
                    /\ RecommendsAbout(a) <=> report.confidence # "LOW"
  BY DEF SameOfBoth
<1> DEFINE w == Window
           h == Windowed(Workload(recorded, a), w, "gpu.hotspot")
           p == Windowed(Workload(recorded, a), w, "gpu.power")
           r == CoolingReport(recorded, a, unit)
<1>1. r = CoolingOf(h, p) /\ h # None /\ h.direction = "WORSENING"
  BY CoolingParts DEF Window
<1>2. AreSessions(within) /\ within \subseteq recorded
  BY RecordedAreSessions, SomeSessions DEF Touching
<1>3. /\ h = Windowed(Workload(within, a), w, "gpu.hotspot")
      /\ p = Windowed(Workload(within, a), w, "gpu.power")
  <2>1. w.from \in Int /\ w.middle \in Int /\ w.to \in Int /\ w.from <= w.middle /\ w.middle <= w.to
    BY HistoryWindows DEF HistoryInv
  <2> QED
    BY <2>1, WithinWindowed
<1>4. report = ChangeReport(m, within, TelemetryUpTo(t), Markers, unit)
  BY WithinReport
<1>5. report = CoolingOf(h, p)
  <2> DEFINE buckets == TelemetryUpTo(t)
  <2>1. RunsHotter(within, a, m, w, h, p)
    BY <1>1, <1>3 DEF RunsHotter
  <2>2. w # None /\ w = ChangeWindow(m.at, unit) /\ Confounds(Markers, m, w) = {}
    OBVIOUS
  <2> HIDE DEF h, p, w, r, buckets
  <2>3. ChangeReport(m, within, buckets, Markers, unit) = CoolingOf(h, p)
    BY <1>2, <2>1, <2>2, SameVerdict
  <2> QED
    BY <1>4, <2>3 DEF buckets
<1>6. a \in Workloads(recorded)
  BY <1>2 DEF Workloads
<1> HIDE DEF h, p, w
<1> QED
  BY <1>1, <1>5, <1>6, RecommendedUnlessLow

LEMMA VerdictsHold == HistoryInv => VerdictsAgree
<1> SUFFICES ASSUME HistoryInv, NEW m \in Markers
             PROVE  LET w == ChangeWindow(m.at, unit)
                    IN  VerdictHolds(m, w, IF w = None THEN {} ELSE Touching(recorded, w.from, w.to),
                                     ChangeReport(m, recorded, TelemetryUpTo(80), Markers, unit))
  BY DEF VerdictsAgree
<1> DEFINE w == ChangeWindow(m.at, unit)
           within == IF w = None THEN {} ELSE Touching(recorded, w.from, w.to)
           report == ChangeReport(m, recorded, TelemetryUpTo(80), Markers, unit)
<1>1. CASE w = None
  <2>1. report = NoVerdict
    BY <1>1 DEF ChangeReport
  <2> HIDE DEF report, w
  <2> QED
    BY <1>1, <2>1 DEF VerdictHolds, report, w
<1>2. CASE w # None
  <2>1. within = Touching(recorded, w.from, w.to)
    BY <1>2
  <2>2. w.middle - w.from = w.to - w.middle /\ w.to <= unit /\ w.from >= unit - HistorySpan
    BY <1>2, ChangeWindowIs
  <2>3. report = ChangeReport(m, within, TelemetryUpTo(80), Markers, unit)
    BY <1>2, <2>1, WithinReport
  <2>4. ScoresConcur(HealthScores(within), ChangeHealth(recorded, w))
    BY <2>1, ChangeScores
  <2>5. (report.direction # None /\ Confounds(Markers, m, w) # {}) => report.confidence = "LOW"
    BY <1>2, ConfoundedIsLow
  <2>6. ASSUME NEW a \in Apps, m.component = "gpu", w = Window, Confounds(Markers, m, w) = {},
               Workloads(within) = {a}
        PROVE  SameOfBoth(report, CoolingReport(recorded, a, unit), RecommendsAbout(a))
    <3> HIDE DEF within, report
    <3> QED
      BY <1>2, <2>1, <2>6, BothSame DEF report
  <2> HIDE DEF within, report, w
  <2>7. VerdictHolds(m, w, within, report)
    BY <1>2, <2>2, <2>3, <2>4, <2>5, <2>6 DEF VerdictHolds
  <2> QED
    BY <2>7 DEF within, report, w
<1> QED
  BY <1>1, <1>2

LEMMA AnalysesHold == HistoryInv => AnalysesAgree
BY ScoresFair, RestHolds, VerdictsHold, ClaimsEarned, TrendsAgree, DigestHolds DEF AnalysesAgree

-----------------------------------------------------------------------------
\* THE ANALYSES: WHAT THEY CONCLUDE

LEMMA HistoryStands == HistoryInv /\ UNCHANGED historyVars => HistoryInv'
<1> SUFFICES ASSUME HistoryInv, UNCHANGED historyVars PROVE HistoryInv'
  OBVIOUS
<1> USE DEF historyVars
<1>1. unit' = unit /\ recorded' = recorded /\ resting' = resting /\ planned' = planned
  OBVIOUS
<1> QED
  BY <1>1 DEF HistoryInv

\* Whatever was recorded, the analyses of it agree: sessions that measured the same score the
\* same, trends of one cause say the same, the digest is of its week, what is at rest is
\* measured at rest, the verdict on a change is that of the calendar where they look at the
\* same time, and little evidence makes no claim; and so do the windows of the questions.
THEOREM ConclusionsAlwaysAgree == UpkeepSpec => []ConclusionsAgree
<1>1. UpkeepInit => HistoryInv
  BY HistoryInit_Inv DEF UpkeepInit
<1>2. HistoryInv /\ [UpkeepNext]_upkeepVars => HistoryInv'
  <2>1. [UpkeepNext]_upkeepVars => HistoryNext \/ UNCHANGED historyVars
    BY DEF UpkeepNext, upkeepVars, Supervising, Network, Alerts, Reporting, Analysing, Asking
  <2> QED
    BY <2>1, HistoryNext_Inv, HistoryStands
<1>3. HistoryInv => AnalysesAgree
  BY AnalysesHold
<1>4. AnalysesAgree /\ WindowsAgree => ConclusionsAgree
  BY DEF ConclusionsAgree
<1> QED
  BY <1>1, <1>2, <1>3, <1>4, WindowsAlwaysAgree, PTL DEF UpkeepSpec
=============================================================================
