----------------------------- MODULE MCTelemetry -----------------------------
(* Two legacy buckets, one of them without an end and without the metric, and  *)
(* readings that come and go.                                                  *)
EXTENDS Telemetry

MCReading == [t \in 0 .. 20 |-> IF t % 4 = 1 THEN None ELSE (3 * t) % 5]

MCLegacy ==
    {[start |-> 0, end |-> 2, count |-> 2, samples |-> {0, 2},
      metric |-> AggResult(Added(Added(NewAgg, MCReading[0]), MCReading[2]))],
     [start |-> 2, end |-> None, count |-> 1, samples |-> {3}, metric |-> Absent]}
=============================================================================
