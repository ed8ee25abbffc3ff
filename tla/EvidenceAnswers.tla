--------------------------- MODULE EvidenceAnswers ---------------------------
(***************************************************************************)
(* thermal_watch_evidence_cli.py: how one request for evidence is checked  *)
(* and answered from a snapshot.  The pipe server and the AI broker use    *)
(* the same dispatch, the one over the cache in memory and with access to  *)
(* the stores, the other over the snapshot file alone.                     *)
(*                                                                         *)
(* A snapshot holds one reading for each of CPU, GPU and memory, the       *)
(* network rates, the rows of per-process rates, the recent incidents and  *)
(* sessions, newest first, and the coverage of the last day.  Readings,    *)
(* rates and percentages are in hundredths.                                *)
(***************************************************************************)
EXTENDS Integers, Sequences, SequencesExt

CONSTANTS
    None,          \* null, or a parameter map that is not an object
    MaxLimit,      \* MAX_LIMIT
    MaxDays,       \* MAX_DAYS
    DefaultLimit,  \* the limit of a history request that names none
    DefaultTop     \* the limit of a process request that names none

ASSUME EvidenceConstants ==
    /\ None \notin Int
    /\ None \notin {"invalid_request", "unknown_request_field", "unknown_operation",
                   "invalid_parameters", "unknown_parameter", "invalid_parameter"}
    /\ {MaxLimit, MaxDays, DefaultLimit, DefaultTop} \subseteq Nat

-----------------------------------------------------------------------------
\* OPERATIONS, with the parameters each takes.
Takes == [describe_operations       |-> {},
          get_system_status         |-> {},
          get_current_sensors       |-> {},
          get_network_status        |-> {},
          get_top_network_processes |-> {"limit"},
          get_recent_incidents      |-> {"limit", "days"},
          get_recent_sessions       |-> {"limit", "days"},
          get_coverage              |-> {},
          get_experiments           |-> {"experiment_id"}]

Operations == DOMAIN Takes

Bounds == [limit |-> 1 .. MaxLimit, days |-> 1 .. MaxDays]

\* _validate_request: the first objection to a request, None if it is in order.
Refusal(request) ==
    IF ~request.object THEN "invalid_request"
    ELSE IF request.extra THEN "unknown_request_field"
    ELSE IF request.operation \notin Operations THEN "unknown_operation"
    ELSE IF request.parameters = None THEN "invalid_parameters"
    ELSE IF ~(DOMAIN request.parameters \subseteq Takes[request.operation])
         THEN "unknown_parameter"
    ELSE IF \E n \in DOMAIN request.parameters \cap DOMAIN Bounds :
                request.parameters[n] \notin Bounds[n]
         THEN "invalid_parameter"
    ELSE None

Parameter(request, name, default) ==
    IF name \in DOMAIN request.parameters THEN request.parameters[name] ELSE default

\* A request that only the retained history can answer.
IsWide(request) == Parameter(request, "days", 1) > 1

-----------------------------------------------------------------------------
Error(code) == [ok |-> FALSE, code |-> code]

Response(operation, data, status) ==
    [ok |-> TRUE, operation |-> operation, data |-> data, status |-> status]

StatusFor(values) == IF values \subseteq {None} THEN "unavailable" ELSE "observed"

\* 100 percent.
Complete == 10000

CoverageStatus(pct) ==
    IF pct = None THEN "unavailable"
    ELSE IF pct >= Complete THEN "observed" ELSE "monitoring_gap"

\* rows[:n]
FirstOf(rows, n) == SubSeq(rows, 1, IF n < Len(rows) THEN n ELSE Len(rows))

\* A rate that is unknown in one direction counts the other alone.
Combined(row) == (IF row.down = None THEN 0 ELSE row.down) + (IF row.up = None THEN 0 ELSE row.up)

\* The busiest first; rows that tie stay in their order.
Busiest(rows) ==
    LET order == SetToSortSeq(DOMAIN rows,
                     LAMBDA i, j : \/ Combined(rows[i]) > Combined(rows[j])
                                   \/ Combined(rows[i]) = Combined(rows[j]) /\ i < j)
    IN  [k \in DOMAIN rows |-> rows[order[k]]]

Sensors(snapshot) == [cpu |-> snapshot.cpu, gpu |-> snapshot.gpu, memory |-> snapshot.memory]

\* _operation_availability: what the catalogue promises, given a snapshot or None.
Available(snapshot) ==
    [op \in Operations |->
        \/ op = "describe_operations"
        \/ /\ snapshot # None
           /\ op = "get_current_sensors" =>
                  \E r \in {snapshot.cpu, snapshot.gpu, snapshot.memory} : r # None
           /\ op = "get_top_network_processes" => snapshot.capture]

\* _recent_records over the last day; a wider request goes to the stores.
RecentRecords(request, rows, pct) ==
    Response(request.operation, FirstOf(rows, Parameter(request, "limit", DefaultLimit)),
             CoverageStatus(pct))

\* _experiments_response: experiments is what the fetcher returned, None if the
\* transport has none: the markers, or the report of one of them.
Experiments(request, experiments) ==
    IF experiments = None THEN Error("history_unavailable")
    ELSE IF ~experiments.ok THEN experiments
    ELSE Response(request.operation, experiments.data,
             IF "experiment_id" \in DOMAIN request.parameters
             THEN IF experiments.data = None THEN "unavailable" ELSE "derived"
             ELSE IF experiments.data = {} THEN "unavailable" ELSE "observed")

\* handle_request once a snapshot is loaded.  history is what the fetcher read
\* for a wide request, None if the transport has no fetcher.  A snapshot always
\* holds counts and flags, so two of the operations have something to report.
FromSnapshot(request, snapshot, history, experiments) ==
    LET op == request.operation IN
    CASE op = "get_system_status"   -> Response(op, {"system", "bridge_health"}, "observed")
      [] op = "get_current_sensors" ->
            Response(op, Sensors(snapshot), StatusFor({snapshot.cpu, snapshot.gpu, snapshot.memory}))
      [] op = "get_network_status"  ->
            Response(op, [down |-> snapshot.down, up |-> snapshot.up], "observed")
      [] op = "get_top_network_processes" ->
            LET rows == FirstOf(Busiest(snapshot.top), Parameter(request, "limit", DefaultTop))
            IN  Response(op, rows,
                         IF rows # <<>> \/ snapshot.capture THEN "observed" ELSE "unavailable")
      [] op \in {"get_recent_incidents", "get_recent_sessions"} /\ IsWide(request) ->
            IF history = None THEN Error("history_unavailable")
            ELSE RecentRecords(request, history.rows, history.coverage)
      [] op = "get_recent_incidents" /\ ~IsWide(request) ->
            RecentRecords(request, snapshot.incidents, snapshot.coverage)
      [] op = "get_recent_sessions" /\ ~IsWide(request) ->
            RecentRecords(request, snapshot.sessions, snapshot.coverage)
      [] op = "get_experiments"      -> Experiments(request, experiments)
      [] OTHER -> Response(op, snapshot.coverage, CoverageStatus(snapshot.coverage))

\* handle_request: unavailable is what the loader reports without a snapshot.
Answer(request, snapshot, unavailable, history, experiments) ==
    IF Refusal(request) # None THEN Error(Refusal(request))
    ELSE IF request.operation = "describe_operations"
         THEN Response(request.operation, Available(snapshot), "catalog")
    ELSE IF snapshot = None THEN Error(unavailable)
    ELSE FromSnapshot(request, snapshot, history, experiments)
=============================================================================
