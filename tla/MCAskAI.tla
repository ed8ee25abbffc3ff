------------------------------ MODULE MCAskAI ------------------------------
(* A small instance of AskAI for TLC. *)
EXTENDS AskAI

Row(name, down, up) == [name |-> name, down |-> down, up |-> up]
Incident(id, component, severe) == [id |-> id, component |-> component, severe |-> severe]

(* A machine that has just started, without a GPU sensor, and the same machine
   later, after an incident, with a gap in the last day. *)
TwoSnapshots == <<
    [cpu |-> 5000, gpu |-> None, memory |-> 4000, down |-> 100, up |-> 200, capture |-> TRUE,
     top |-> <<Row("a", 100, None), Row("b", 300, 200)>>,
     incidents |-> <<>>, sessions |-> <<>>, coverage |-> Complete,
     oldIncidents |-> <<Incident("i1", "cpu", FALSE)>>, oldSessions |-> <<>>,
     oldCoverage |-> 4000, markers |-> {}, report |-> None],
    [cpu |-> 8000, gpu |-> 5000, memory |-> 4000, down |-> 100, up |-> 200, capture |-> FALSE,
     top |-> <<>>,
     incidents |-> <<Incident("i2", "cpu", TRUE)>>, sessions |-> <<[id |-> "s1"]>>, coverage |-> 9000,
     oldIncidents |-> <<Incident("i2", "cpu", TRUE), Incident("i1", "cpu", FALSE)>>,
     oldSessions |-> <<[id |-> "s1"]>>,
     oldCoverage |-> 5000, markers |-> {"e1"}, report |-> "measured"] >>

Query(op, params) == [object |-> TRUE, extra |-> FALSE, operation |-> op, parameters |-> params]
Plain(op) == Query(op, <<>>)

PipeRequests == {
    Query("get_recent_incidents", [limit |-> 1]),
    Query("get_recent_incidents", [days |-> 2, limit |-> 1]),
    Query("get_experiments", [experiment_id |-> "e1"])}

ModelCalls == {
    <<Plain("get_current_sensors")>>,
    <<Plain("get_network_status")>>,
    <<Query("get_top_network_processes", [limit |-> 2])>>,
    <<Plain("get_coverage"), Plain("get_recent_incidents")>>,
    <<Plain("get_recent_incidents")>>,
    <<Query("get_recent_incidents", [days |-> 2])>>,
    <<Plain("get_recent_sessions")>>}

Scalar(field, value) == [kind |-> "scalar", field |-> field, value |-> value]
Rate(entity, direction, value) ==
    [kind |-> "process", entity |-> entity, direction |-> direction, value |-> value]
SafeCpu == [kind |-> "safe", component |-> "cpu"]

(* What holds, what does not and what nothing was retrieved of, side by side. *)
ModelReplies == {
    <<Scalar("cpu", 5030), Scalar("gpu", 5000), SafeCpu>>,
    <<Scalar("coverage", 9100), [kind |-> "definite"]>>,
    <<Rate("a", "down", 300), Rate("c", "up", 200)>>,
    <<[kind |-> "citation", id |-> "i2"], [kind |-> "causal"]>>,
    <<SafeCpu, [kind |-> "hedged"]>>}

ModelClaims == UNION {ToSet(claims) : claims \in ModelReplies}

-----------------------------------------------------------------------------
(* Who asks in a behaviour: a client of the pipe, a user of the Ask window who
   opens and closes it and changes the settings while the provider
   fails, or a model that asks for evidence in the one question of a window.
   They do not meet: each only reads what is published, a client no settings and
   no file, a user who gets no answer neither. *)
VARIABLE client

MCInit ==
    /\ Init
    /\ client \in {"pipe", "user", "model"}
    /\ (client = "pipe") = (acceptor = "create")
    /\ client = "model" => setting = "openai_compatible"
    /\ client = "pipe" => setting = None
    /\ client # "model" => file = None

MCNext ==
    /\ UNCHANGED client
    /\ phase # "gone"
    /\ \/ (Publishes \/ AcceptStops \/ Gone) /\ UNCHANGED askVars
       \/ /\ client = "pipe"
          /\ Accepts \/ (\E s \in Slots : Serves(s))
          /\ UNCHANGED askVars
       \/ /\ client # "pipe"
          /\ AskNext
    /\ client = "user" =>
           /\ UNCHANGED <<version, cache, file>> /\ timer' # "firing"
           /\ \A q \in DOMAIN question' :
                question'[q].todo = <<>> /\ question'[q].response \in {None, Failure, Taken}
    /\ client = "model" =>
           /\ adapter' = adapter /\ windows' <= 1 /\ Len(question') <= 1
           /\ phase' = "running" => timer' # "dead"

MCSpec == MCInit /\ [][MCNext]_<<deskVars, client>> /\ Fairness
=============================================================================
