---------------------------- MODULE EvidencePipe ----------------------------
(***************************************************************************)
(* The evidence that Thermal Watch publishes and the local pipe that       *)
(* serves it: the Tk thread builds a snapshot from time to time, writes it *)
(* to the snapshot file and puts it into the cache; the accept thread of   *)
(* EvidencePipeServer hands every connection to a thread of its own, which *)
(* reads one request, answers it from the cache or from the stores, and    *)
(* closes the pipe.                                                        *)
(*                                                                         *)
(* What there is to publish is World[version]: the snapshot the Tk thread  *)
(* would build, with what the stores hold beyond the last day.  A snapshot *)
(* is named by its version.                                                *)
(***************************************************************************)
EXTENDS EvidenceAnswers, FiniteSets

CONSTANTS
    World,      \* the snapshots of a run, in order
    Requests,   \* the frames a client may send
    Malformed,  \* the frame that is not JSON
    Slots,      \* bound on the pipe instances at one time
    MaxFaults   \* bound on failing system calls and failing writes

\* A snapshot lists its processes in order, and a coverage is a percentage or unknown.
ASSUME PipeConstants ==
    /\ None \notin Slots
    /\ World # <<>> /\ World \in Seq(Range(World))
    /\ \A v \in DOMAIN World :
        /\ {World[v].coverage, World[v].oldCoverage} \subseteq {None} \cup 0 .. Complete
        /\ World[v].top \in Seq(Range(World[v].top))

VARIABLES
    version,   \* what there is to publish
    phase,     \* the application: running, joining the accept thread, or gone
    timer,     \* the evidence timer: armed, firing between file and cache, or dead
    cache,     \* _evidence_cache
    file,      \* the snapshot file
    acceptor,  \* where the accept thread is: create, retry, await or ended
    offered,   \* the pipe instance the accept thread waits on
    open,      \* the open pipe instances
    thread,    \* where the thread of a connection is
    request,   \* its request, with what was published when it came in
    reply,     \* its answer, with the version it was drawn from
    faults,    \* how many faults there have been
    published  \* history variable: the version of the last flush that ended

pubVars  == <<version, phase, timer, cache, file, published>>
pipeVars == <<acceptor, offered, open, thread, request, reply>>

stopped == phase # "running"

PipeInit ==
    /\ version = 1
    /\ phase = "running"
    /\ timer = "armed"
    /\ cache = None
    /\ file \in {None, 1}  \* an earlier run may have left one
    /\ acceptor \in {"create", "ended"}  \* EVIDENCE_PIPE_ENABLED, or not
    /\ offered = None
    /\ open = {}
    /\ thread = [s \in Slots |-> "none"]
    /\ request = [s \in Slots |-> None]
    /\ reply = [s \in Slots |-> None]
    /\ faults = 0
    /\ published = None

Fault == faults < MaxFaults /\ faults' = faults + 1

-----------------------------------------------------------------------------
\* The operators named Bug... are mutants, used by no specification.

\* The cache is filled from the file that was written.
BugFlushCache ==
    /\ timer = "firing"
    /\ timer' = "armed"
    /\ cache' = file
    /\ published' = version
    /\ UNCHANGED <<version, phase, file, pipeVars, faults>>

\* The instance nobody connected to is not closed.
BugConnectFails ==
    /\ acceptor = "await"
    /\ Fault
    /\ offered' = None
    /\ acceptor' = "create"
    /\ UNCHANGED <<pubVars, open, thread, request, reply>>

\* The wait for a client does not look at the stop event.
BugAwaitStops ==
    /\ acceptor = "await" /\ stopped
    /\ UNCHANGED <<pubVars, pipeVars, faults>>

\* A wide answer is judged by the coverage of the last day.
BugFetchCoverage(s) ==
    /\ thread[s] = "fetching" /\ reply[s].rows # None
    /\ thread' = [thread EXCEPT ![s] = "writing"]
    /\ LET history == [rows |-> reply[s].rows, coverage |-> World[reply[s].at].coverage]
       IN  reply' = [reply EXCEPT ![s] =
                [at |-> reply[s].at,
                 answer |-> Answer(request[s].frame, World[reply[s].at], None, history, None)]]
    /\ UNCHANGED <<pubVars, acceptor, offered, open, request, faults>>

-----------------------------------------------------------------------------
\* The Tk thread.

\* A tick of the poll loop, or a store it writes, changes what there is to say.
Moves ==
    /\ phase = "running" /\ timer # "firing"
    /\ version < Len(World)
    /\ version' = version + 1
    /\ UNCHANGED <<phase, timer, cache, file, published, pipeVars, faults>>

\* _flush_evidence_periodic: the snapshot is built and written; a write may fail.
FlushFile ==
    /\ phase = "running" /\ timer = "armed"
    /\ timer' = "firing"
    /\ \/ file' = version /\ UNCHANGED faults
       \/ Fault /\ UNCHANGED file
    /\ UNCHANGED <<version, phase, cache, published, pipeVars>>

\* Building the snapshot raises: the timer is not armed again.
FlushRaises ==
    /\ phase = "running" /\ timer = "armed"
    /\ Fault
    /\ timer' = "dead"
    /\ UNCHANGED <<version, phase, cache, file, published, pipeVars>>

\* The cache is replaced, under its lock, and the timer armed again.
FlushCache ==
    /\ timer = "firing"
    /\ timer' = "armed"
    /\ cache' = version
    /\ published' = version
    /\ UNCHANGED <<version, phase, file, pipeVars, faults>>

\* close and destroy: the stop event is set, the timers are cancelled.
Close ==
    /\ phase = "running" /\ timer # "firing"
    /\ phase' = "joining"
    /\ timer' = "dead"
    /\ UNCHANGED <<version, cache, file, published, pipeVars, faults>>

\* The accept thread is joined; the process ends and takes the daemon threads
\* and their handles with it.
Gone ==
    /\ phase = "joining" /\ acceptor = "ended"
    /\ phase' = "gone"
    /\ open' = {}
    /\ thread' = [s \in Slots |-> "none"]
    /\ request' = [s \in Slots |-> None]
    /\ reply' = [s \in Slots |-> None]
    /\ UNCHANGED <<version, timer, cache, file, published, acceptor, offered, faults>>

-----------------------------------------------------------------------------
\* The accept thread.

\* CreateNamedPipe.
Create(s) ==
    /\ acceptor = "create" /\ ~stopped
    /\ s \notin open
    /\ open' = open \cup {s}
    /\ offered' = s
    /\ acceptor' = "await"
    /\ UNCHANGED <<pubVars, thread, request, reply, faults>>

CreateFails ==
    /\ acceptor = "create" /\ ~stopped
    /\ Fault
    /\ acceptor' = "retry"
    /\ UNCHANGED <<pubVars, offered, open, thread, request, reply>>

\* The wait after a failure ends early when the program stops.
Retry ==
    /\ acceptor = "retry"
    /\ acceptor' = IF stopped THEN "ended" ELSE "create"
    /\ UNCHANGED <<pubVars, offered, open, thread, request, reply, faults>>

\* ConnectNamedPipe raises: the instance is closed.
ConnectFails ==
    /\ acceptor = "await"
    /\ Fault
    /\ open' = open \ {offered}
    /\ offered' = None
    /\ acceptor' = "create"
    /\ UNCHANGED <<pubVars, thread, request, reply>>

\* A client connects, perhaps in the very moment the program stops: the
\* instance passes to a thread of its own.
Connected ==
    /\ acceptor = "await"
    /\ thread' = [thread EXCEPT ![offered] = "reading"]
    /\ offered' = None
    /\ acceptor' = "create"
    /\ UNCHANGED <<pubVars, open, request, reply, faults>>

\* Nobody connected before the program stopped.
AwaitStops ==
    /\ acceptor = "await" /\ stopped
    /\ open' = open \ {offered}
    /\ offered' = None
    /\ acceptor' = "ended"
    /\ UNCHANGED <<pubVars, thread, request, reply, faults>>

AcceptStops ==
    /\ acceptor = "create" /\ stopped
    /\ acceptor' = "ended"
    /\ UNCHANGED <<pubVars, offered, open, thread, request, reply, faults>>

-----------------------------------------------------------------------------
\* The thread of a connection.

\* The finally clause: whatever happened, the instance is closed.
Closed(s) ==
    /\ open' = open \ {s}
    /\ thread' = [thread EXCEPT ![s] = "none"]
    /\ request' = [request EXCEPT ![s] = None]
    /\ reply' = [reply EXCEPT ![s] = None]
    /\ UNCHANGED <<pubVars, acceptor, offered>>

\* A whole frame came in.  One that is not JSON is answered at once.
Read(s) ==
    /\ thread[s] = "reading"
    /\ \E frame \in Requests \cup {Malformed} :
        /\ request' = [request EXCEPT ![s] = [frame |-> frame, floor |-> published]]
        /\ IF frame = Malformed
           THEN /\ thread' = [thread EXCEPT ![s] = "writing"]
                /\ reply' = [reply EXCEPT ![s] = [at |-> None, answer |-> Error("malformed_frame")]]
           ELSE /\ thread' = [thread EXCEPT ![s] = "handling"]
                /\ UNCHANGED reply
    /\ UNCHANGED <<pubVars, acceptor, offered, open, faults>>

\* The client is silent for too long, goes away, or sends a bad length.
ReadFails(s) ==
    /\ thread[s] = "reading"
    /\ Closed(s)
    /\ UNCHANGED faults

\* _pipe_experiments_fetcher: the markers, or the report of one of them.
FetchedExperiments(req) ==
    LET id == Parameter(req, "experiment_id", None)
    IN  IF id = None THEN [ok |-> TRUE, data |-> World[version].markers]
        ELSE IF id \notin World[version].markers THEN Error("unknown_experiment_id")
        ELSE [ok |-> TRUE, data |-> World[version].report]

NeedsHistory(req) == Refusal(req) = None /\ IsWide(req)

\* _pipe_evidence_loader: the cache is read once, under its lock.
Loaded == IF cache = None THEN None ELSE World[cache]

\* handle_request.  A wide request goes on to the stores.
Handle(s) ==
    LET req      == request[s].frame
        snapshot == Loaded
    IN  /\ thread[s] = "handling"
        /\ IF snapshot # None /\ NeedsHistory(req)
           THEN /\ thread' = [thread EXCEPT ![s] = "fetching"]
                /\ reply' = [reply EXCEPT ![s] = [at |-> cache, rows |-> None]]
           ELSE /\ thread' = [thread EXCEPT ![s] = "writing"]
                /\ reply' = [reply EXCEPT ![s] =
                        [at |-> cache,
                         answer |-> Answer(req, snapshot, "evidence_not_ready", None,
                                           FetchedExperiments(req))]]
        /\ UNCHANGED <<pubVars, acceptor, offered, open, request, faults>>

\* The report of an experiment meets a telemetry store that cannot be read.
HandleRaises(s) ==
    /\ thread[s] = "handling" /\ cache # None
    /\ request[s].frame.operation = "get_experiments"
    /\ Fault
    /\ Closed(s)

StoredRows(req) ==
    IF req.operation = "get_recent_incidents" THEN World[version].oldIncidents
    ELSE World[version].oldSessions

\* _pipe_history_fetcher reads the records, then the telemetry.
FetchRows(s) ==
    /\ thread[s] = "fetching" /\ reply[s].rows = None
    /\ reply' = [reply EXCEPT ![s].rows = StoredRows(request[s].frame)]
    /\ UNCHANGED <<pubVars, acceptor, offered, open, thread, request, faults>>

FetchCoverage(s) ==
    /\ thread[s] = "fetching" /\ reply[s].rows # None
    /\ thread' = [thread EXCEPT ![s] = "writing"]
    /\ LET history == [rows |-> reply[s].rows, coverage |-> World[version].oldCoverage]
       IN  reply' = [reply EXCEPT ![s] =
                [at |-> reply[s].at,
                 answer |-> Answer(request[s].frame, World[reply[s].at], None, history, None)]]
    /\ UNCHANGED <<pubVars, acceptor, offered, open, request, faults>>

\* The response is written, or the client does not take it in time.
Write(s) ==
    /\ thread[s] = "writing"
    /\ Closed(s)
    /\ UNCHANGED faults

-----------------------------------------------------------------------------
Accepts ==
    \/ \E s \in Slots : Create(s)
    \/ CreateFails \/ Retry \/ ConnectFails \/ Connected \/ AwaitStops \/ AcceptStops

Serves(s) ==
    \/ Read(s) \/ ReadFails(s) \/ Handle(s) \/ HandleRaises(s)
    \/ FetchRows(s) \/ FetchCoverage(s) \/ Write(s)

Publishes == Moves \/ FlushFile \/ FlushRaises \/ FlushCache \/ Close

PipeNext ==
    /\ phase # "gone"
    /\ Publishes \/ Accepts \/ (\E s \in Slots : Serves(s)) \/ Gone

-----------------------------------------------------------------------------
Writing(s) == thread[s] = "writing"

\* Every open pipe instance has exactly one owner, which closes it: the accept
\* thread the one it waits on, a connection's thread its own.  None leaks when a
\* call fails or the program stops, and no thread works on a closed one.
InstancesAreOwned ==
    LET served == {s \in Slots : thread[s] # "none"}
    IN  /\ open = served \cup ({offered} \ {None})
        /\ offered \notin served
        /\ acceptor = "ended" => offered = None

\* An answer is drawn from a snapshot at least as recent as the one published
\* when its request came in; "not ready" is said only before the first.
AnswersAreCurrent ==
    \A s \in Slots : Writing(s) /\ request[s].frame # Malformed =>
        IF reply[s].at = None THEN request[s].floor = None
        ELSE /\ request[s].floor # None => reply[s].at >= request[s].floor
             /\ reply[s].at <= version

\* An answer over a window passes as fully observed only if the whole of that
\* window was: a wide one is not judged by the coverage of the last day.
CompletenessIsEarned ==
    \A s \in Slots :
        /\ Writing(s) /\ request[s].frame # Malformed
        /\ reply[s].answer.ok
        /\ reply[s].answer.operation \in {"get_recent_incidents", "get_recent_sessions", "get_coverage"}
        /\ reply[s].answer.status = "observed"
        => IF IsWide(request[s].frame)
           THEN \E v \in 1 .. version : World[v].oldCoverage = Complete
           ELSE World[reply[s].at].coverage = Complete
=============================================================================
