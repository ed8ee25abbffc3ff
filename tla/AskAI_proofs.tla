---------------------------- MODULE AskAI_proofs ----------------------------
(***************************************************************************)
(* The safety invariants of the evidence pipe and of the Ask window, for   *)
(* any snapshots, requests, claims and bounds.                             *)
(***************************************************************************)
EXTENDS AskAI, SequenceTheorems, Extrema

-----------------------------------------------------------------------------
\* THE PIPE INSTANCES

Served == {s \in Slots : thread[s] # "none"}

\* Why an instance has one owner: the accept thread holds the one it waits on
\* exactly while it waits, and a connection's thread holds its own while it runs.
OwnedInv ==
    /\ acceptor \in {"create", "retry", "await", "ended"}
    /\ offered \in Slots \cup {None}
    /\ acceptor = "await" <=> offered # None
    /\ thread \in [Slots -> {"none", "reading", "handling", "fetching", "writing"}]
    /\ offered \notin Served
    /\ open = Served \cup ({offered} \ {None})

LEMMA OwnedInit == PipeInit => OwnedInv
BY PipeConstants DEF PipeInit, OwnedInv, Served

\* A connection's thread that ends closes its own instance and no other.
LEMMA OwnedClosed ==
    ASSUME OwnedInv, NEW s \in Slots, thread[s] # "none", Closed(s)
    PROVE  OwnedInv'
BY PipeConstants DEF OwnedInv, Served, Closed

LEMMA OwnedServes ==
    ASSUME OwnedInv, NEW s \in Slots, Serves(s)
    PROVE  OwnedInv'
<1>1. CASE Read(s)
  BY <1>1, PipeConstants DEF OwnedInv, Served, Read
<1>2. CASE ReadFails(s)
  BY <1>2, OwnedClosed DEF ReadFails
<1>3. CASE Handle(s)
  BY <1>3, PipeConstants DEF OwnedInv, Served, Handle
<1>4. CASE HandleRaises(s)
  BY <1>4, OwnedClosed DEF HandleRaises
<1>5. CASE FetchRows(s)
  BY <1>5, PipeConstants DEF OwnedInv, Served, FetchRows
<1>6. CASE FetchCoverage(s)
  BY <1>6, PipeConstants DEF OwnedInv, Served, FetchCoverage
<1>7. CASE Write(s)
  BY <1>7, OwnedClosed DEF Write
<1>8. QED
  BY <1>1, <1>2, <1>3, <1>4, <1>5, <1>6, <1>7 DEF Serves

LEMMA OwnedAccepts ==
    ASSUME OwnedInv, Accepts
    PROVE  OwnedInv'
<1> USE PipeConstants DEF OwnedInv, Served
<1>1. ASSUME NEW s \in Slots, Create(s) PROVE OwnedInv'
  BY <1>1 DEF Create
<1>2. CASE CreateFails
  BY <1>2 DEF CreateFails
<1>3. CASE Retry
  BY <1>3 DEF Retry
<1>4. CASE ConnectFails
  BY <1>4 DEF ConnectFails
<1>5. CASE Connected
  BY <1>5 DEF Connected
<1>6. CASE AwaitStops
  BY <1>6 DEF AwaitStops
<1>7. CASE AcceptStops
  BY <1>7 DEF AcceptStops
<1>8. QED
  BY <1>1, <1>2, <1>3, <1>4, <1>5, <1>6, <1>7 DEF Accepts

LEMMA OwnedPipeNext ==
    ASSUME OwnedInv, PipeNext
    PROVE  OwnedInv'
<1>1. CASE Publishes
  BY <1>1 DEF Publishes, Moves, FlushFile, FlushRaises, FlushCache, Close, pipeVars, OwnedInv, Served
<1>2. CASE Accepts
  BY <1>2, OwnedAccepts
<1>3. CASE \E s \in Slots : Serves(s)
  BY <1>3, OwnedServes
<1>4. CASE Gone
  BY <1>4, PipeConstants DEF Gone, OwnedInv, Served
<1>5. QED
  BY <1>1, <1>2, <1>3, <1>4 DEF PipeNext

-----------------------------------------------------------------------------
\* THE ANSWERS

\* What is published never goes back, and the cache holds the last of it.
PublishedInv ==
    /\ version \in DOMAIN World
    /\ published = cache
    /\ {cache, file} \subseteq {None} \cup 1 .. version
    /\ request = [s \in Slots |-> request[s]]
    /\ reply = [s \in Slots |-> reply[s]]

\* A thread that has read its request remembers what was published then.
RequestInv(s) ==
    LET floor == request[s].floor IN
    thread[s] \in {"handling", "fetching", "writing"} =>
        /\ request[s] = [frame |-> request[s].frame, floor |-> floor]
        /\ floor # None => cache # None /\ floor \in 1 .. cache

\* The version a reply is drawn from.
DrawnInv(s) ==
    LET floor == request[s].floor IN
    /\ reply[s].at # None => reply[s].at \in 1 .. version
    /\ floor # None => reply[s].at # None /\ floor <= reply[s].at

\* Only a request in order and over a wide window goes to the stores.
FetchingInv(s) ==
    thread[s] = "fetching" =>
        /\ DrawnInv(s) /\ reply[s].at # None
        /\ NeedsHistory(request[s].frame)
        /\ reply[s] = [at |-> reply[s].at, rows |-> reply[s].rows]

\* The operations whose status speaks of a window.
Windowed == {"get_recent_incidents", "get_recent_sessions", "get_coverage"}

Earned(frame, at, answer) ==
    answer.ok /\ answer.operation \in Windowed /\ answer.status = "observed" =>
        IF IsWide(frame) THEN \E v \in 1 .. version : World[v].oldCoverage = Complete
        ELSE World[at].coverage = Complete

WritingInv(s) ==
    /\ thread[s] \in {"handling", "fetching"} => request[s].frame # Malformed
    /\ thread[s] = "writing" /\ request[s].frame # Malformed =>
        /\ DrawnInv(s)
        /\ Earned(request[s].frame, reply[s].at, reply[s].answer)

SlotInv(s) == RequestInv(s) /\ FetchingInv(s) /\ WritingInv(s)

AnswerInv == PublishedInv /\ \A s \in Slots : SlotInv(s)

\* Without a window to fetch, the answer is complete only if the last day was.
LEMMA PlainAnswerIsEarned ==
    ASSUME NEW frame, NEW at \in {None} \cup DOMAIN World, NEW unavailable, NEW experiments,
           experiments = None \/ experiments.ok \in BOOLEAN,
           ~NeedsHistory(frame) \/ (IF at = None THEN None ELSE World[at]) = None
    PROVE  LET snapshot == IF at = None THEN None ELSE World[at]
               answer   == Answer(frame, snapshot, unavailable, None, experiments)
           IN  answer.ok /\ answer.operation \in Windowed /\ answer.status = "observed" =>
                   ~IsWide(frame) /\ World[at].coverage = Complete
<1> DEFINE snapshot == IF at = None THEN None ELSE World[at]
           answer == Answer(frame, snapshot, unavailable, None, experiments)
<1> SUFFICES ASSUME answer.ok, answer.operation \in Windowed, answer.status = "observed"
             PROVE  ~IsWide(frame) /\ World[at].coverage = Complete
  OBVIOUS
<1>1. Refusal(frame) = None /\ frame.operation # "describe_operations" /\ snapshot # None
  BY DEF Answer, Error, Response, Windowed
<1>2. answer = FromSnapshot(frame, snapshot, None, experiments)
  BY <1>1 DEF Answer
<1>3. at # None /\ snapshot = World[at] /\ ~IsWide(frame)
  BY <1>1 DEF NeedsHistory
<1>4. answer.status = CoverageStatus(snapshot.coverage)
  BY <1>2, <1>3 DEF FromSnapshot, RecentRecords, Response, Windowed, Experiments, Error
<1>5. World[at].coverage \in {None} \cup 0 .. Complete
  BY <1>3, PipeConstants
<1>6. World[at].coverage >= Complete
  BY <1>3, <1>4 DEF CoverageStatus
<1>7. World[at].coverage # None
  BY <1>3, <1>4 DEF CoverageStatus
<1>8. Complete \in Nat
  BY DEF Complete
<1>9. World[at].coverage = Complete
  BY <1>5, <1>6, <1>7, <1>8
<1>10. QED
  BY <1>3, <1>9

\* A request for the coverage in order names no days.
LEMMA NoDays ==
    ASSUME NEW frame, Refusal(frame) = None, frame.operation = "get_coverage"
    PROVE  ~IsWide(frame)
<1>1. DOMAIN frame.parameters \subseteq Takes["get_coverage"]
  BY EvidenceConstants DEF Refusal
<1>2. DOMAIN frame.parameters = {}
  BY <1>1 DEF Takes
<1>3. QED
  BY <1>2 DEF IsWide, Parameter

\* From the stores, it is complete only if the retained history was.
LEMMA FetchedAnswerIsEarned ==
    ASSUME NEW frame, NEW snapshot, NEW rows, NEW v \in DOMAIN World,
           NeedsHistory(frame), snapshot # None
    PROVE  LET answer == Answer(frame, snapshot, None,
                                [rows |-> rows, coverage |-> World[v].oldCoverage], None)
           IN  answer.ok /\ answer.operation \in Windowed /\ answer.status = "observed" =>
                   IsWide(frame) /\ World[v].oldCoverage = Complete
<1> DEFINE history == [rows |-> rows, coverage |-> World[v].oldCoverage]
           answer == Answer(frame, snapshot, None, history, None)
<1> SUFFICES ASSUME answer.ok, answer.operation \in Windowed, answer.status = "observed"
             PROVE  IsWide(frame) /\ World[v].oldCoverage = Complete
  OBVIOUS
<1>1. Refusal(frame) = None /\ frame.operation # "describe_operations" /\ IsWide(frame)
  BY DEF Answer, Error, Response, Windowed, NeedsHistory
<1>2. answer = FromSnapshot(frame, snapshot, history, None)
  BY <1>1 DEF Answer
<1>3. frame.operation \in {"get_recent_incidents", "get_recent_sessions"}
  <2>1. frame.operation \in Windowed
    BY <1>2 DEF FromSnapshot, RecentRecords, Response, Windowed, Experiments, Error
  <2>2. frame.operation # "get_coverage"
    BY <1>1, NoDays
  <2>3. QED
    BY <2>1, <2>2 DEF Windowed
<1>4. answer.status = CoverageStatus(World[v].oldCoverage)
  <2>1. history # None
    BY <1>1, <1>2, <1>3 DEF FromSnapshot, Error
  <2>2. answer = RecentRecords(frame, rows, World[v].oldCoverage)
    BY <1>1, <1>2, <1>3, <2>1 DEF FromSnapshot
  <2>3. QED
    BY <2>2 DEF RecentRecords, Response
<1>5. World[v].oldCoverage \in {None} \cup 0 .. Complete
  BY PipeConstants
<1>6. World[v].oldCoverage >= Complete /\ World[v].oldCoverage # None
  BY <1>4 DEF CoverageStatus
<1>7. Complete \in Nat
  BY DEF Complete
<1>8. QED
  BY <1>1, <1>5, <1>6, <1>7

LEMMA AnswerInit == PipeInit => AnswerInv
BY PipeConstants, LenProperties
   DEF PipeInit, AnswerInv, PublishedInv, SlotInv, RequestInv, FetchingInv, WritingInv

\* What nobody touches stays as good as it was, whatever is published since.
LEMMA SlotIsKept ==
    ASSUME PublishedInv, PublishedInv', version <= version',
           cache # None => cache' # None /\ cache <= cache',
           NEW s \in Slots, SlotInv(s),
           thread'[s] = thread[s], request'[s] = request[s], reply'[s] = reply[s]
    PROVE  SlotInv(s)'
<1>0. version \in Nat /\ version' \in Nat /\ 1 .. version \subseteq 1 .. version'
  BY PipeConstants, LenProperties DEF PublishedInv
<1>1. RequestInv(s)'
  BY <1>0, EvidenceConstants DEF SlotInv, RequestInv, PublishedInv
<1>2. DrawnInv(s) => DrawnInv(s)'
  BY <1>0 DEF DrawnInv
<1>3. FetchingInv(s)'
  BY <1>2 DEF SlotInv, FetchingInv
<1>4. ASSUME NEW frame, NEW at, NEW answer, Earned(frame, at, answer)
      PROVE  Earned(frame, at, answer)'
  BY <1>0, <1>4 DEF Earned
<1>5. WritingInv(s)'
  BY <1>2, <1>4 DEF SlotInv, WritingInv
<1>6. QED
  BY <1>1, <1>3, <1>5 DEF SlotInv

\* A thread that has ended has nothing to answer for.
LEMMA IdleSlot ==
    ASSUME NEW s \in Slots, thread'[s] \in {"none", "reading"}
    PROVE  SlotInv(s)'
BY DEF SlotInv, RequestInv, FetchingInv, WritingInv

\* Nothing is published, and only the thread of s moves.
LEMMA OtherSlots ==
    ASSUME AnswerInv, NEW s \in Slots, UNCHANGED pubVars,
           request' = [r \in Slots |-> request'[r]], reply' = [r \in Slots |-> reply'[r]],
           \A r \in Slots \ {s} :
               thread'[r] = thread[r] /\ request'[r] = request[r] /\ reply'[r] = reply[r],
           SlotInv(s)'
    PROVE  AnswerInv'
<1>1. PublishedInv' /\ version \in Nat
  BY PipeConstants, LenProperties DEF AnswerInv, PublishedInv, pubVars
<1>2. ASSUME NEW r \in Slots PROVE SlotInv(r)'
  <2>1. CASE r = s
    BY <2>1
  <2>2. CASE r # s
    <3>1. version <= version' /\ (cache # None => cache' # None /\ cache <= cache')
      BY <1>1, EvidenceConstants DEF pubVars, AnswerInv, PublishedInv
    <3>2. QED
      BY <1>1, <2>2, <3>1, SlotIsKept DEF AnswerInv
  <2>3. QED
    BY <2>1, <2>2
<1>3. QED
  BY <1>1, <1>2 DEF AnswerInv

LEMMA AnswerClosed ==
    ASSUME OwnedInv, AnswerInv, NEW s \in Slots, Closed(s)
    PROVE  AnswerInv'
<1>1. thread'[s] = "none"
  BY DEF Closed, OwnedInv
<1>2. SlotInv(s)'
  BY <1>1, IdleSlot
<1>3. QED
  BY <1>2, OtherSlots DEF Closed, OwnedInv, AnswerInv, PublishedInv

LEMMA AnswerRead ==
    ASSUME OwnedInv, AnswerInv, NEW s \in Slots, Read(s)
    PROVE  AnswerInv'
<1>1. PICK frame \in Requests \cup {Malformed} :
        /\ request' = [request EXCEPT ![s] = [frame |-> frame, floor |-> published]]
        /\ IF frame = Malformed
           THEN /\ thread' = [thread EXCEPT ![s] = "writing"]
                /\ reply' = [reply EXCEPT ![s] = [at |-> None, answer |-> Error("malformed_frame")]]
           ELSE /\ thread' = [thread EXCEPT ![s] = "handling"]
                /\ UNCHANGED reply
  BY DEF Read
<1>2. /\ request'[s] = [frame |-> frame, floor |-> published]
      /\ thread'[s] = IF frame = Malformed THEN "writing" ELSE "handling"
  BY <1>1 DEF OwnedInv, AnswerInv, PublishedInv
<1>3. /\ published' = cache' /\ cache' = cache
      /\ cache # None => cache \in 1 .. cache
  BY EvidenceConstants, PipeConstants DEF Read, pubVars, AnswerInv, PublishedInv
<1>4. RequestInv(s)'
  BY <1>2, <1>3 DEF RequestInv, Read, pubVars
<1>5. FetchingInv(s)' /\ WritingInv(s)'
  BY <1>2 DEF FetchingInv, WritingInv
<1>6. QED
  BY <1>1, <1>4, <1>5, OtherSlots DEF Read, OwnedInv, AnswerInv, PublishedInv, SlotInv

LEMMA AnswerHandle ==
    ASSUME OwnedInv, AnswerInv, NEW s \in Slots, Handle(s)
    PROVE  AnswerInv'
<1> DEFINE req == request[s].frame
           floor == request[s].floor
           experiments == FetchedExperiments(req)
           answer == Answer(req, Loaded, "evidence_not_ready", None, experiments)
<1>1. /\ thread[s] = "handling" /\ req # Malformed
      /\ RequestInv(s) /\ PublishedInv
  BY DEF Handle, AnswerInv, SlotInv, WritingInv
<1>2. /\ UNCHANGED <<pubVars, request>>
      /\ cache # None => cache \in 1 .. version
  BY <1>1 DEF Handle, PublishedInv
<1>3. RequestInv(s)'
  BY <1>1, <1>2 DEF RequestInv, pubVars
<1>4. ASSUME reply'[s].at = cache PROVE DrawnInv(s)'
  <2>1. floor # None => cache # None /\ floor <= cache
    BY <1>1, EvidenceConstants DEF RequestInv, PublishedInv
  <2>2. QED
    BY <1>2, <1>4, <2>1 DEF DrawnInv, pubVars
<1>5. CASE Loaded # None /\ NeedsHistory(req)
  <2>1. thread'[s] = "fetching" /\ reply'[s] = [at |-> cache, rows |-> None]
    BY <1>5 DEF Handle, OwnedInv, AnswerInv, PublishedInv
  <2>2. cache # None
    BY <1>5 DEF Loaded
  <2>3. NeedsHistory(request'[s].frame)
    BY <1>2, <1>5
  <2>4. FetchingInv(s)'
    BY <1>2, <1>4, <2>1, <2>2, <2>3 DEF FetchingInv, pubVars
  <2>5. WritingInv(s)'
    BY <1>1, <1>2, <2>1 DEF WritingInv
  <2>6. QED
    BY <1>3, <1>5, <2>4, <2>5, OtherSlots DEF Handle, OwnedInv, AnswerInv, PublishedInv, SlotInv
<1>6. CASE ~(Loaded # None /\ NeedsHistory(req))
  <2>1. thread'[s] = "writing" /\ reply'[s] = [at |-> cache, answer |-> answer]
    BY <1>6 DEF Handle, OwnedInv, AnswerInv, PublishedInv
  <2>2. experiments.ok \in BOOLEAN
    BY DEF FetchedExperiments, Error
  <2>3. cache \in {None} \cup DOMAIN World
    BY <1>1, PipeConstants, LenProperties DEF PublishedInv
  <2>4. ASSUME answer.ok, answer.operation \in Windowed, answer.status = "observed"
        PROVE  ~IsWide(req) /\ World[cache].coverage = Complete
    BY <1>6, <2>2, <2>3, <2>4, PlainAnswerIsEarned DEF Loaded
  <2>5. Earned(request[s].frame, reply[s].at, reply[s].answer)'
    BY <1>2, <2>1, <2>4 DEF Earned
  <2>6. WritingInv(s)'
    BY <1>4, <2>1, <2>5 DEF WritingInv
  <2>7. FetchingInv(s)'
    BY <2>1 DEF FetchingInv
  <2>8. QED
    BY <1>3, <1>6, <2>6, <2>7, OtherSlots DEF Handle, OwnedInv, AnswerInv, PublishedInv, SlotInv
<1>7. QED
  BY <1>5, <1>6

LEMMA AnswerFetchRows ==
    ASSUME OwnedInv, AnswerInv, NEW s \in Slots, FetchRows(s)
    PROVE  AnswerInv'
<1>1. thread[s] = "fetching" /\ FetchingInv(s) /\ RequestInv(s) /\ WritingInv(s)
  BY DEF FetchRows, AnswerInv, SlotInv
<1>2. /\ UNCHANGED <<pubVars, thread, request>>
      /\ reply'[s] = [at |-> reply[s].at, rows |-> StoredRows(request[s].frame)]
  BY <1>1 DEF FetchRows, AnswerInv, PublishedInv, FetchingInv
<1>3. RequestInv(s)'
  BY <1>1, <1>2 DEF RequestInv, pubVars
<1>4. FetchingInv(s)'
  BY <1>1, <1>2 DEF FetchingInv, DrawnInv, pubVars
<1>5. WritingInv(s)'
  BY <1>1, <1>2 DEF WritingInv
<1>6. QED
  BY <1>2, <1>3, <1>4, <1>5, OtherSlots DEF FetchRows, AnswerInv, PublishedInv, SlotInv

LEMMA AnswerFetchCoverage ==
    ASSUME OwnedInv, AnswerInv, NEW s \in Slots, FetchCoverage(s)
    PROVE  AnswerInv'
<1> DEFINE req == request[s].frame
           history == [rows |-> reply[s].rows, coverage |-> World[version].oldCoverage]
           answer == Answer(req, World[reply[s].at], None, history, None)
<1>1. thread[s] = "fetching" /\ FetchingInv(s) /\ RequestInv(s) /\ WritingInv(s)
  BY DEF FetchCoverage, AnswerInv, SlotInv
<1>2. /\ UNCHANGED <<pubVars, request>>
      /\ thread'[s] = "writing"
      /\ reply'[s] = [at |-> reply[s].at, answer |-> answer]
  BY DEF FetchCoverage, OwnedInv, AnswerInv, PublishedInv
<1>3. RequestInv(s)' /\ FetchingInv(s)'
  BY <1>1, <1>2 DEF RequestInv, FetchingInv, pubVars
<1>4. DrawnInv(s)'
  BY <1>1, <1>2 DEF FetchingInv, DrawnInv, pubVars
<1>5. version \in DOMAIN World /\ version \in 1 .. version
  BY PipeConstants, LenProperties DEF AnswerInv, PublishedInv
<1>6. ASSUME answer.ok, answer.operation \in Windowed, answer.status = "observed"
      PROVE  IsWide(req) /\ World[version].oldCoverage = Complete
  <2>1. CASE World[reply[s].at] = None
    BY <1>6, <2>1 DEF Answer, Error, Response, Windowed
  <2>2. CASE World[reply[s].at] # None
    BY <1>1, <1>5, <1>6, <2>2, FetchedAnswerIsEarned DEF FetchingInv
  <2>3. QED
    BY <2>1, <2>2
<1>7. Earned(request[s].frame, reply[s].at, reply[s].answer)'
  BY <1>2, <1>5, <1>6 DEF Earned, pubVars
<1>8. WritingInv(s)'
  BY <1>2, <1>4, <1>7 DEF WritingInv
<1>9. QED
  BY <1>2, <1>3, <1>8, OtherSlots DEF FetchCoverage, OwnedInv, AnswerInv, PublishedInv, SlotInv

LEMMA AnswerServes ==
    ASSUME OwnedInv, AnswerInv, NEW s \in Slots, Serves(s)
    PROVE  AnswerInv'
<1>1. CASE ReadFails(s) \/ HandleRaises(s) \/ Write(s)
  BY <1>1, AnswerClosed DEF ReadFails, HandleRaises, Write
<1>2. QED
  BY <1>1, AnswerRead, AnswerHandle, AnswerFetchRows, AnswerFetchCoverage DEF Serves

\* The accept thread starts and stops; the answers are not its business.
LEMMA AnswerAccepts ==
    ASSUME OwnedInv, AnswerInv, Accepts
    PROVE  AnswerInv'
<1>1. UNCHANGED <<pubVars, request, reply>>
  BY DEF Accepts, Create, CreateFails, Retry, ConnectFails, Connected, AwaitStops, AcceptStops
<1>2. PublishedInv' /\ version \in Nat
  BY <1>1, PipeConstants, LenProperties DEF AnswerInv, PublishedInv, pubVars
<1>3. ASSUME NEW s \in Slots PROVE SlotInv(s)'
  <2>1. thread'[s] = thread[s] \/ thread'[s] = "reading"
    BY DEF Accepts, Create, CreateFails, Retry, ConnectFails, Connected, AwaitStops, AcceptStops, OwnedInv
  <2>2. CASE thread'[s] = "reading"
    BY <2>2, IdleSlot
  <2>3. CASE thread'[s] = thread[s]
    <3>1. version <= version' /\ (cache # None => cache' # None /\ cache <= cache')
      BY <1>1, <1>2, EvidenceConstants DEF pubVars, AnswerInv, PublishedInv
    <3>2. QED
      BY <1>1, <1>2, <2>3, <3>1, SlotIsKept DEF AnswerInv
  <2>4. QED
    BY <2>1, <2>2, <2>3
<1>4. QED
  BY <1>2, <1>3 DEF AnswerInv

LEMMA AnswerPublishes ==
    ASSUME AnswerInv, Publishes
    PROVE  AnswerInv'
<1>1. PublishedInv /\ version \in Nat /\ version \in 1 .. Len(World)
  BY PipeConstants, LenProperties DEF AnswerInv, PublishedInv
<1>2. /\ UNCHANGED <<thread, request, reply>>
      /\ version <= version'
      /\ cache # None => cache' # None /\ cache <= cache'
      /\ PublishedInv'
  <2> USE <1>1, EvidenceConstants, PipeConstants, LenProperties DEF PublishedInv, pipeVars
  <2>1. CASE Moves
    BY <2>1 DEF Moves
  <2>2. CASE FlushFile
    BY <2>2 DEF FlushFile
  <2>3. CASE FlushRaises
    BY <2>3 DEF FlushRaises
  <2>4. CASE FlushCache
    BY <2>4 DEF FlushCache
  <2>5. CASE Close
    BY <2>5 DEF Close
  <2>6. QED
    BY <2>1, <2>2, <2>3, <2>4, <2>5 DEF Publishes
<1>3. QED
  BY <1>1, <1>2, SlotIsKept DEF AnswerInv

LEMMA AnswerPipeNext ==
    ASSUME OwnedInv, AnswerInv, PipeNext
    PROVE  AnswerInv'
<1>1. ASSUME Gone PROVE AnswerInv'
  <2>1. \A s \in Slots : SlotInv(s)'
    BY <1>1, IdleSlot DEF Gone
  <2>2. QED
    BY <1>1, <2>1 DEF Gone, AnswerInv, PublishedInv
<1>2. QED
  BY <1>1, AnswerServes, AnswerAccepts, AnswerPublishes DEF PipeNext

\* The window and its settings touch nothing of the pipe.
LEMMA AskLeavesPipe == AskNext => UNCHANGED <<pubVars, pipeVars>>
BY DEF AskNext, Save, OpenWindow, CloseWindow, Ask, Poll, Works, CallTools, Dispatch, Answers,
       GuardFails, ProviderFails, OnlyTheQuestion

PipeInv == OwnedInv /\ AnswerInv

LEMMA PipeUnchanged ==
    ASSUME PipeInv, UNCHANGED <<pubVars, pipeVars>>
    PROVE  PipeInv'
<1>1. OwnedInv'
  BY DEF PipeInv, OwnedInv, Served, pipeVars
<1>2. PublishedInv'
  BY DEF PipeInv, AnswerInv, PublishedInv, pubVars, pipeVars
<1>3. ASSUME NEW s \in Slots PROVE SlotInv(s)'
  <2>1. version <= version' /\ (cache # None => cache' # None /\ cache <= cache')
    BY EvidenceConstants, PipeConstants, LenProperties DEF PipeInv, AnswerInv, PublishedInv, pubVars
  <2>2. QED
    BY <1>2, <2>1, SlotIsKept DEF PipeInv, AnswerInv, pipeVars
<1>4. QED
  BY <1>1, <1>2, <1>3 DEF PipeInv, AnswerInv

\* The inductive invariant of the pipe, which the Ask window cannot disturb.
THEOREM PipeIsSound == Spec => []PipeInv
<1>1. Init => PipeInv
  BY OwnedInit, AnswerInit DEF Init, PipeInv
<1>2. PipeInv /\ [Next]_deskVars => PipeInv'
  <2> SUFFICES ASSUME PipeInv, [Next]_deskVars PROVE PipeInv'
    OBVIOUS
  <2>1. CASE PipeNext
    BY <2>1, OwnedPipeNext, AnswerPipeNext DEF PipeInv
  <2>2. CASE AskNext
    BY <2>2, AskLeavesPipe, PipeUnchanged
  <2>3. CASE UNCHANGED deskVars
    BY <2>3, PipeUnchanged DEF deskVars
  <2>4. QED
    BY <2>1, <2>2, <2>3 DEF Next
<1>3. QED
  BY <1>1, <1>2, PTL DEF Spec

\* Every open pipe instance has exactly one owner, which closes it, whatever
\* fails and whenever the program stops: _serve_loop and _handle_connection.
THEOREM InstancesAreAlwaysOwned == Spec => []InstancesAreOwned
<1>1. PipeInv => InstancesAreOwned
  BY PipeConstants DEF PipeInv, OwnedInv, Served, InstancesAreOwned
<1>2. QED
  BY <1>1, PipeIsSound, PTL

\* An answer is drawn from a snapshot no older than the one published when its
\* request came in, and "not ready" is said only before the first.
THEOREM AnswersAreAlwaysCurrent == Spec => []AnswersAreCurrent
<1>1. PipeInv => AnswersAreCurrent
  <2> SUFFICES ASSUME PipeInv, NEW s \in Slots, Writing(s), request[s].frame # Malformed
               PROVE  IF reply[s].at = None THEN request[s].floor = None
                      ELSE /\ request[s].floor # None => reply[s].at >= request[s].floor
                           /\ reply[s].at <= version
    BY DEF AnswersAreCurrent
  <2>1. DrawnInv(s) /\ RequestInv(s) /\ PublishedInv
    BY DEF PipeInv, AnswerInv, SlotInv, WritingInv, Writing
  <2>2. QED
    BY <2>1, EvidenceConstants, PipeConstants, LenProperties
       DEF DrawnInv, RequestInv, PublishedInv, Writing
<1>2. QED
  BY <1>1, PipeIsSound, PTL

\* An answer over a window is marked as fully observed only if the whole of that
\* window was, though the snapshot's coverage is of the last day alone.
THEOREM CompletenessIsAlwaysEarned == Spec => []CompletenessIsEarned
<1>1. PipeInv => CompletenessIsEarned
  BY DEF PipeInv, AnswerInv, SlotInv, WritingInv, Earned, Windowed, Writing, CompletenessIsEarned
<1>2. QED
  BY <1>1, PipeIsSound, PTL

-----------------------------------------------------------------------------
\* THE ASK WINDOW

IsList(list) == Len(list) \in Nat /\ list = [i \in 1 .. Len(list) |-> list[i]]

LEMMA AppendToList ==
    ASSUME NEW list, IsList(list), NEW e
    PROVE  /\ IsList(Append(list, e))
           /\ Len(Append(list, e)) = Len(list) + 1
           /\ Append(list, e)[Len(list) + 1] = e
           /\ \A i \in 1 .. Len(list) : Append(list, e)[i] = list[i]
<1> DEFINE S == {list[i] : i \in 1 .. Len(list)} \cup {e}
<1>1. list \in [1 .. Len(list) -> S]
  BY DEF IsList
<1>2. list \in Seq(S)
  BY <1>1, SeqDef DEF IsList
<1>3. /\ Append(list, e) \in Seq(S)
      /\ Len(Append(list, e)) = Len(list) + 1
      /\ \A i \in 1 .. Len(list) : Append(list, e)[i] = list[i]
      /\ Append(list, e)[Len(list) + 1] = e
  BY <1>2, AppendProperties
<1>4. IsList(Append(list, e))
  BY <1>3, LenProperties DEF IsList
<1>5. QED
  BY <1>3, <1>4

IsQuestion(it) ==
    it = [window |-> it.window, provider |-> it.provider, polled |-> it.polled,
          todo |-> it.todo, evidence |-> it.evidence, response |-> it.response]

\* What writing to one field of a question leaves of the others.
LEMMA EditQuestion ==
    ASSUME NEW it, IsQuestion(it), NEW x
    PROVE  /\ [it EXCEPT !.todo = x] = [window |-> it.window, provider |-> it.provider,
                polled |-> it.polled, todo |-> x, evidence |-> it.evidence, response |-> it.response]
           /\ [it EXCEPT !.evidence = x] = [window |-> it.window, provider |-> it.provider,
                polled |-> it.polled, todo |-> it.todo, evidence |-> x, response |-> it.response]
           /\ [it EXCEPT !.response = x] = [window |-> it.window, provider |-> it.provider,
                polled |-> it.polled, todo |-> it.todo, evidence |-> it.evidence, response |-> x]
           /\ [it EXCEPT !.polled = x] = [window |-> it.window, provider |-> it.provider,
                polled |-> x, todo |-> it.todo, evidence |-> it.evidence, response |-> it.response]
<1>1. it \in [window : {it.window}, provider : {it.provider}, polled : {it.polled},
             todo : {it.todo}, evidence : {it.evidence}, response : {it.response}]
  BY DEF IsQuestion
<1>2. QED
  BY <1>1

LEMMA PolledQuestion ==
    ASSUME NEW it, IsQuestion(it), NEW x
    PROVE  LET new == [it EXCEPT !.polled = x]
           IN  IsQuestion(new) /\ new.window = it.window /\ new.polled = x
BY EditQuestion DEF IsQuestion

\* A question keeps the window it was asked in, and nothing but its poll and its
\* thread writes to it.
QuestionInv ==
    /\ IsList(question)
    /\ windows \in Nat
    /\ \A q \in DOMAIN question :
        /\ IsQuestion(question[q])
        /\ question[q].window \in 1 .. windows
        /\ question[q].polled \in BOOLEAN

\* Of the questions of a window, the last one alone may be open; the window shows
\* the answer to it as soon as it is not.
WindowInv ==
    LET last == Len(question) IN
    /\ inFlight \in BOOLEAN
    /\ window # None => window \in 1 .. windows
    /\ window = None => ~inFlight /\ shown = None
    /\ inFlight => last # 0 /\ question[last].window = window /\ question[last].polled
    /\ \A q \in DOMAIN question :
           question[q].window = window /\ question[q].polled => inFlight /\ q = last
    /\ shown # None =>
        /\ shown.question \in DOMAIN question
        /\ question[shown.question].window = window
        /\ question[last].window = window
        /\ ~inFlight => shown.question = last

AskInv == QuestionInv /\ WindowInv

LEMMA EmptyIsList == IsList(<<>>)
<1>1. Len(<<>>) = 0
  OBVIOUS
<1>2. <<>> = [i \in 1 .. 0 |-> <<>>[i]]
  OBVIOUS
<1>3. QED
  BY <1>1, <1>2 DEF IsList

LEMMA AskInvInit == AskInit => AskInv
<1>1. DOMAIN <<>> = {}
  OBVIOUS
<1>2. ASSUME AskInit PROVE QuestionInv
  BY <1>1, <1>2, EmptyIsList DEF AskInit, QuestionInv
<1>3. ASSUME AskInit PROVE WindowInv
  BY <1>1, <1>3 DEF AskInit, WindowInv
<1>4. QED
  BY <1>2, <1>3 DEF AskInv

\* The thread of a question writes to nothing but its response, its requests and
\* its evidence.
OwnFields(q) ==
    /\ UNCHANGED <<window, windows, inFlight, shown>>
    /\ question' = [question EXCEPT ![q] = question'[q]]
    /\ IsQuestion(question'[q])
    /\ question'[q].window = question[q].window
    /\ question'[q].polled = question[q].polled

LEMMA WorkTouchesOwnFields ==
    ASSUME QuestionInv, NEW q \in DOMAIN question, Works(q)
    PROVE  OwnFields(q)
<1> DEFINE it == question[q]
<1>1. IsQuestion(it) /\ question = [r \in DOMAIN question |-> question[r]]
  BY DEF QuestionInv, IsList
<1>2. UNCHANGED <<window, windows, inFlight, shown>>
  BY DEF Works, CallTools, Dispatch, Answers, GuardFails, ProviderFails, OnlyTheQuestion
<1>3. ASSUME NEW new, question' = [question EXCEPT ![q] = new], IsQuestion(new),
             new.window = it.window, new.polled = it.polled
      PROVE  OwnFields(q)
  BY <1>1, <1>2, <1>3 DEF OwnFields
<1>4. ASSUME NEW calls
      PROVE  LET new == [it EXCEPT !.todo = calls]
             IN  IsQuestion(new) /\ new.window = it.window /\ new.polled = it.polled
  BY <1>1, EditQuestion DEF IsQuestion
<1>5. ASSUME NEW calls, NEW kept
      PROVE  LET new == [[it EXCEPT !.todo = calls] EXCEPT !.evidence = kept]
             IN  IsQuestion(new) /\ new.window = it.window /\ new.polled = it.polled
  <2> DEFINE mid == [it EXCEPT !.todo = calls]
  <2>1. IsQuestion(mid) /\ mid.window = it.window /\ mid.polled = it.polled
    BY <1>4
  <2>2. LET new == [mid EXCEPT !.evidence = kept]
        IN  IsQuestion(new) /\ new.window = it.window /\ new.polled = it.polled
    <3> HIDE DEF mid
    <3>1. QED
      BY <2>1, EditQuestion DEF IsQuestion
  <2>3. QED
    BY <2>2
<1>6. CASE CallTools(q) /\ \E calls : question' = [question EXCEPT ![q].todo = calls]
  <2>1. PICK calls : question' = [question EXCEPT ![q] = [it EXCEPT !.todo = calls]]
    BY <1>6
  <2>2. QED
    BY <1>3, <1>4, <2>1
<1>7. CASE Dispatch(q)
  <2>1. PICK left, kept : question' = [question EXCEPT ![q].todo = left, ![q].evidence = kept]
    BY <1>7 DEF Dispatch
  <2> DEFINE mid == [it EXCEPT !.todo = left]
  <2>2. question' = [question EXCEPT ![q] = [mid EXCEPT !.evidence = kept]]
    BY <1>1, <2>1
  <2>3. QED
    BY <1>3, <1>5, <2>2
<1>8. ASSUME NEW response, Responded(q, response)
      PROVE  OwnFields(q)
  <2> DEFINE mid == [it EXCEPT !.response = response]
             new == [mid EXCEPT !.evidence = <<>>]
  <2>1. question' = [question EXCEPT ![q] = new]
    BY <1>1, <1>8 DEF Responded
  <2>2. IsQuestion(mid) /\ mid.window = it.window /\ mid.polled = it.polled
    BY <1>1, EditQuestion DEF IsQuestion
  <2> HIDE DEF mid
  <2>3. IsQuestion(new) /\ new.window = it.window /\ new.polled = it.polled
    BY <2>2, EditQuestion DEF IsQuestion
  <2>4. QED
    BY <1>3, <2>1, <2>3
<1>9. CASE \E response : Responded(q, response)
  BY <1>8, <1>9
<1>10. QED
  BY <1>6, <1>7, <1>9 DEF Works, CallTools, Answers, GuardFails, ProviderFails

LEMMA AskWorks ==
    ASSUME AskInv, NEW q \in DOMAIN question, OwnFields(q)
    PROVE  AskInv'
<1>1. /\ DOMAIN question' = DOMAIN question /\ Len(question') = Len(question)
      /\ IsList(question')
      /\ \A r \in DOMAIN question : /\ IsQuestion(question'[r])
                                    /\ question'[r].window = question[r].window
                                    /\ question'[r].polled = question[r].polled
  <2>1. Len(question) \in Nat /\ question = [i \in 1 .. Len(question) |-> question[i]]
    BY DEF AskInv, QuestionInv, IsList
  <2>2. question' = [i \in 1 .. Len(question) |-> question'[i]]
    BY <2>1 DEF OwnFields
  <2>3. Len(question') = Len(question)
    <3>1. question' \in [1 .. Len(question) -> {question'[i] : i \in 1 .. Len(question)}]
      BY <2>2
    <3>2. question' \in Seq({question'[i] : i \in 1 .. Len(question)})
      BY <2>1, <3>1, SeqDef
    <3>3. QED
      BY <2>1, <2>2, <3>2, LenProperties
  <2>4. ASSUME NEW r \in DOMAIN question
        PROVE  /\ IsQuestion(question'[r])
               /\ question'[r].window = question[r].window
               /\ question'[r].polled = question[r].polled
    BY <2>1 DEF OwnFields, AskInv, QuestionInv
  <2>5. QED
    BY <2>1, <2>2, <2>3, <2>4 DEF IsList
<1>2. UNCHANGED <<window, windows, inFlight, shown>>
  BY DEF OwnFields
<1>3. QuestionInv'
  BY <1>1, <1>2 DEF AskInv, QuestionInv
<1>4. Len(question) # 0 => Len(question) \in DOMAIN question
  BY DEF AskInv, QuestionInv, IsList
<1>5. WindowInv'
  BY <1>1, <1>2, <1>4 DEF AskInv, WindowInv, QuestionInv, IsList
<1>6. QED
  BY <1>3, <1>5 DEF AskInv

LEMMA AskAsks ==
    ASSUME AskInv, Ask
    PROVE  AskInv'
<1> DEFINE n == Len(question)
<1>1. /\ IsList(question') /\ Len(question') = n + 1 /\ n \in Nat
      /\ DOMAIN question = 1 .. n /\ DOMAIN question' = 1 .. (n + 1)
      /\ question'[n + 1] = NewQuestion
      /\ \A i \in 1 .. n : question'[i] = question[i]
  <2>1. IsList(question)
    BY DEF AskInv, QuestionInv
  <2>2. IsList(question') /\ Len(question') = n + 1
        /\ question'[n + 1] = NewQuestion
        /\ \A i \in 1 .. n : question'[i] = question[i]
    BY <2>1, AppendToList DEF Ask
  <2>3. QED
    BY <2>1, <2>2 DEF IsList
<1>2. /\ inFlight' /\ inFlight' \in BOOLEAN /\ ~inFlight
      /\ window # None /\ UNCHANGED <<window, windows, shown>>
  BY DEF Ask
<1>3. /\ IsQuestion(NewQuestion) /\ NewQuestion.window = window /\ NewQuestion.polled = TRUE
      /\ window \in 1 .. windows
  BY <1>2 DEF NewQuestion, IsQuestion, AskInv, WindowInv
<1>4. QuestionInv'
  <2>1. ASSUME NEW i \in 1 .. n + 1
        PROVE  /\ IsQuestion(question'[i])
               /\ question'[i].window \in 1 .. windows
               /\ question'[i].polled \in BOOLEAN
    <3>1. CASE i = n + 1
      BY <1>1, <1>3, <3>1
    <3>2. CASE i # n + 1
      <4>1. i \in 1 .. n
        BY <1>1, <3>2
      <4>2. QED
        BY <1>1, <4>1 DEF AskInv, QuestionInv
    <3>3. QED
      BY <3>1, <3>2
  <2>2. QED
    BY <1>1, <1>2, <2>1 DEF AskInv, QuestionInv
<1>5. WindowInv'
  <2>1. \A r \in DOMAIN question : ~(question[r].window = window /\ question[r].polled)
    BY <1>2 DEF AskInv, WindowInv
  <2>2. \A r \in DOMAIN question' :
           question'[r].window = window' /\ question'[r].polled => r = n + 1
    BY <1>1, <1>2, <2>1
  <2>3. shown' # None => /\ shown'.question \in DOMAIN question'
                         /\ question'[shown'.question].window = window'
    BY <1>1, <1>2 DEF AskInv, WindowInv
  <2>4. question'[n + 1].window = window' /\ question'[n + 1].polled
    BY <1>1, <1>2, <1>3
  <2>5. QED
    BY <1>1, <1>2, <1>3, <2>2, <2>3, <2>4 DEF WindowInv
<1>6. QED
  BY <1>4, <1>5 DEF AskInv

LEMMA AskPolls ==
    ASSUME AskInv, NEW q \in DOMAIN question, Poll(q)
    PROVE  AskInv'
<1> DEFINE n == Len(question)
           it == question[q]
<1>1. /\ IsList(question) /\ IsQuestion(it) /\ n \in Nat /\ DOMAIN question = 1 .. n
      /\ UNCHANGED <<window, windows>>
      /\ it.polled
  BY DEF AskInv, QuestionInv, IsList, Poll
<1>2. /\ question' = [question EXCEPT ![q] = question'[q]]
      /\ IsQuestion(question'[q]) /\ question'[q].window = it.window /\ question'[q].polled = FALSE
  <2>1. CASE it.window # window
    <3>1. question' = [question EXCEPT ![q] = [it EXCEPT !.polled = FALSE]]
      BY <2>1 DEF Poll
    <3>2. QED
      BY <1>1, <3>1, PolledQuestion DEF IsList
  <2>2. CASE it.window = window
    <3> DEFINE mid == [it EXCEPT !.polled = FALSE]
               new == [mid EXCEPT !.response = Taken]
    <3>1. question' = [question EXCEPT ![q] = new]
      <4>1. question' = [question EXCEPT ![q].polled = FALSE, ![q].response = Taken]
        BY <2>2 DEF Poll
      <4>2. question = [r \in DOMAIN question |-> question[r]]
        BY <1>1 DEF IsList
      <4>3. QED
        BY <4>1, <4>2
    <3>2. IsQuestion(mid) /\ mid.window = it.window /\ mid.polled = FALSE
      BY <1>1, PolledQuestion
    <3>3. IsQuestion(new) /\ new.window = it.window /\ new.polled = FALSE
      <4> HIDE DEF mid
      <4>1. QED
        BY <3>2, EditQuestion DEF IsQuestion
    <3>4. QED
      BY <1>1, <3>1, <3>3 DEF IsList
  <2>3. QED
    BY <2>1, <2>2
<1>3. IsList(question') /\ Len(question') = n /\ DOMAIN question' = 1 .. n
  <2>1. question' = [i \in 1 .. n |-> question'[i]]
    BY <1>1, <1>2 DEF IsList
  <2>2. question' \in [1 .. n -> {question'[i] : i \in 1 .. n}]
    BY <2>1
  <2>3. question' \in Seq({question'[i] : i \in 1 .. n})
    BY <1>1, <2>2, SeqDef
  <2>4. QED
    BY <1>1, <2>1, <2>3, LenProperties DEF IsList
<1>4. \A r \in 1 .. n : r # q => question'[r] = question[r]
  BY <1>1, <1>2 DEF IsList
<1>5. QuestionInv'
  BY <1>1, <1>2, <1>3, <1>4 DEF AskInv, QuestionInv
<1>6. CASE it.window # window
  <2>1. UNCHANGED <<inFlight, shown>>
    BY <1>6 DEF Poll
  <2>2. n # 0 => n \in 1 .. n
    BY <1>1
  <2>3. WindowInv'
    BY <1>1, <1>2, <1>3, <1>4, <1>6, <2>1, <2>2 DEF AskInv, WindowInv
  <2>4. QED
    BY <1>5, <2>3 DEF AskInv
<1>7. CASE it.window = window
  <2>1. inFlight' = FALSE /\ shown' = [question |-> q, response |-> it.response]
    BY <1>7 DEF Poll
  <2>2. inFlight /\ q = n
    BY <1>1, <1>7 DEF AskInv, WindowInv
  <2>3. window # None
    BY <2>2 DEF AskInv, WindowInv
  <2>4. WindowInv'
    BY <1>1, <1>2, <1>3, <1>4, <1>7, <2>1, <2>2, <2>3, ZenonT(40) DEF AskInv, WindowInv
  <2>5. QED
    BY <1>5, <2>4 DEF AskInv
<1>8. QED
  BY <1>6, <1>7

LEMMA AskUnchanged ==
    ASSUME AskInv, UNCHANGED <<windows, window, inFlight, question, shown>>
    PROVE  AskInv'
BY DEF AskInv, QuestionInv, WindowInv

LEMMA AskInvNext ==
    ASSUME AskInv, AskNext
    PROVE  AskInv'
<1>1. CASE \E provider \in Providers : Save(provider)
  BY <1>1, AskUnchanged DEF Save
<1>2. CASE OpenWindow
  <2>1. /\ windows \in Nat /\ windows' = windows + 1 /\ window' = windows + 1
        /\ inFlight' = FALSE /\ shown' = None /\ UNCHANGED question
    BY <1>2 DEF OpenWindow, AskInv, QuestionInv
  <2>2. \A q \in DOMAIN question : question[q].window \in 1 .. windows
    BY DEF AskInv, QuestionInv
  <2>3. QuestionInv'
    BY <2>1, <2>2 DEF AskInv, QuestionInv
  <2>4. window' \in 1 .. windows' /\ \A q \in DOMAIN question : question[q].window # window'
    BY <2>1, <2>2
  <2>5. WindowInv'
    BY <2>1, <2>4 DEF WindowInv
  <2>6. QED
    BY <2>3, <2>5 DEF AskInv
<1>3. CASE CloseWindow
  <2>1. /\ windows' = windows /\ window' = None
        /\ inFlight' = FALSE /\ shown' = None /\ UNCHANGED question
    BY <1>3 DEF CloseWindow
  <2>2. \A q \in DOMAIN question : question[q].window # None
    BY EvidenceConstants DEF AskInv, QuestionInv
  <2>3. QuestionInv'
    BY <2>1 DEF AskInv, QuestionInv
  <2>4. WindowInv'
    BY <2>1, <2>2 DEF WindowInv
  <2>5. QED
    BY <2>3, <2>4 DEF AskInv
<1>4. CASE Ask
  BY <1>4, AskAsks
<1>5. ASSUME NEW q \in DOMAIN question, Poll(q) \/ Works(q) PROVE AskInv'
  BY <1>5, AskPolls, AskWorks, WorkTouchesOwnFields DEF AskInv
<1>6. QED
  BY <1>1, <1>2, <1>3, <1>4, <1>5 DEF AskNext

\* The inductive invariant of the Ask window, which the pipe cannot disturb.
THEOREM WindowIsSound == Spec => []AskInv
<1>1. Init => AskInv
  BY AskInvInit DEF Init
<1>2. AskInv /\ [Next]_deskVars => AskInv'
  <2> SUFFICES ASSUME AskInv, [Next]_deskVars PROVE AskInv'
    OBVIOUS
  <2>1. CASE UNCHANGED askVars
    BY <2>1, AskUnchanged DEF askVars
  <2>2. CASE AskNext
    BY <2>2, AskInvNext
  <2>3. QED
    BY <2>1, <2>2 DEF Next, deskVars
<1>3. QED
  BY <1>1, <1>2, PTL DEF Spec

\* _ai_ask refuses a second question while one is open, and _poll_ai_answer shows
\* an answer only in the window it was asked in: one question of a window is open at
\* most, and the window shows the answer to the last.
THEOREM OneQuestionAtAnyTime == Spec => []OneQuestionAtATime
<1>1. AskInv => OneQuestionAtATime
  <2> SUFFICES ASSUME AskInv, window # None PROVE OneQuestionAtATime
    BY DEF OneQuestionAtATime
  <2> DEFINE own == {q \in DOMAIN question : question[q].window = window}
             waiting == {q \in own : question[q].polled}
             last == Len(question)
  <2>1. last \in Nat /\ DOMAIN question = 1 .. last
    BY DEF AskInv, QuestionInv, IsList
  <2>2. Cardinality(waiting) = IF inFlight THEN 1 ELSE 0
    <3>1. CASE inFlight
      <4>1. waiting = {last}
        BY <2>1, <3>1 DEF AskInv, WindowInv
      <4>2. Cardinality({last}) = 1
        BY FS_Singleton
      <4>3. QED
        BY <3>1, <4>1, <4>2
    <3>2. CASE ~inFlight
      <4>1. waiting = {}
        BY <3>2 DEF AskInv, WindowInv
      <4>2. QED
        BY <3>2, <4>1, FS_EmptySet
    <3>3. QED
      BY <3>1, <3>2
  <2>3. shown # None => shown.question \in own
    BY DEF AskInv, WindowInv
  <2>4. ASSUME shown # None, ~inFlight PROVE shown.question = Max(own)
    <3>1. shown.question = last /\ last \in own /\ own \subseteq 1 .. last
      BY <2>1, <2>4 DEF AskInv, WindowInv
    <3>2. QED
      BY <2>1, <3>1, GreatestIsMax
  <2>5. QED
    BY <2>2, <2>3, <2>4 DEF OneQuestionAtATime
<1>2. QED
  BY <1>1, WindowIsSound, PTL

-----------------------------------------------------------------------------
\* THE GROUNDING GUARD

\* What the guard may rely on in an answered item of evidence.
ItemInv(item) ==
    item.ok =>
        /\ item.operation = "get_top_network_processes" => DOMAIN item.data \subseteq Nat
        /\ item.operation = "get_coverage" => item.data \in {None} \cup 0 .. Complete

EvidenceInv(evidence) == IsList(evidence) /\ \A i \in DOMAIN evidence : ItemInv(evidence[i])

LEMMA BusiestIsList ==
    ASSUME NEW v \in DOMAIN World, NEW n \in Nat
    PROVE  DOMAIN FirstOf(Busiest(World[v].top), n) \subseteq Nat
<1> DEFINE rows == Busiest(World[v].top)
           S == {rows[k] : k \in DOMAIN rows}
           last == IF n < Len(rows) THEN n ELSE Len(rows)
<1>1. World[v].top \in Seq(Range(World[v].top))
  BY PipeConstants
<1>2. DOMAIN World[v].top = 1 .. Len(World[v].top) /\ Len(World[v].top) \in Nat
  BY <1>1, LenProperties
<1>3. rows = [k \in 1 .. Len(World[v].top) |-> rows[k]]
  BY <1>2 DEF Busiest
<1> HIDE DEF rows
<1>4. rows \in [1 .. Len(World[v].top) -> S]
  BY <1>3
<1>5. rows \in Seq(S)
  BY <1>2, <1>4, SeqDef
<1>6. 1 \in 1 .. Len(rows) + 1 /\ last \in (1 - 1) .. Len(rows)
  BY <1>5, LenProperties
<1>7. SubSeq(rows, 1, last) \in Seq(S)
  BY <1>5, <1>6, SubSeqProperties
<1>8. DOMAIN SubSeq(rows, 1, last) \subseteq Nat
  BY <1>7, LenProperties
<1>9. QED
  BY <1>8 DEF FirstOf, rows

LEMMA LimitIsNat ==
    ASSUME NEW query, Refusal(query) = None
    PROVE  Parameter(query, "limit", DefaultTop) \in Nat
<1>1. \A n \in DOMAIN query.parameters \cap DOMAIN Bounds : query.parameters[n] \in Bounds[n]
  BY EvidenceConstants DEF Refusal
<1>2. "limit" \in DOMAIN Bounds /\ Bounds["limit"] = 1 .. MaxLimit
  BY DEF Bounds
<1>3. QED
  BY <1>1, <1>2, EvidenceConstants DEF Parameter

\* EvidenceBroker.dispatch: whatever is asked of whatever snapshot, the item is in order.
LEMMA DispatchedItem ==
    ASSUME NEW query, NEW at \in {None} \cup DOMAIN World
    PROVE  LET snapshot == IF at = None THEN None ELSE World[at]
           IN  ItemInv(Answer(query, snapshot, "evidence_unavailable", None, None))
<1> DEFINE snapshot == IF at = None THEN None ELSE World[at]
           item == Answer(query, snapshot, "evidence_unavailable", None, None)
<1> SUFFICES ASSUME item.ok,
                    item.operation \in {"get_top_network_processes", "get_coverage"}
             PROVE  /\ item.operation = "get_top_network_processes" => DOMAIN item.data \subseteq Nat
                    /\ item.operation = "get_coverage" => item.data \in {None} \cup 0 .. Complete
  BY DEF ItemInv
<1>1. /\ Refusal(query) = None /\ query.operation # "describe_operations" /\ snapshot # None
  BY DEF Answer, Error, Response
<1>2. item = FromSnapshot(query, snapshot, None, None)
  BY <1>1 DEF Answer
<1>3. at \in DOMAIN World /\ snapshot = World[at]
  BY <1>1
<1>4. CASE query.operation = "get_top_network_processes"
  <2> DEFINE rows == FirstOf(Busiest(snapshot.top), Parameter(query, "limit", DefaultTop))
  <2>1. item.operation = "get_top_network_processes" /\ item.data = rows
    BY <1>2, <1>4 DEF FromSnapshot, Response
  <2>2. DOMAIN rows \subseteq Nat
    BY <1>1, <1>3, LimitIsNat, BusiestIsList
  <2>3. QED
    BY <2>1, <2>2
<1>5. CASE query.operation \in {"get_system_status", "get_current_sensors", "get_network_status",
                                  "get_recent_incidents", "get_recent_sessions", "get_experiments"}
  BY <1>2, <1>5 DEF FromSnapshot, Response, RecentRecords, Experiments, Error
<1>6. CASE query.operation \notin {"get_system_status", "get_current_sensors", "get_network_status",
                                     "get_recent_incidents", "get_recent_sessions", "get_experiments",
                                     "get_top_network_processes"}
  <2>1. item = Response(query.operation, snapshot.coverage, CoverageStatus(snapshot.coverage))
    BY <1>2, <1>6 DEF FromSnapshot
  <2>2. item.data \in {None} \cup 0 .. Complete /\ item.operation = "get_coverage"
    <3>1. item.operation = query.operation /\ item.data = snapshot.coverage
      BY <2>1 DEF Response
    <3>2. QED
      BY <1>3, <1>6, <3>1, PipeConstants
  <2>3. QED
    BY <2>2
<1>7. QED
  BY <1>4, <1>5, <1>6

\* The guard reads an item that was answered.
LEMMA FirstItem ==
    ASSUME NEW evidence, IsList(evidence), NEW op, Has(evidence, op)
    PROVE  \E i \in ItemsOf(evidence, op) : evidence[i].data = DataOf(evidence, op)
<1>1. ItemsOf(evidence, op) \in SUBSET Nat /\ ItemsOf(evidence, op) # {}
  BY DEF ItemsOf, Has, IsList
<1>2. Min(ItemsOf(evidence, op)) \in ItemsOf(evidence, op)
  BY <1>1, MinIsIn
<1>3. QED
  BY <1>2 DEF DataOf

LEMMA GroupReports ==
    ASSUME NEW field \in SensorFields \cup NetworkFields \cup CoverageFields,
           NEW f \in Group(field)
    PROVE  /\ Reports(f) = Reports(field)
           /\ f \in CoverageFields <=> field \in CoverageFields
<1> DEFINE groups == {SensorFields, NetworkFields, CoverageFields}
<1>1. PICK g \in groups : field \in g /\ Group(field) = g
  BY DEF Group
<1>2. QED
  BY <1>1 DEF Reports, SensorFields, NetworkFields, CoverageFields

\* What is said of a claim and its finding: if it is left, nothing speaks against it; if it is
\* called supported, it is what the evidence says.
Holds(finding, evidence) ==
    /\ finding.claim # Redacted => Grounded(finding.claim, evidence)
    /\ finding.verdict = "supported" => Backed(finding.claim, evidence)

LEMMA FindingHolds ==
    ASSUME NEW verdict, NEW claim, NEW evidence,
           claim # Redacted => Grounded(claim, evidence),
           verdict = "supported" => Backed(claim, evidence)
    PROVE  Holds(Finding(verdict, claim), evidence)
BY DEF Holds, Finding

\* A claim that is withdrawn is not called supported.
LEMMA WithdrawnHolds == ASSUME NEW evidence PROVE Holds(Finding("contradicted", Redacted), evidence)
BY DEF Holds, Finding

\* A value that fits the field of its name is what the evidence says.
LEMMA FieldBacks ==
    ASSUME NEW evidence, NEW claim, claim.kind = "scalar", Has(evidence, Reports(claim.field)),
           Near(Recorded(evidence, claim.field), claim.value, Tolerance(claim.field))
    PROVE  Backed(claim, evidence) /\ Grounded(claim, evidence)
BY DEF Backed, Grounded

\* A sibling takes a value over only if it is the one of its name.
LEMMA ScalarHolds ==
    ASSUME NEW claim, NEW evidence, claim.kind = "scalar",
           claim.field \in SensorFields \cup NetworkFields \cup CoverageFields,
           claim = [kind |-> "scalar", field |-> claim.field, value |-> claim.value]
    PROVE  Holds(ScalarFinding(claim, evidence), evidence)
<1> DEFINE op == Reports(claim.field)
           actual == Recorded(evidence, claim.field)
           fits == Near(actual, claim.value, Tolerance(claim.field))
           siblings == {f \in Group(claim.field) \ {claim.field} :
                          Near(Recorded(evidence, f), claim.value, Tolerance(f))}
           other == CHOOSE f \in siblings : TRUE
           renamed == [claim EXCEPT !.field = other]
<1>1. CASE ~Has(evidence, op)
  <2>1. ScalarFinding(claim, evidence) = Finding("unsupported", claim)
    BY <1>1 DEF ScalarFinding
  <2>2. Grounded(claim, evidence)
    BY <1>1 DEF Grounded
  <2>3. QED
    BY <2>1, <2>2, FindingHolds
<1>2. CASE Has(evidence, op) /\ fits
  <2>1. ScalarFinding(claim, evidence) = Finding("supported", claim)
    BY <1>2 DEF ScalarFinding, Near
  <2>2. QED
    BY <1>2, <2>1, FieldBacks, FindingHolds
<1>3. CASE Has(evidence, op) /\ ~fits
  <2>1. \/ ScalarFinding(claim, evidence) = Finding("contradicted", Redacted)
        \/ /\ Cardinality(siblings) = 1
           /\ ScalarFinding(claim, evidence) = Finding("contradicted", renamed)
    BY <1>3 DEF ScalarFinding
  <2>2. CASE ScalarFinding(claim, evidence) = Finding("contradicted", Redacted)
    BY <2>2, WithdrawnHolds
  <2>3. CASE /\ Cardinality(siblings) = 1
             /\ ScalarFinding(claim, evidence) = Finding("contradicted", renamed)
    <3>1. other \in siblings
      BY <2>3, FS_EmptySet
    <3>2. /\ other \in Group(claim.field)
          /\ Near(Recorded(evidence, other), claim.value, Tolerance(other))
      BY <3>1
    <3>3. Reports(other) = op
      BY <3>2, GroupReports
    <3> HIDE DEF other, op, fits, siblings
    <3>4. renamed = [kind |-> "scalar", field |-> other, value |-> claim.value]
      OBVIOUS
    <3> HIDE DEF renamed
    <3>5. renamed.kind = "scalar" /\ renamed.field = other /\ renamed.value = claim.value
      BY <3>4
    <3>6. Grounded(renamed, evidence)
      BY <1>3, <3>2, <3>3, <3>5, FieldBacks
    <3>7. QED
      BY <2>3, <3>6, FindingHolds
  <2>4. QED
    BY <2>1, <2>2, <2>3
<1>4. QED
  BY <1>1, <1>2, <1>3

\* The first list of processes, as the guard reads it.
LEMMA FirstRows ==
    ASSUME NEW evidence, EvidenceInv(evidence), Has(evidence, "get_top_network_processes")
    PROVE  DOMAIN DataOf(evidence, "get_top_network_processes") \subseteq Nat
<1>1. PICK i \in ItemsOf(evidence, "get_top_network_processes") :
          evidence[i].data = DataOf(evidence, "get_top_network_processes")
  BY FirstItem DEF EvidenceInv
<1>2. evidence[i].ok /\ evidence[i].operation = "get_top_network_processes" /\ ItemInv(evidence[i])
  BY <1>1 DEF EvidenceInv, ItemsOf
<1>3. QED
  BY <1>1, <1>2 DEF ItemInv

\* A rate that fits a row of the list is what the evidence says.
LEMMA RowBacks ==
    ASSUME NEW evidence, Has(evidence, "get_top_network_processes"),
           NEW claim, claim.kind = "process",
           NEW k \in DOMAIN DataOf(evidence, "get_top_network_processes"),
           DataOf(evidence, "get_top_network_processes")[k].name = claim.entity,
           Near(DataOf(evidence, "get_top_network_processes")[k][claim.direction],
                claim.value, Tolerance(claim.direction))
    PROVE  Backed(claim, evidence) /\ Grounded(claim, evidence)
BY DEF Backed, Grounded

\* Nor does a row take a claim over that says something else.
LEMMA ProcessHolds ==
    ASSUME NEW claim, NEW evidence, EvidenceInv(evidence), claim.kind = "process",
           claim.direction \in {"down", "up"},
           claim = [kind |-> "process", entity |-> claim.entity,
                    direction |-> claim.direction, value |-> claim.value]
    PROVE  Holds(ProcessFinding(claim, evidence), evidence)
<1> DEFINE busy == "get_top_network_processes"
           rows == DataOf(evidence, busy)
           own  == {i \in DOMAIN rows : rows[i].name = claim.entity}
           me   == Min(own)
           fits(i, direction) == Near(rows[i][direction], claim.value, Tolerance(direction))
           others == {i \in DOMAIN rows \ (IF own = {} THEN {} ELSE {me}) : fits(i, claim.direction)}
           heir   == Min(others)
           handed == [claim EXCEPT !.entity = rows[heir].name]
           turned == [claim EXCEPT !.direction = Opposite(@)]
           result == ProcessFinding(claim, evidence)
<1>1. CASE ~Has(evidence, busy)
  <2>1. result = Finding("unsupported", claim)
    BY <1>1 DEF ProcessFinding
  <2>2. Grounded(claim, evidence)
    BY <1>1 DEF Grounded
  <2>3. QED
    BY <2>1, <2>2, FindingHolds
<1>2. CASE Has(evidence, busy)
  <2>1. own \in SUBSET Nat /\ others \in SUBSET Nat
    BY <1>2, FirstRows
  <2>2. \/ own = {} /\ result \in {Finding("unsupported", claim), Finding("unverifiable", claim)}
        \/ own # {} /\ fits(me, claim.direction) /\ result = Finding("supported", claim)
        \/ own # {} /\ fits(me, Opposite(claim.direction)) /\ result = Finding("contradicted", turned)
        \/ others # {} /\ result = Finding("contradicted", handed)
        \/ result = Finding("contradicted", Redacted)
    <3>1. Cardinality(others) = 1 => others # {}
      BY FS_EmptySet
    <3> HIDE DEF others
    <3>2. QED
      BY <1>2, <3>1 DEF ProcessFinding, others
  <2>3. CASE own = {} /\ result \in {Finding("unsupported", claim), Finding("unverifiable", claim)}
    <3>1. Grounded(claim, evidence)
      BY <2>3 DEF Grounded
    <3>2. QED
      BY <2>3, <3>1, FindingHolds
  <2>4. CASE own # {} /\ fits(me, claim.direction) /\ result = Finding("supported", claim)
    <3>1. me \in own
      BY <2>1, <2>4, MinIsIn
    <3>2. Backed(claim, evidence) /\ Grounded(claim, evidence)
      BY <1>2, <2>4, <3>1, RowBacks
    <3>3. QED
      BY <2>4, <3>2, FindingHolds
  <2>5. CASE /\ own # {} /\ fits(me, Opposite(claim.direction))
             /\ result = Finding("contradicted", turned)
    <3>1. me \in own
      BY <2>1, <2>5, MinIsIn
    <3>2. /\ turned.kind = "process" /\ turned.entity = claim.entity /\ turned.value = claim.value
          /\ turned.direction = Opposite(claim.direction)
      OBVIOUS
    <3>3. me \in DOMAIN rows /\ rows[me].name = claim.entity
      BY <3>1
    <3>4. Near(rows[me][turned.direction], turned.value, Tolerance(turned.direction))
      BY <2>5, <3>2
    <3>5. Grounded(turned, evidence)
      <4> HIDE DEF turned, own, me
      <4>1. QED
        BY <1>2, <3>2, <3>3, <3>4, RowBacks
    <3>6. QED
      <4> HIDE DEF turned, result
      <4>1. QED
        BY <2>5, <3>5, FindingHolds DEF result
  <2>6. CASE others # {} /\ result = Finding("contradicted", handed)
    <3>1. heir \in others
      BY <2>1, <2>6, MinIsIn
    <3>2. heir \in DOMAIN rows /\ fits(heir, claim.direction)
      BY <3>1
    <3>3. /\ handed.kind = "process" /\ handed.entity = rows[heir].name
          /\ handed.value = claim.value /\ handed.direction = claim.direction
      OBVIOUS
    <3>4. Near(rows[heir][handed.direction], handed.value, Tolerance(handed.direction))
      BY <3>2, <3>3
    <3>5. Grounded(handed, evidence)
      <4> HIDE DEF handed, own, me, heir, others
      <4>1. QED
        BY <1>2, <3>2, <3>3, <3>4, RowBacks
    <3>6. QED
      <4> HIDE DEF handed, result
      <4>1. QED
        BY <2>6, <3>5, FindingHolds DEF result
  <2>7. CASE result = Finding("contradicted", Redacted)
    BY <2>7, WithdrawnHolds
  <2>8. QED
    BY <2>2, <2>3, <2>4, <2>5, <2>6, <2>7
<1>3. QED
  BY <1>1, <1>2

\* "In a safe range" is left beside a severe incident only where no reading is, and is called
\* supported only without one.
LEMMA SafeHolds ==
    ASSUME NEW claim, NEW evidence, claim.kind = "safe"
    PROVE  Holds(SafeFinding(claim, evidence), evidence)
<1> DEFINE reading == HasReading(claim.component, evidence)
           severe == HasSevereIncident(claim.component, evidence)
<1>1. CASE ~reading
  <2>1. Grounded(claim, evidence)
    BY <1>1 DEF Grounded
  <2>2. QED
    BY <1>1, <2>1, FindingHolds DEF SafeFinding
<1>2. CASE reading /\ severe
  BY <1>2, WithdrawnHolds DEF SafeFinding
<1>3. CASE reading /\ ~severe
  <2>1. Grounded(claim, evidence) /\ Backed(claim, evidence)
    BY <1>3 DEF Grounded, Backed
  <2>2. QED
    BY <1>3, <2>1, FindingHolds DEF SafeFinding
<1>4. QED
  BY <1>1, <1>2, <1>3

LEMMA DefiniteHolds ==
    ASSUME NEW claim, NEW evidence, EvidenceInv(evidence), claim.kind = "definite"
    PROVE  Holds(DefiniteFinding(claim, evidence), evidence)
<1> DEFINE op == "get_coverage"
           gap == DataOf(evidence, op) # None /\ DataOf(evidence, op) < Complete
<1>1. CASE Has(evidence, op) /\ gap
  BY <1>1, WithdrawnHolds DEF DefiniteFinding
<1>2. CASE ~(Has(evidence, op) /\ gap)
  <2>1. ASSUME Has(evidence, op) PROVE DataOf(evidence, op) \in {None, Complete}
    <3>1. PICK i \in ItemsOf(evidence, op) : evidence[i].data = DataOf(evidence, op)
      BY <2>1, FirstItem DEF EvidenceInv
    <3>2. DataOf(evidence, op) \in {None} \cup 0 .. Complete
      BY <3>1 DEF EvidenceInv, ItemInv, ItemsOf
    <3>3. Complete \in Nat
      BY DEF Complete
    <3>4. QED
      BY <1>2, <2>1, <3>2, <3>3
  <2>2. Grounded(claim, evidence)
    BY <2>1 DEF Grounded
  <2>3. DefiniteFinding(claim, evidence) = Finding("unsupported", claim)
    BY <1>2 DEF DefiniteFinding
  <2>4. QED
    BY <2>2, <2>3, FindingHolds
<1>3. QED
  BY <1>1, <1>2

\* Whatever is claimed, and whatever was retrieved, what is left of it holds.
LEMMA EveryFindingHolds ==
    ASSUME NEW claim \in Claims, NEW evidence, EvidenceInv(evidence)
    PROVE  Holds(FindingOn(claim, evidence), evidence)
<1>2. CASE claim.kind = "scalar"
  <2>1. FindingOn(claim, evidence) = ScalarFinding(claim, evidence)
    BY <1>2 DEF FindingOn
  <2>2. /\ claim.field \in SensorFields \cup NetworkFields \cup CoverageFields
        /\ claim = [kind |-> "scalar", field |-> claim.field, value |-> claim.value]
    BY <1>2, ClaimsAssumption
  <2>3. QED
    BY <1>2, <2>1, <2>2, ScalarHolds
<1>3. CASE claim.kind = "process"
  <2>1. FindingOn(claim, evidence) = ProcessFinding(claim, evidence)
    BY <1>3 DEF FindingOn
  <2>2. /\ claim.direction \in {"down", "up"}
        /\ claim = [kind |-> "process", entity |-> claim.entity,
                    direction |-> claim.direction, value |-> claim.value]
    BY <1>3, ClaimsAssumption
  <2>3. QED
    BY <1>3, <2>1, <2>2, ProcessHolds
<1>4. CASE claim.kind = "safe"
  BY <1>4, SafeHolds DEF FindingOn
<1>5. CASE claim.kind = "definite"
  BY <1>5, DefiniteHolds DEF FindingOn
<1>6. CASE claim.kind = "citation"
  <2>1. CASE claim.id \in KnownIds(evidence)
    <3>1. Grounded(claim, evidence) /\ Backed(claim, evidence)
      BY <1>6, <2>1 DEF Grounded, Backed
    <3>2. FindingOn(claim, evidence) = Finding("supported", claim)
      BY <1>6, <2>1 DEF FindingOn, CitationFinding
    <3>3. QED
      BY <3>1, <3>2, FindingHolds
  <2>2. CASE claim.id \notin KnownIds(evidence)
    BY <1>6, <2>2, WithdrawnHolds DEF FindingOn, CitationFinding
  <2>3. QED
    BY <2>1, <2>2
<1>7. CASE claim.kind = "causal"
  BY <1>7, WithdrawnHolds DEF FindingOn
<1>8. CASE claim.kind = "hedged"
  <2>1. Grounded(claim, evidence)
    BY <1>8 DEF Grounded
  <2>2. QED
    BY <1>8, <2>1, FindingHolds DEF FindingOn
<1>9. QED
  BY <1>2, <1>3, <1>4, <1>5, <1>6, <1>7, <1>8, ClaimsAssumption

\* What a window may show of a review: each claim in it, with its verdict, holds.
ReviewHolds(review) ==
    \A k \in DOMAIN review.answer :
        /\ review.answer[k] # Redacted => Grounded(review.answer[k], review.evidence)
        /\ review.verdicts[k] = "supported" => Backed(review.answer[k], review.evidence)

\* GroundingGuard.review: each claim of an answer is judged, wherever it stands.
LEMMA ReviewedHolds ==
    ASSUME NEW claims \in Replies, NEW evidence, EvidenceInv(evidence)
    PROVE  ReviewHolds(Reviewed(claims, evidence))
<1> DEFINE review == Reviewed(claims, evidence)
<1>1. /\ review.answer = [k \in DOMAIN claims |-> FindingOn(claims[k], evidence).claim]
      /\ review.verdicts = [k \in DOMAIN claims |-> FindingOn(claims[k], evidence).verdict]
      /\ review.evidence = evidence
  BY DEF Reviewed
<1>2. \A k \in DOMAIN claims : Holds(FindingOn(claims[k], evidence), evidence)
  <2>1. \A k \in DOMAIN claims : claims[k] \in Claims
    BY RepliesAssumption
  <2>2. QED
    BY <2>1, EveryFindingHolds
<1> HIDE DEF review
<1>3. ReviewHolds(review)
  BY <1>1, <1>2 DEF ReviewHolds, Holds
<1>4. QED
  BY <1>3 DEF review

\* What a thread leaves in the queue of its question.
ResponseInv(response) == response # None /\ response.ok => ReviewHolds(response.review)

GuardedInv(it) == EvidenceInv(it.evidence) /\ ResponseInv(it.response)

GuardInv ==
    /\ \A q \in DOMAIN question : GuardedInv(question[q])
    /\ shown # None => shown.response # None /\ ResponseInv(shown.response)

LEMMA EmptyEvidence == EvidenceInv(<<>>)
<1>1. DOMAIN <<>> = {}
  OBVIOUS
<1>2. QED
  BY <1>1, EmptyIsList DEF EvidenceInv

\* A thread that ends leaves its response and no evidence.
LEMMA RespondedIsGuarded ==
    ASSUME QuestionInv, NEW q \in DOMAIN question, NEW response, Responded(q, response),
           ResponseInv(response)
    PROVE  GuardedInv(question'[q])
<1> DEFINE mid == [question[q] EXCEPT !.response = response]
           new == [mid EXCEPT !.evidence = <<>>]
<1>1. IsQuestion(question[q]) /\ question = [r \in DOMAIN question |-> question[r]]
  BY DEF QuestionInv, IsList
<1>2. question'[q] = new
  BY <1>1 DEF Responded
<1>3. IsQuestion(mid) /\ mid.response = response
  BY <1>1, EditQuestion DEF IsQuestion
<1>4. new.response = response /\ new.evidence = <<>>
  <2> HIDE DEF mid
  <2>1. QED
    BY <1>3, EditQuestion
<1>5. QED
  BY <1>2, <1>4, EmptyEvidence DEF GuardedInv

\* EvidenceBroker.dispatch adds an item that the guard can rely on.
LEMMA DispatchIsGuarded ==
    ASSUME QuestionInv, PublishedInv, NEW q \in DOMAIN question, GuardedInv(question[q]), Dispatch(q)
    PROVE  GuardedInv(question'[q])
<1> DEFINE it == question[q]
           result == Answer(Head(it.todo), IF file = None THEN None ELSE World[file],
                            "evidence_unavailable", None, None)
           kept == Append(it.evidence, result)
           mid == [it EXCEPT !.todo = Tail(it.todo)]
           new == [mid EXCEPT !.evidence = kept]
<1>1. IsQuestion(it) /\ question = [r \in DOMAIN question |-> question[r]]
  BY DEF QuestionInv, IsList
<1>2. question'[q] = new
  BY <1>1 DEF Dispatch
<1>3. IsQuestion(mid) /\ mid.response = it.response
  BY <1>1, EditQuestion DEF IsQuestion
<1>4. new.response = it.response /\ new.evidence = kept
  <2> HIDE DEF mid, kept
  <2>1. QED
    BY <1>3, EditQuestion
<1>5. file \in {None} \cup DOMAIN World
  BY PipeConstants, LenProperties DEF PublishedInv
<1>6. ItemInv(result)
  BY <1>5, DispatchedItem
<1>7. EvidenceInv(kept)
  <2> HIDE DEF result
  <2>1. QED
    BY <1>6, AppendToList DEF EvidenceInv, GuardedInv, IsList
<1>8. QED
  BY <1>2, <1>4, <1>7 DEF GuardedInv

LEMMA WorkIsGuarded ==
    ASSUME QuestionInv, PublishedInv, NEW q \in DOMAIN question, GuardedInv(question[q]), Works(q)
    PROVE  GuardedInv(question'[q])
<1>1. CASE \E calls : question' = [question EXCEPT ![q].todo = calls]
  <2>1. PICK calls : question'[q] = [question[q] EXCEPT !.todo = calls]
    BY <1>1 DEF QuestionInv, IsList
  <2>2. QED
    BY <2>1, EditQuestion DEF QuestionInv, GuardedInv
<1>2. CASE Dispatch(q)
  BY <1>2, DispatchIsGuarded
<1>3. CASE Responded(q, Failure)
  BY <1>3, RespondedIsGuarded DEF ResponseInv, Failure
<1>4. CASE Answers(q)
  <2>1. PICK claims \in Replies :
            Responded(q, [ok |-> TRUE, review |-> Reviewed(claims, question[q].evidence)])
    BY <1>4 DEF Answers
  <2>2. ReviewHolds(Reviewed(claims, question[q].evidence))
    BY ReviewedHolds DEF GuardedInv
  <2>3. ResponseInv([ok |-> TRUE, review |-> Reviewed(claims, question[q].evidence)])
    BY <2>2 DEF ResponseInv
  <2>4. QED
    BY <2>1, <2>3, RespondedIsGuarded
<1>5. CASE GuardFails(q)
  <2> DEFINE blocked == [answer |-> <<>>, evidence |-> <<>>, verdicts |-> <<>>, verdict |-> "blocked"]
             response == [ok |-> TRUE, review |-> blocked]
  <2>1. DOMAIN blocked.answer = {}
    OBVIOUS
  <2>2. ResponseInv(response)
    BY <2>1 DEF ResponseInv, ReviewHolds
  <2>3. Responded(q, response)
    BY <1>5 DEF GuardFails
  <2>4. QED
    BY <2>2, <2>3, RespondedIsGuarded
<1>6. QED
  BY <1>1, <1>2, <1>3, <1>4, <1>5 DEF Works, CallTools, ProviderFails

LEMMA PollIsGuarded ==
    ASSUME QuestionInv, GuardInv, NEW q \in DOMAIN question, Poll(q)
    PROVE  GuardInv'
<1> DEFINE it == question[q]
           mid == [it EXCEPT !.polled = FALSE]
           new == [mid EXCEPT !.response = Taken]
<1>1. IsQuestion(it) /\ question = [r \in DOMAIN question |-> question[r]] /\ GuardedInv(it)
  BY DEF QuestionInv, IsList, GuardInv
<1>2. IsQuestion(mid) /\ mid.response = it.response /\ mid.evidence = it.evidence
  BY <1>1, EditQuestion, ZenonT(40) DEF IsQuestion
<1>3. ResponseInv(Taken)
  BY DEF ResponseInv, Taken
<1>4. new.response = Taken /\ new.evidence = it.evidence
  <2> HIDE DEF mid
  <2>1. QED
    BY <1>2, EditQuestion
<1>5. GuardedInv(mid) /\ GuardedInv(new)
  BY <1>1, <1>2, <1>3, <1>4 DEF GuardedInv
<1>6. CASE it.window # window
  <2>1. question' = [question EXCEPT ![q] = mid] /\ UNCHANGED shown
    BY <1>1, <1>6 DEF Poll
  <2>2. \A r \in DOMAIN question' : GuardedInv(question'[r])
    <3> HIDE DEF mid
    <3>1. QED
      BY <1>1, <1>5, <2>1 DEF GuardInv
  <2>3. QED
    BY <2>1, <2>2 DEF GuardInv
<1>7. CASE it.window = window
  <2>1. /\ question' = [question EXCEPT ![q].polled = FALSE, ![q].response = Taken]
        /\ shown' = [question |-> q, response |-> it.response]
        /\ it.response # None
    BY <1>7 DEF Poll
  <2>2. question' = [question EXCEPT ![q] = new]
    BY <1>1, <2>1
  <2>3. \A r \in DOMAIN question' : GuardedInv(question'[r])
    <3> HIDE DEF new
    <3>1. QED
      BY <1>1, <1>5, <2>2 DEF GuardInv
  <2>4. shown'.response = it.response /\ ResponseInv(it.response)
    BY <1>1, <2>1 DEF GuardedInv
  <2>5. QED
    BY <2>1, <2>3, <2>4 DEF GuardInv
<1>8. QED
  BY <1>6, <1>7

LEMMA AskIsGuarded ==
    ASSUME AskInv, GuardInv, Ask
    PROVE  GuardInv'
<1> DEFINE n == Len(question)
<1>1. IsList(question)
  BY DEF AskInv, QuestionInv
<1>2. /\ DOMAIN question = 1 .. n /\ DOMAIN question' = 1 .. (n + 1) /\ n \in Nat
      /\ question'[n + 1] = NewQuestion
      /\ \A i \in 1 .. n : question'[i] = question[i]
  BY <1>1, AppendToList DEF Ask, IsList
<1>3. GuardedInv(NewQuestion)
  BY EmptyEvidence DEF NewQuestion, GuardedInv, ResponseInv
<1>4. \A i \in 1 .. n + 1 : GuardedInv(question'[i])
  BY <1>2, <1>3 DEF GuardInv
<1>5. UNCHANGED shown
  BY DEF Ask
<1>6. QED
  BY <1>2, <1>4, <1>5 DEF GuardInv

LEMMA GuardInvNext ==
    ASSUME AskInv, PublishedInv, GuardInv, AskNext
    PROVE  GuardInv'
<1>1. CASE (\E provider \in Providers : Save(provider)) \/ OpenWindow \/ CloseWindow
  BY <1>1 DEF Save, OpenWindow, CloseWindow, GuardInv
<1>2. CASE Ask
  BY <1>2, AskIsGuarded
<1>3. ASSUME NEW q \in DOMAIN question, Poll(q) PROVE GuardInv'
  BY <1>3, PollIsGuarded DEF AskInv
<1>4. ASSUME NEW q \in DOMAIN question, Works(q) PROVE GuardInv'
  <2>1. OwnFields(q) /\ GuardedInv(question'[q])
    BY <1>4, WorkTouchesOwnFields, WorkIsGuarded DEF AskInv, GuardInv
  <2>2. question = [r \in DOMAIN question |-> question[r]]
    BY DEF AskInv, QuestionInv, IsList
  <2>3. DOMAIN question' = DOMAIN question /\ UNCHANGED shown
    BY <2>1 DEF OwnFields
  <2>4. \A r \in DOMAIN question : r # q => question'[r] = question[r]
    BY <2>1, <2>2 DEF OwnFields
  <2>5. QED
    BY <2>1, <2>3, <2>4 DEF GuardInv
<1>5. QED
  BY <1>1, <1>2, <1>3, <1>4 DEF AskNext

\* The inductive invariant of the grounding guard: the evidence of a question is
\* what the broker answered, and a response that waits for its poll was reviewed.
THEOREM GuardIsSound == Spec => []GuardInv
<1>1. Init => GuardInv
  <2>1. DOMAIN <<>> = {}
    OBVIOUS
  <2>2. QED
    BY <2>1 DEF Init, AskInit, GuardInv
<1>2. AskInv /\ PipeInv /\ GuardInv /\ [Next]_deskVars => GuardInv'
  <2> SUFFICES ASSUME AskInv, PipeInv, GuardInv, [Next]_deskVars PROVE GuardInv'
    OBVIOUS
  <2>1. CASE UNCHANGED askVars
    BY <2>1 DEF askVars, GuardInv
  <2>2. CASE AskNext
    BY <2>2, GuardInvNext DEF PipeInv, AnswerInv
  <2>3. QED
    BY <2>1, <2>2 DEF Next, deskVars
<1>3. QED
  BY <1>1, <1>2, WindowIsSound, PipeIsSound, PTL DEF Spec

\* GroundingGuard.review stands between the model and the window.  For all claims and answers
\* made of them, the evidence retrieved for a question speaks against no claim the window
\* shows, and says what those it lists as supported say.
THEOREM NothingContradictedIsEverShown == Spec => []NothingContradictedIsShown
<1>1. GuardInv => NothingContradictedIsShown
  BY DEF GuardInv, ResponseInv, ReviewHolds, NothingContradictedIsShown
<1>2. QED
  BY <1>1, GuardIsSound, PTL

=============================================================================
