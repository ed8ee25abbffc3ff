-------------------------------- MODULE AskAI --------------------------------
(***************************************************************************)
(* AI Analysis of the Ask window, with the settings of the provider: a     *)
(* question goes to a thread of its own, in which the provider asks for    *)
(* evidence a bounded number of times and answers; the answer is reviewed  *)
(* by the grounding guard and put into the queue of its question, which    *)
(* the Tk thread polls.  The window may be closed and opened again, and    *)
(* the settings changed, at any time.                                      *)
(*                                                                         *)
(* The broker answers from the snapshot file, without access to the stores.*)
(***************************************************************************)
EXTENDS EvidencePipe, GroundingGuard

CONSTANTS
    ToolCalls,     \* the requests for evidence a model may make in one message
    Claims,        \* the claims a model may make
    Replies,       \* the answers it may give, each the claims in it
    MaxToolCalls,  \* MAX_TOOL_CALLS
    MaxQuestions,  \* bound on the questions of a run
    MaxWindows     \* bound on how often the window is opened

\* The claims the guard extracts from an answer, by kind.
ASSUME ClaimsAssumption ==
    \A claim \in Claims :
        CASE claim.kind = "scalar" ->
                /\ claim.field \in SensorFields \cup NetworkFields \cup CoverageFields
                /\ claim = [kind |-> "scalar", field |-> claim.field, value |-> claim.value]
          [] claim.kind = "process" ->
                /\ claim.direction \in {"down", "up"}
                /\ claim = [kind |-> "process", entity |-> claim.entity,
                            direction |-> claim.direction, value |-> claim.value]
          [] claim.kind = "safe" -> claim.component \in SensorFields
          [] OTHER -> claim.kind \in {"citation", "causal", "definite", "hedged"}

ASSUME RepliesAssumption == Replies \subseteq Seq(Claims)

VARIABLES
    setting,   \* the provider in the settings file, None if disabled
    adapter,   \* ai_adapter: the provider of the adapter in memory
    windows,   \* how often the window was opened
    window,    \* the window that is open, None if there is none
    inFlight,  \* _ai_request_in_flight of that window
    question,  \* the questions so far, in order, each with its thread
    shown      \* what the window shows, and the question it answers

askVars == <<setting, adapter, windows, window, inFlight, question, shown>>

\* What the settings screen can choose.
Providers == {"openai_compatible", "nox", None}

Failure == [ok |-> FALSE]

\* A response that was taken out of its queue.
Taken == [ok |-> FALSE, taken |-> TRUE]

AskInit ==
    /\ setting \in Providers
    /\ adapter = setting
    /\ windows = 0
    /\ window = None
    /\ inFlight = FALSE
    /\ question = <<>>
    /\ shown = None

\* The Tk thread handles a click or a timer.
TkIsFree == phase = "running" /\ timer # "firing"

-----------------------------------------------------------------------------
\* The settings screen.

\* save_provider_config or disable_provider, then reload_ai_config.  A write
\* that fails is not reported, and a key that cannot be read disables the AI.
Save(provider) ==
    /\ TkIsFree
    /\ provider # setting
    /\ \/ setting' = provider /\ adapter' = provider /\ UNCHANGED faults
       \/ Fault /\ setting' = setting /\ adapter' = setting
       \/ Fault /\ setting' = provider /\ adapter' = None
    /\ UNCHANGED <<pubVars, pipeVars, windows, window, inFlight, question, shown>>

-----------------------------------------------------------------------------
\* The window.

OpenWindow ==
    /\ TkIsFree
    /\ window = None /\ windows < MaxWindows
    /\ windows' = windows + 1
    /\ window' = windows + 1
    /\ inFlight' = FALSE
    /\ shown' = None
    /\ UNCHANGED <<setting, adapter, question, pubVars, pipeVars, faults>>

CloseWindow ==
    /\ TkIsFree
    /\ window # None
    /\ window' = None
    /\ inFlight' = FALSE
    /\ shown' = None
    /\ UNCHANGED <<setting, adapter, windows, question, pubVars, pipeVars, faults>>

NewQuestion ==
    [window |-> window, provider |-> adapter, polled |-> TRUE,
     todo |-> <<>>, evidence |-> <<>>, response |-> None]

\* Mutant, used by no specification: a second question while one is open.
BugAsk ==
    /\ TkIsFree
    /\ window # None
    /\ adapter # None
    /\ Len(question) < MaxQuestions
    /\ inFlight' = TRUE
    /\ question' = Append(question, NewQuestion)
    /\ UNCHANGED <<setting, adapter, windows, window, shown, pubVars, pipeVars, faults>>

\* _ai_ask: refused without an adapter or while a question is open.
Ask ==
    /\ TkIsFree
    /\ window # None
    /\ adapter # None
    /\ ~inFlight
    /\ Len(question) < MaxQuestions
    /\ inFlight' = TRUE
    /\ question' = Append(question, NewQuestion)
    /\ UNCHANGED <<setting, adapter, windows, window, shown, pubVars, pipeVars, faults>>

\* _poll_ai_answer, when there is an answer or the window is gone; until then
\* it only comes back later.
Poll(q) ==
    LET it == question[q] IN
    /\ TkIsFree
    /\ it.polled
    /\ it.window # window \/ it.response # None
    /\ IF it.window # window
       THEN /\ question' = [question EXCEPT ![q].polled = FALSE]
            /\ UNCHANGED <<inFlight, shown>>
       ELSE /\ question' = [question EXCEPT ![q].polled = FALSE, ![q].response = Taken]
            /\ inFlight' = FALSE
            /\ shown' = [question |-> q, response |-> it.response]
    /\ UNCHANGED <<setting, adapter, windows, window, pubVars, pipeVars, faults>>

-----------------------------------------------------------------------------
\* The thread of a question: _ai_worker.

Working(q) == phase # "gone" /\ question[q].response = None

Thinks(q) == Working(q) /\ question[q].provider = "openai_compatible" /\ question[q].todo = <<>>

\* The thread ends with an answer or a failure.
Responded(q, response) ==
    question' = [question EXCEPT ![q].response = response, ![q].evidence = <<>>]

OnlyTheQuestion == UNCHANGED <<setting, adapter, windows, window, inFlight, shown, pubVars, pipeVars>>

\* The model asks for evidence, within the limit.
CallTools(q) ==
    /\ Thinks(q)
    /\ \E calls \in ToolCalls :
        IF Len(question[q].evidence) + Len(calls) > MaxToolCalls
        THEN Responded(q, Failure)
        ELSE question' = [question EXCEPT ![q].todo = calls]
    /\ OnlyTheQuestion /\ UNCHANGED faults

\* EvidenceBroker.dispatch reads the file for each call.
Dispatch(q) ==
    /\ Working(q)
    /\ question[q].todo # <<>>
    /\ LET snapshot == IF file = None THEN None ELSE World[file]
           result == Answer(Head(question[q].todo), snapshot, "evidence_unavailable", None, None)
       IN  question' = [question EXCEPT ![q].todo = Tail(@),
                                        ![q].evidence = Append(@, result)]
    /\ OnlyTheQuestion /\ UNCHANGED faults

\* The model answers; the answer is reviewed before anyone sees it.
Answers(q) ==
    /\ Thinks(q)
    /\ \E claims \in Replies :
        Responded(q, [ok |-> TRUE, review |-> Reviewed(claims, question[q].evidence)])
    /\ OnlyTheQuestion /\ UNCHANGED faults

\* The guard itself fails: the answer is withheld.
GuardFails(q) ==
    /\ Thinks(q)
    /\ Fault
    /\ Responded(q, [ok |-> TRUE,
                     review |-> [answer |-> <<>>, evidence |-> <<>>, verdicts |-> <<>>,
                                 verdict |-> "blocked"]])
    /\ OnlyTheQuestion

\* The provider is unavailable, late or malformed.  Nox is not wired up from
\* the settings screen, so it always ends here.
ProviderFails(q) ==
    /\ Working(q)
    /\ question[q].todo = <<>>
    /\ Responded(q, Failure)
    /\ OnlyTheQuestion /\ UNCHANGED faults

Works(q) == CallTools(q) \/ Dispatch(q) \/ Answers(q) \/ GuardFails(q) \/ ProviderFails(q)

AskNext ==
    \/ \E provider \in Providers : Save(provider)
    \/ OpenWindow \/ CloseWindow \/ Ask
    \/ \E q \in DOMAIN question : Poll(q) \/ Works(q)

-----------------------------------------------------------------------------
\* Everyone who asks for evidence, together: clients of the pipe and the window, against
\* the one thread that publishes it and the end of the program.

deskVars == <<pubVars, pipeVars, askVars, faults>>

Init == PipeInit /\ AskInit

Next ==
    \/ PipeNext /\ UNCHANGED askVars
    \/ phase # "gone" /\ AskNext

\* The threads run, their reads, writes and requests time out, and the Tk
\* thread serves every callback that is due in its turn, however often others
\* are due.  Nobody has to connect, ask, close or change anything, and the
\* timer may be dead.
Fairness ==
    /\ WF_deskVars(\E s \in Slots : Create(s) /\ UNCHANGED askVars)
    /\ WF_deskVars((Retry \/ AwaitStops \/ AcceptStops \/ FlushCache \/ Gone) /\ UNCHANGED askVars)
    /\ \A s \in Slots : WF_deskVars(Serves(s) /\ UNCHANGED askVars)
    /\ \A q \in 1 .. MaxQuestions :
        /\ WF_deskVars(q \in DOMAIN question /\ Works(q))
        /\ SF_deskVars(q \in DOMAIN question /\ Poll(q))

Spec == Init /\ [][Next]_deskVars /\ Fairness

-----------------------------------------------------------------------------
\* A window has at most one question open, and shows the answer to the last
\* question asked in it, never one that was asked in an earlier window.
OneQuestionAtATime ==
    LET own == {q \in DOMAIN question : question[q].window = window}
        waiting == {q \in own : question[q].polled}
    IN  window # None =>
            /\ Cardinality(waiting) = IF inFlight THEN 1 ELSE 0
            /\ shown # None => shown.question \in own
            /\ shown # None /\ ~inFlight => shown.question = Max(own)

\* The evidence says what the claim says: the number under that name, the rate for that
\* process and direction, a record of that identifier, a reading and no severe incident.  Of
\* several items of an operation it is the first, for all claims the same.
Backed(claim, evidence) ==
    CASE claim.kind = "scalar" ->
            /\ Has(evidence, Reports(claim.field))
            /\ Near(Recorded(evidence, claim.field), claim.value, Tolerance(claim.field))
      [] claim.kind = "process" ->
            /\ Has(evidence, "get_top_network_processes")
            /\ LET rows == DataOf(evidence, "get_top_network_processes")
               IN  \E i \in DOMAIN rows :
                      /\ rows[i].name = claim.entity
                      /\ Near(rows[i][claim.direction], claim.value, Tolerance(claim.direction))
      [] claim.kind = "citation" -> claim.id \in KnownIds(evidence)
      [] claim.kind = "safe" ->
            HasReading(claim.component, evidence) /\ ~HasSevereIncident(claim.component, evidence)
      [] OTHER -> FALSE

\* The evidence does not speak against the claim: it says so, or nothing of the matter.  No
\* cause is ever named, no night called quiet that was not watched, and no temperature safe
\* beside a severe incident, unless its sensor was not read.
Grounded(claim, evidence) ==
    CASE claim.kind = "scalar" -> Has(evidence, Reports(claim.field)) => Backed(claim, evidence)
      [] claim.kind = "process" ->
            /\ Has(evidence, "get_top_network_processes")
            /\ LET rows == DataOf(evidence, "get_top_network_processes")
               IN  \E i \in DOMAIN rows : rows[i].name = claim.entity
            => Backed(claim, evidence)
      [] claim.kind = "citation" -> Backed(claim, evidence)
      [] claim.kind = "causal"   -> FALSE
      [] claim.kind = "definite" ->
            Has(evidence, "get_coverage") => DataOf(evidence, "get_coverage") \in {None, Complete}
      [] claim.kind = "safe" ->
            HasSevereIncident(claim.component, evidence) => ~HasReading(claim.component, evidence)
      [] OTHER -> TRUE

\* Whatever the model wrote, in an answer of claims that hold, that fail and that are of
\* nothing retrieved, those that are shown are not spoken against by the evidence for this
\* very question, and those the window lists as supported are what the evidence says.  So a
\* claim of safety beside a severe incident is never listed as supported.
NothingContradictedIsShown ==
    LET review == shown.response.review
    IN  shown # None /\ shown.response.ok =>
            \A k \in DOMAIN review.answer :
                /\ review.answer[k] # Redacted => Grounded(review.answer[k], review.evidence)
                /\ review.verdicts[k] = "supported" => Backed(review.answer[k], review.evidence)

\* Nobody is left waiting: a client gets its answer or is disconnected, a
\* question gets an answer or a failure unless its window or the program is
\* closed, and closing the program does not hang on the accept thread.
NobodyIsLeftWaiting ==
    /\ \A s \in Slots : (thread[s] # "none") ~> (thread[s] = "none")
    /\ inFlight ~> (~inFlight \/ stopped)
    /\ (phase = "joining") ~> (phase = "gone")
=============================================================================
