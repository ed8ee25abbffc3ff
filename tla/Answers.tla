------------------------------- MODULE Answers -------------------------------
(***************************************************************************)
(* The answers app.py gives to a question without a model's help: the      *)
(* words choose what it is about, the records and the telemetry that touch *)
(* the window are fetched once, and the answer says what there was, what   *)
(* there was none of, and where nobody was watching.                       *)
(*                                                                         *)
(* What is listed of the evidence (six of each, with figures) is left out, *)
(* as are trends and recommendations, which have evidence of their own:    *)
(* see Analytics.                                                          *)
(***************************************************************************)
EXTENDS Values, Integers, FiniteSets, FiniteSetsExt

CONSTANTS
    IncidentParts,  \* components of incidents
    PartsAsked,     \* those of each component one may ask about: ASK_COMPONENT_INCIDENT_KEYS
    Wordings,       \* the sets of words a question may have
    LongEnough,     \* TIMELINE_MIN_GAP_SECONDS
    Covered,        \* REPORT_MIN_COVERAGE_PCT
    LastMoment,     \* bound on the time
    MaxTroubles,    \* bound on the incidents
    MaxPlays        \* bound on the sessions

ASSUME AnswerConstants ==
    /\ LongEnough \in Nat \ {0}
    /\ {Covered, LastMoment, MaxTroubles, MaxPlays} \subseteq Nat
    /\ None \notin Nat /\ None \notin {"explain", "incidents", "status", "workloads", "timeline"}

VARIABLES
    moment,
    bucketed,      \* the moments before it of which there is a bucket with samples
    troubles,  \* incidents [part, from, to], where to = None is one in progress
    plays      \* stored sessions [from, to]

answerVars == <<moment, bucketed, troubles, plays>>

AnswersInit ==
    /\ moment = 0
    /\ bucketed = {}
    /\ troubles = {}
    /\ plays = {}

\* The program may not run, or lose the bucket in progress.
MomentPasses ==
    /\ moment < LastMoment
    /\ moment' = moment + 1
    /\ bucketed' \in {bucketed, bucketed \cup {moment}}
    /\ UNCHANGED <<troubles, plays>>

TroubleBegins ==
    /\ Cardinality(troubles) < MaxTroubles
    /\ \E part \in IncidentParts :
           /\ \A t \in troubles : t.part = part => t.to # None
           /\ troubles' = troubles \cup {[part |-> part, from |-> moment, to |-> None]}
    /\ UNCHANGED <<moment, bucketed, plays>>

\* It is stored when it ends, and not before.
TroubleEnds ==
    /\ \E t \in troubles :
           t.to = None /\ troubles' = (troubles \ {t}) \cup {[t EXCEPT !.to = moment]}
    /\ UNCHANGED <<moment, bucketed, plays>>

PlayEnds ==
    /\ Cardinality(plays) < MaxPlays
    /\ \E from \in 0 .. moment : plays' = plays \cup {[from |-> from, to |-> moment]}
    /\ UNCHANGED <<moment, bucketed, troubles>>

AnswersNext == MomentPasses \/ TroubleBegins \/ TroubleEnds \/ PlayEnds

-----------------------------------------------------------------------------
\* ASK_INTENT_PATTERNS: what a question is about if all words of a group are in it.
IntentPatterns ==
    << [intent |-> "recommendations", groups |-> {{"recommend"}, {"should", "i"}, {"what", "do", "about"}}],
       [intent |-> "trend", groups |-> {{"trend"}, {"getting", "worse"}, {"getting", "better"},
                                        {"over", "time"}, {"degrad"}}],
       [intent |-> "explain", groups |-> {{"why"}, {"what", "caused"}, {"reason"}}],
       [intent |-> "workloads", groups |-> {{"which", "app"}, {"which", "program"},
                                            {"what", "was", "running"}, {"workload"}, {"which", "game"}}],
       [intent |-> "incidents", groups |-> {{"incident"}, {"overheat"}, {"too", "hot"}, {"alert"}, {"throttl"}}],
       [intent |-> "status", groups |-> {{"how", "is"}, {"how", "has"}, {"health"}, {"doing"},
                                         {"status"}, {"summary"}}],
       [intent |-> "timeline", groups |-> {{"what", "happened"}, {"timeline"}, {"log"}}] >>

\* classify_question: the first that matches.
Intent(words) ==
    LET matching == {i \in DOMAIN IntentPatterns : \E g \in IntentPatterns[i].groups : g \subseteq words}
    IN IF matching = {} THEN None ELSE IntentPatterns[Min(matching)].intent

\* What an answer counts or lists, and says that there was none of.
Topics(intent) ==
    CASE intent = "explain" -> {"incidents", "sessions"}
      [] intent \in {"incidents", "status"} -> {"incidents"}
      [] intent = "workloads" -> {"sessions"}
      [] intent = "timeline" -> {"incidents", "sessions", "gaps"}
      [] OTHER -> {}

AskComponents == DOMAIN PartsAsked \cup {None}
Concerns(component) == IF component = None THEN IncidentParts ELSE PartsAsked[component]

\* Mutant, used by no specification: what began in the window.
BugOverlapping(records, w) == {r \in records : w.from <= r.from /\ r.from <= w.to}

\* overlapping_incidents, overlapping_sessions
Overlapping(records, w) == {r \in records : r.from <= w.to /\ r.to >= w.from}

Spans == {[from |-> a, to |-> b] : a \in 0 .. moment, b \in 0 .. moment}
AskedSpans == {w \in Spans : w.from <= w.to}

\* The stretches without a bucket that cannot be extended within the window.
UnseenSpans(w) ==
    {g \in AskedSpans :
        /\ w.from <= g.from /\ g.to <= w.to /\ g.to - g.from >= LongEnough
        /\ bucketed \cap (g.from .. g.to - 1) = {}
        /\ g.from = w.from \/ g.from - 1 \in bucketed
        /\ g.to = w.to \/ g.to \in bucketed}

CoverageOf(w) ==
    (100 * Cardinality(bucketed \cap (w.from .. w.to - 1))) \div Max({1, w.to - w.from})

\* _window_evidence.  Only incidents are filtered by the component.
WindowEvidence(component, w) ==
    [incidents |-> Overlapping({t \in troubles : t.to # None /\ t.part \in Concerns(component)}, w),
     sessions |-> Overlapping(plays, w),
     gaps |-> UnseenSpans(w),
     coverage |-> CoverageOf(w)]

\* Of the gaps the first two are named.
Named(gaps) == {g \in gaps : Cardinality({o \in gaps : o.from < g.from}) < 2}

\* answer_question.  A timeline is of the whole machine, and only says of all topics at
\* once that there was nothing.
Answer(words, component, w) ==
    LET intent == Intent(words)
        evidence == WindowEvidence(IF intent = "timeline" THEN None ELSE component, w)
        missing == {t \in Topics(intent) : evidence[t] = {}}
    IN IF intent = None THEN [intent |-> None, denied |-> {}, poor |-> FALSE, gaps |-> {}]
       ELSE [intent |-> intent,
             denied |-> IF intent = "timeline" /\ missing # Topics(intent) THEN {} ELSE missing,
             poor |-> evidence.coverage < Covered,
             gaps |-> Named(evidence.gaps)]

-----------------------------------------------------------------------------
\* Whatever is asked whenever: incidents are denied only if each that touched the window
\* is still in progress, and sessions only if none touched it; an answer without a caveat
\* is of a window that was watched, without a long gap; and where nothing happened, nothing
\* is all that any question about a part of the window is told.
AnswersAreTrue ==
    \A w \in AskedSpans, component \in AskComponents, words \in Wordings :
        LET answer == Answer(words, component, w)
        IN /\ "incidents" \in answer.denied =>
                  \A t \in troubles :
                      t.part \in Concerns(component) /\ t.from <= w.to =>
                          t.to = None \/ t.to < w.from
           /\ "sessions" \in answer.denied => \A s \in plays : s.to < w.from \/ w.to < s.from
           /\ answer.intent # None /\ ~answer.poor /\ answer.gaps = {} =>
                  /\ Cardinality(bucketed \cap (w.from .. w.to)) * 100 >= Covered * (w.to - w.from)
                  /\ \A m \in w.from .. w.to - LongEnough :
                         bucketed \cap (m .. m + LongEnough - 1) # {}
           /\ answer.intent = "timeline" /\ answer.denied # {} =>
                  \A part \in AskedSpans, other \in Wordings :
                      w.from <= part.from /\ part.to <= w.to =>
                          LET told == Answer(other, component, part)
                          IN told.intent # "timeline" => told.denied = Topics(told.intent)
=============================================================================
