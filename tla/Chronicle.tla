------------------------------ MODULE Chronicle ------------------------------
(***************************************************************************)
(* The completed incidents and sessions as the rest of the program finds   *)
(* them: by an evidence identifier, which is the number a record has among *)
(* those of its kind and day that are stored when it is completed, and by  *)
(* the window of a timeline.                                               *)
(*                                                                         *)
(* A record may be older than the identifiers, and one that is completed   *)
(* may have begun before everything else of its day was forgotten.  How a  *)
(* record comes to be completed is the subject of IncidentEngine and       *)
(* WorkloadSessions.                                                       *)
(***************************************************************************)
EXTENDS Values, Integers, FiniteSets, Sequences

CONSTANTS
    RecordKinds,  \* the kinds of a store: "INC" and "NET" share one, "SES" has its own
    Retention,    \* INCIDENT_RETENTION_DAYS, SESSION_RETENTION_DAYS
    FinalDay,     \* bound on the days of a behaviour
    MaxRecords    \* bound on its records

ASSUME ChronicleConstants == {Retention, FinalDay, MaxRecords} \subseteq Nat

VARIABLES
    today,
    begun,      \* records in progress: [kind, from, n], where n tells those of one day apart
    chronicle,  \* the store: records [kind, from, to, rank, blind], oldest first
    torn,       \* does the store end in a line that was cut short?
    forgotten   \* [kind, from] of the records that retention has dropped

chronicleVars == <<today, begun, chronicle, torn, forgotten>>

Day(r) == [kind |-> r.kind, from |-> r.from]

\* A store kept by an earlier version, with a record of the first day without a rank.
OldRecord(kind) == [kind |-> kind, from |-> 0, to |-> 0, rank |-> None, blind |-> FALSE]

ChronicleInit ==
    /\ today = 0
    /\ begun = {}
    /\ chronicle \in {<<>>} \cup {<<OldRecord(k)>> : k \in RecordKinds}
    /\ torn = FALSE
    /\ forgotten = {}

RecordBegins ==
    /\ Cardinality(begun) + Len(chronicle) < MaxRecords
    /\ \E k \in RecordKinds :
           LET same == {r \in begun : r.kind = k /\ r.from = today}
           IN begun' = begun \cup {[kind |-> k, from |-> today, n |-> Cardinality(same)]}
    /\ UNCHANGED <<today, chronicle, torn, forgotten>>

\* Mutant, used by no specification: the day is that on which a record ended.
BugNextRank(r, stored) ==
    Cardinality({i \in DOMAIN stored : stored[i].kind = r.kind /\ stored[i].to = r.from}) + 1

\* _next_evidence_id: one more than there are of its kind and day, with an identifier or
\* from before there were any.
NextRank(r, stored) == Cardinality({i \in DOMAIN stored : Day(stored[i]) = Day(r)}) + 1

\* The identifier is assigned and the record appended: the store may not be readable, or
\* not take the line, or the program be killed half way through it.
RecordCompletes ==
    /\ \E r \in {x \in begun : \A o \in begun : Day(o) = Day(x) => o.n <= x.n},
          stored \in {chronicle, <<>>} :
       LET record == [kind |-> r.kind, from |-> r.from, to |-> today,
                      rank |-> NextRank(r, stored), blind |-> stored # chronicle]
       IN /\ begun' = begun \ {r}
          /\ \/ chronicle' = (IF torn THEN chronicle ELSE Append(chronicle, record))
                /\ torn' = FALSE
             \/ UNCHANGED <<chronicle, torn>>
             \/ torn' = TRUE /\ UNCHANGED chronicle
    /\ UNCHANGED <<today, forgotten>>

\* load_incidents, load_sessions: what ended too long ago is dropped, all of it or, where
\* the store cannot be replaced, nothing.  That is the first of the store, as records are
\* appended when they end.  Records in progress are restored.
Restart ==
    /\ \E n \in 0 .. Len(chronicle) :
          /\ \A i \in DOMAIN chronicle : chronicle[i].to < today - Retention <=> i <= n
          /\ chronicle' = SubSeq(chronicle, n + 1, Len(chronicle))
          /\ forgotten' = forgotten \cup {Day(chronicle[i]) : i \in 1 .. n}
    /\ torn' = FALSE
    /\ UNCHANGED <<today, begun>>

TodayPasses ==
    /\ today < FinalDay
    /\ today' = today + 1
    /\ UNCHANGED <<begun, chronicle, torn, forgotten>>

ChronicleNext == RecordBegins \/ RecordCompletes \/ Restart \/ TodayPasses

-----------------------------------------------------------------------------
\* read_incidents_file, read_sessions_file
Chronicled == {chronicle[i] : i \in DOMAIN chronicle}

Touches(r, from, to) == r.from <= to /\ r.to >= from

\* The records of a kind that touch a window, each as one entry of the timeline.
EventsOf(k, from, to) == {r \in Chronicled : r.kind = k /\ Touches(r, from, to)}

\* build_timeline merges what each kind has.
TimelineOf(from, to) == UNION {EventsOf(k, from, to) : k \in RecordKinds}

\* Two stored records share an identifier only if one was numbered while the store could
\* not be read, or after retention had dropped a record of its kind and day.
IdsIdentify ==
    \A i, j \in DOMAIN chronicle :
        LET a == chronicle[i] b == chronicle[j]
        IN i < j /\ Day(a) = Day(b) /\ a.rank = b.rank /\ a.rank # None =>
               a.blind \/ b.blind \/ Day(a) \in forgotten

\* A record on the timeline of a window is on that of its first or second part, wherever
\* it is cut, and on no other; and it is on that of the moments it began and ended.
TimelineSplits ==
    /\ \A r \in Chronicled : r \in TimelineOf(r.from, r.from) \cap TimelineOf(r.to, r.to)
    /\ \A from, to \in 0 .. FinalDay : \A cut \in from .. to :
           TimelineOf(from, to) = TimelineOf(from, cut) \cup TimelineOf(cut, to)
=============================================================================
