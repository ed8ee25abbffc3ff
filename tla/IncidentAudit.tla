---------------------------- MODULE IncidentAudit ----------------------------
(***************************************************************************)
(* IncidentEngine watched by an auditor who remembers what the program      *)
(* cannot: every interval in which nothing was observed.  It says whether   *)
(* the durations, gaps and close reasons of the completed history are true. *)
(***************************************************************************)
EXTENDS IncidentEngine

\* History variable: the unobserved intervals so far, from the last tick before
\* each to the first moment after it.
VARIABLE outages

auditVars == <<vars, outages>>

AuditInit == Init /\ outages = {}

\* The program comes back from being stopped, or from being suspended.
OutageEnds ==
    \/ ~up /\ up' /\ starts > 0
    \/ up /\ up' /\ lastTick' - lastTick >= GapThreshold

AuditNext ==
    /\ Next
    /\ outages' = IF OutageEnds
                  THEN outages \cup {[from |-> lastTick, to |-> lastTick']}
                  ELSE outages

AuditSpec == AuditInit /\ [][AuditNext]_auditVars

-----------------------------------------------------------------------------
Records == {history[i] : i \in DOMAIN history}

\* The unobserved intervals an incident stayed open through.
OutagesOf(rec) ==
    {o \in outages : /\ StartOf(rec) <= o.from
                      /\ o.from < o.to
                      /\ o.to <= rec.end}

\* Every unobserved interval an incident was open through lies within one of
\* the monitoring_gaps its record carries: a suspend or a restart cannot pass
\* for observed time, even if the program is killed right after it.
EveryOutageIsRecorded ==
    \A rec \in Records : \A o \in OutagesOf(rec) :
        \E i \in DOMAIN rec.gaps : rec.gaps[i].from <= o.from /\ o.to <= rec.gaps[i].to

\* A recovery nobody saw is never given an exact duration, and the alert is not
\* claimed to have been seen after the first sample that was taken since.
UncertainRecoveryIsInexact ==
    \A rec \in Records :
        rec.reason # "recovered" =>
            /\ rec.exact = "no"
            /\ rec.gaps # <<>>
            /\ rec.lastAlert <= rec.gaps[Len(rec.gaps)].from

\* The gaps of a record are intervals of the life of its incident, in order of
\* their ends.
GapsWithinIncident ==
    \A rec \in Records : \A i \in DOMAIN rec.gaps :
        /\ StartOf(rec) <= rec.gaps[i].from
        /\ rec.gaps[i].from <= rec.gaps[i].to
        /\ rec.gaps[i].to <= rec.end
        /\ \A j \in DOMAIN rec.gaps : i < j => rec.gaps[i].to < rec.gaps[j].to

\* What a completed record says about the time nobody watched is true.
OutagesAreTrue == EveryOutageIsRecorded /\ UncertainRecoveryIsInexact /\ GapsWithinIncident

\* Contradicted by the code.  _incidents_record_live_gap: a live gap gets "exactly
\* what a restart-restored one gets" in the still-alerting branch of the
\* reconciliation, "duration_exact=False" included.  No record with an exact
\* duration then spans an unobserved interval.
ExactMeansWatched ==
    \A rec \in Records : rec.exact = "yes" => OutagesOf(rec) = {}
=============================================================================
