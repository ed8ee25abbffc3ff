--------------------------- MODULE GroundingGuard ---------------------------
(***************************************************************************)
(* ai/grounding_guard.py: the review of a model's answer against the       *)
(* evidence retrieved for it.                                              *)
(*                                                                         *)
(* An answer is represented by the claims extracted from it, in order.     *)
(* Their spans never overlap, so each is judged and edited on its own.  A  *)
(* claim that is withdrawn becomes Redacted; the words around the claims   *)
(* are left out.                                                           *)
(***************************************************************************)
EXTENDS EvidenceAnswers, FiniteSetsExt

CONSTANT Redacted  \* the fixed literal in the place of a withdrawn claim

-----------------------------------------------------------------------------
\* CHECKABLE_FIELDS by group: the operation that reports them and the tolerance.
SensorFields   == {"cpu", "gpu", "memory"}
NetworkFields  == {"down", "up"}
CoverageFields == {"coverage"}

Group(field) ==
    CHOOSE g \in {SensorFields, NetworkFields, CoverageFields} : field \in g

Reports(field) ==
    CASE field \in SensorFields  -> "get_current_sensors"
      [] field \in NetworkFields -> "get_network_status"
      [] OTHER                   -> "get_coverage"

Tolerance(field) == IF field \in NetworkFields THEN 5 ELSE 50

\* _build_evidence_index: the first item of an operation that was answered.
ItemsOf(evidence, op) == {i \in DOMAIN evidence : evidence[i].ok /\ evidence[i].operation = op}

Has(evidence, op) == ItemsOf(evidence, op) # {}

DataOf(evidence, op) == evidence[Min(ItemsOf(evidence, op))].data

\* _get_path within the item of the field.
Recorded(evidence, field) ==
    LET data == DataOf(evidence, Reports(field))
    IN  IF field \in CoverageFields THEN data ELSE data[field]

Near(a, b, tolerance) == a # None /\ b # None /\ a - b <= tolerance /\ b - a <= tolerance

Finding(verdict, claim) == [verdict |-> verdict, claim |-> claim]

-----------------------------------------------------------------------------
\* Mutant, used by no specification: a reading that is null passes for one that
\* was not retrieved.
BugScalarFinding(claim, evidence) ==
    IF \/ ~Has(evidence, Reports(claim.field))
       \/ Recorded(evidence, claim.field) = None
    THEN Finding("unsupported", claim)
    ELSE IF Near(Recorded(evidence, claim.field), claim.value, Tolerance(claim.field))
    THEN Finding("supported", claim)
    ELSE Finding("contradicted", Redacted)

\* _score_scalar: a value that belongs to exactly one other field of the group
\* is given that field's name.
ScalarFinding(claim, evidence) ==
    IF ~Has(evidence, Reports(claim.field)) THEN Finding("unsupported", claim)
    ELSE LET actual   == Recorded(evidence, claim.field)
             siblings == {f \in Group(claim.field) \ {claim.field} :
                            Near(Recorded(evidence, f), claim.value, Tolerance(f))}
         IN  IF actual = None THEN Finding("contradicted", Redacted)
             ELSE IF Near(actual, claim.value, Tolerance(claim.field))
                  THEN Finding("supported", claim)
             ELSE IF Cardinality(siblings) = 1
                  THEN Finding("contradicted", [claim EXCEPT !.field = CHOOSE f \in siblings : TRUE])
             ELSE Finding("contradicted", Redacted)

Opposite(direction) == IF direction = "down" THEN "up" ELSE "down"

\* _score_process: who moves how much in which direction, the first row of the
\* process if there are several.  Another row takes the claim over if it is the
\* only one that fits.
ProcessFinding(claim, evidence) ==
    IF ~Has(evidence, "get_top_network_processes") THEN Finding("unsupported", claim)
    ELSE LET rows == DataOf(evidence, "get_top_network_processes")
             own  == {i \in DOMAIN rows : rows[i].name = claim.entity}
             me   == Min(own)
             fits(i, direction) == Near(rows[i][direction], claim.value, Tolerance(direction))
             others == {i \in DOMAIN rows \ (IF own = {} THEN {} ELSE {me}) : fits(i, claim.direction)}
             handed == Finding("contradicted", [claim EXCEPT !.entity = rows[Min(others)].name])
         IN  IF own = {}
             THEN IF Cardinality(others) = 1 THEN handed
                  ELSE IF others # {} THEN Finding("unverifiable", claim)
                  ELSE Finding("unsupported", claim)
             ELSE IF fits(me, claim.direction) THEN Finding("supported", claim)
             ELSE IF fits(me, Opposite(claim.direction))
                  THEN Finding("contradicted", [claim EXCEPT !.direction = Opposite(@)])
             ELSE IF rows[me][claim.direction] # None /\ Cardinality(others) = 1 THEN handed
             ELSE Finding("contradicted", Redacted)

\* _extract_citations: the identifiers anywhere in the evidence.  Those of
\* coverage gaps are left out, as are the gaps.
KnownIds(evidence) ==
    UNION {{r.id : r \in ToSet(evidence[i].data)} :
              i \in ItemsOf(evidence, "get_recent_incidents") \cup ItemsOf(evidence, "get_recent_sessions")}

CitationFinding(claim, evidence) ==
    IF claim.id \in KnownIds(evidence) THEN Finding("supported", claim)
    ELSE Finding("contradicted", Redacted)

\* _extract_gap_claims: "was fine all night" against the coverage.
DefiniteFinding(claim, evidence) ==
    IF /\ Has(evidence, "get_coverage")
       /\ DataOf(evidence, "get_coverage") # None
       /\ DataOf(evidence, "get_coverage") < Complete
    THEN Finding("contradicted", Redacted)
    ELSE Finding("unsupported", claim)

HasReading(component, evidence) ==
    Has(evidence, "get_current_sensors") /\ Recorded(evidence, component) # None

HasSevereIncident(component, evidence) ==
    /\ Has(evidence, "get_recent_incidents")
    /\ \E r \in ToSet(DataOf(evidence, "get_recent_incidents")) : r.component = component /\ r.severe

\* _extract_safe_range_claims: "temperatures have stayed in a safe range".  Without a reading
\* of the sensor the incidents are not looked at.
SafeFinding(claim, evidence) ==
    IF ~HasReading(claim.component, evidence) THEN Finding("unsupported", claim)
    ELSE IF HasSevereIncident(claim.component, evidence) THEN Finding("contradicted", Redacted)
    ELSE Finding("supported", claim)

\* The finding on one claim.
FindingOn(claim, evidence) ==
    CASE claim.kind = "scalar"   -> ScalarFinding(claim, evidence)
      [] claim.kind = "process"  -> ProcessFinding(claim, evidence)
      [] claim.kind = "citation" -> CitationFinding(claim, evidence)
      [] claim.kind = "causal"   -> Finding("contradicted", Redacted)
      [] claim.kind = "definite" -> DefiniteFinding(claim, evidence)
      [] claim.kind = "hedged"   -> Finding("unsupported", claim)
      [] claim.kind = "safe"     -> SafeFinding(claim, evidence)

\* GroundingGuard.review: the claims as they will be shown, the verdict on each and on all.
Reviewed(claims, evidence) ==
    LET answer == [k \in DOMAIN claims |-> FindingOn(claims[k], evidence).claim]
    IN  [answer |-> answer, evidence |-> evidence,
         verdicts |-> [k \in DOMAIN claims |-> FindingOn(claims[k], evidence).verdict],
         verdict |-> IF answer = claims THEN "clean" ELSE "corrected"]
=============================================================================
