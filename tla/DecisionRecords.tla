-------------------------- MODULE DecisionRecords --------------------------
(***************************************************************************)
(* The decisions of possibility.py, missing_observation.py,                *)
(* directional_comparator.py and consequence_gate.py over a frozen index   *)
(* that is extended between them.  Whoever decides uses any index that was *)
(* published, the latest or an older one; a possibility assessment may     *)
(* become part of a gate record, made later and perhaps under another      *)
(* index.                                                                  *)
(***************************************************************************)
EXTENDS ConsequenceGate, MissingObservation, DirectionalComparator

LOCAL INSTANCE SequencesExt

CONSTANTS
    FirstEntries,   \* the entries of index version 1
    LaterEntries,   \* the entries that may extend an index
    MaxIndexes,     \* bound: index versions published
    Proposals,      \* arguments of assess_possibility
    Observations,   \* arguments of assess_missing_observations
    Comparisons,    \* arguments of compare_directional
    Actions         \* arguments of assess_consequences

\* Criteria, and the references of each, are lists, and a criterion has its fields.
Formed(criteria, fields) ==
    /\ IsList(criteria)
    /\ \A i \in DOMAIN criteria : DOMAIN criteria[i] = fields /\ IsList(criteria[i].evidence)

FormedComparison(invariants, measures) ==
    /\ Formed(invariants, INVARIANT_FIELDS)
    /\ \A i \in DOMAIN invariants :
          invariants[i].baseline_holds \in BOOLEAN /\ invariants[i].candidate_holds \in BOOLEAN
    /\ Formed(measures, MEASURE_FIELDS)
    /\ \A i \in DOMAIN measures :
          IsNumber(measures[i].baseline) /\ IsNumber(measures[i].candidate)

ASSUME DecisionAssumption ==
    /\ MayIndex(FirstEntries, 1, None)
    /\ MaxIndexes \in Nat
    /\ \A proposal \in Proposals : Formed(proposal.constraints, CONSTRAINT_FIELDS)
    /\ \A audit \in Observations : Formed(audit.observations, OBSERVATION_FIELDS)
    /\ \A comparison \in Comparisons :
          FormedComparison(comparison.invariants, comparison.measures)

VARIABLES
    published,  \* the versions of the index
    made        \* the last record made, or None

vars == <<published, made>>

Published == {published[i] : i \in DOMAIN published}

-----------------------------------------------------------------------------
Init ==
    /\ published = <<Index(FirstEntries, 1, None)>>
    /\ made = None

\* extend_frozen_check_index, on the last version.
Extend(entry) ==
    /\ Len(published) < MaxIndexes
    /\ MayExtend(published[Len(published)], entry)
    /\ published' = Append(published, Extended(published[Len(published)], entry))
    /\ UNCHANGED made

\* Each decision is computed from its arguments and recorded, or refused.
Assess(proposal, index) ==
    /\ MayAssessPossibility(proposal.constraints, index)
    /\ made' = AssessPossibility(proposal.scope, proposal.constraints,
                                   proposal.evidence, index)
    /\ UNCHANGED published

Audit(audit, index) ==
    /\ MayAssessObservations(audit.observations, index)
    /\ made' = AssessObservations(audit.scope, audit.observations, audit.evidence, index)
    /\ UNCHANGED published

Compare(comparison, index) ==
    /\ MayCompare(comparison.scope, comparison.invariants, comparison.measures, index)
    /\ made' = CompareDirectional(comparison.scope, comparison.invariants,
                                    comparison.measures, comparison.evidence, index)
    /\ UNCHANGED published

Gate(action, index) ==
    /\ MayAssessConsequences(action.action, action.impact, made, index)
    /\ made' = AssessConsequences(action.action, action.impact, action.impact_evidence,
                                    action.evidence, action.unknowns, made, index)
    /\ UNCHANGED published

Next ==
    \/ \E entry \in LaterEntries : Extend(entry)
    \/ /\ made = None
       /\ \E index \in Published :
             \/ \E proposal \in Proposals : Assess(proposal, index)
             \/ \E audit \in Observations : Audit(audit, index)
             \/ \E comparison \in Comparisons : Compare(comparison, index)
    \/ /\ made # None /\ made.body.type = "possibility"
       /\ \E index \in Published, action \in Actions : Gate(action, index)

Spec == Init /\ [][Next]_vars

-----------------------------------------------------------------------------
(* Records and what they decide.                                           *)

Kind == IF made = None THEN "none" ELSE made.body.type

\* The index that the record was made with.
IndexOf(record) ==
    CHOOSE index \in Published : index.hash = record.body.frozen_index_hash

Outcome(record) ==
    CASE record.body.type = "possibility" -> record.body.assessment
      [] record.body.type = "missing_observation" -> record.body.coverage
      [] record.body.type = "comparison" -> record.body.classification
      [] record.body.type = "gate" -> record.body.decision

\* The reference lists of a record.
Declared(record) ==
    CASE record.body.type = "possibility" -> record.body.constraints
      [] record.body.type = "missing_observation" -> record.body.required_observations
      [] record.body.type = "comparison" -> record.body.invariants \o record.body.measures
ReferenceLists(record) ==
    IF record.body.type = "gate"
      THEN {record.body.impact_evidence[field] : field \in Fields}
      ELSE {Declared(record)[i].evidence : i \in DOMAIN Declared(record)}
CitedIds(record) == UNION {{list[i] : i \in DOMAIN list} : list \in ReferenceLists(record)}

\* The record's arguments, decided with another index.
Redecided(record, index) ==
    CASE record.body.type = "possibility" ->
            AssessPossibility(record.body.scope, record.body.constraints,
                              record.body.evidence, index)
      [] record.body.type = "missing_observation" ->
            AssessObservations(record.body.scope, record.body.required_observations,
                               record.body.evidence, index)
      [] record.body.type = "comparison" ->
            CompareDirectional(record.body.scope, record.body.invariants,
                               record.body.measures, record.body.evidence, index)

Verifies(record, index) ==
    \/ VerifyPossibility(record, index) \/ VerifyObservations(record, index)
    \/ VerifyComparison(record, index) \/ VerifyConsequences(record, index)

-----------------------------------------------------------------------------
(* What evidence does.                                                     *)

\* Declaring the criteria and citing the references of each the other way round
\* decides nothing, although references are replayed one by one up to the first
\* that fails and the first blocking kind is taken.  For the lists of up to two
\* of the run that is every order; of longer lists only the reversed one is
\* compared.
OrderIrrelevant ==
    LET Backward(criteria) ==
            Reverse([i \in DOMAIN criteria |->
                        [criteria[i] EXCEPT !.evidence = Reverse(criteria[i].evidence)]])
    IN  Kind \in {"possibility", "missing_observation", "comparison"} =>
            LET body == made.body
                reversed ==
                    [body |->
                        CASE Kind = "possibility" ->
                                [body EXCEPT !.constraints = Backward(body.constraints)]
                          [] Kind = "missing_observation" ->
                                [body EXCEPT !.required_observations =
                                                 Backward(body.required_observations)]
                          [] Kind = "comparison" ->
                                [body EXCEPT !.invariants = Backward(body.invariants),
                                             !.measures = Backward(body.measures)]]
            IN  Outcome(Redecided(reversed, IndexOf(made))) = Outcome(made)

\* The possibility and the missing-observation assessments, written apart, read
\* the same references alike: a proposal is possible exactly when its evidence,
\* declared as required observations, is complete, and it is undecided whenever
\* that is.  Only the second refuses a list with a reference cited twice, so
\* this is said of constraints whose lists it takes.
AssessorsAgree ==
    Kind = "possibility" =>
        LET observations == [i \in DOMAIN made.body.constraints |->
                                [observation_id |-> made.body.constraints[i].constraint_id,
                                 evidence |-> made.body.constraints[i].evidence]]
            coverage == AssessObservations(made.body.scope, observations, made.body.evidence,
                                           IndexOf(made)).body.coverage
        IN  MayAssessObservations(observations, IndexOf(made)) =>
                /\ Outcome(made) = "POSSIBLE_WITHIN_CONSTRAINTS"
                       <=> coverage = "COMPLETE_DECLARED_SCOPE"
                /\ coverage = "UNKNOWN" => Outcome(made) = "UNKNOWN"

\* Evidence that is supplied and cited nowhere is reported, even where a list
\* stopped being replayed, and when the set's inexactness is the only reason,
\* some item really is cited nowhere.  A gate whose proposal was not assessed as
\* possible gives that as its reason and reports nothing of its evidence.
UncitedEvidenceReported ==
    (made # None /\ (Kind = "gate" =>
        made.body.possibility_assessment.body.assessment = "POSSIBLE_WITHIN_CONSTRAINTS")) =>
        LET reasons == IF Kind = "gate" THEN made.body.reasons ELSE made.body.unknown_reasons
        IN  /\ ~(made.body.evidence \subseteq CitedIds(made)) => NOT_EXACT \in reasons
            /\ reasons = {NOT_EXACT} => ~(made.body.evidence \subseteq CitedIds(made))

\* The item's own bytes bear out its claim, read without the checks' code; where
\* a pointer has other digits than those of ASCII, the check's reading of them is
\* its own (MCArrayIndex).
Supports(item) ==
    /\ Digest(item.observed) = item.claim.body.matter.source_sha256
    /\ IF item.claim.body.matter.type = CHECK_TYPE
         THEN Digest(item.observed) = item.claim.body.matter.expected
         ELSE /\ item.observed.json
              /\ Ascii(item.claim.body.matter.pointer) =>
                    Rfc6901(item.observed.document, item.claim.body.matter.pointer) =
                        {item.claim.body.matter.expected}

Witnessed(list, evidence, index) ==
    /\ list # <<>>
    /\ \A i \in DOMAIN list :
          /\ list[i] \in evidence
          /\ Supports(Items[list[i]])
          /\ Items[list[i]].receipt.body.verifier_id # Items[list[i]].claim.body.author
          /\ \E entry \in index.body.entries :
                /\ entry.body.reference.check_id = Items[list[i]].check_id
                /\ ByProcedure(Items[list[i]].receipt.body.method, entry.body.procedure)

\* An action is eligible only when the bytes that came with its evidence, by
\* procedures that one index admits, show every constraint of the proposal and
\* every field of the impact, at that field of their document: from the bytes
\* through claim, check, receipt, replay, assessment and gate.
EligibleIsEstablished ==
    (Kind = "gate" /\ Outcome(made) = "ELIGIBLE") =>
        LET index == IndexOf(made)
            assessed == made.body.possibility_assessment.body
        IN  /\ assessed.frozen_index_hash = index.hash
            /\ assessed.scope.proposal = made.body.action.description
            /\ \A i \in DOMAIN assessed.constraints :
                  Witnessed(assessed.constraints[i].evidence, assessed.evidence, index)
            /\ \A field \in Fields :
                  /\ Witnessed(made.body.impact_evidence[field], made.body.evidence, index)
                  /\ \A i \in DOMAIN made.body.impact_evidence[field] :
                        Rfc6901(Items[made.body.impact_evidence[field][i]].observed.document,
                                FieldPointer(field)) = {JsonValue(made.body.impact[field])}

-----------------------------------------------------------------------------
(* What a decision depends on.                                             *)

Rank == [decision \in {"PROHIBITED", "BLOCKED", "SANDBOX_ONLY", "ELIGIBLE"} |->
            CASE decision = "PROHIBITED" -> 0
              [] decision = "BLOCKED" -> 1
              [] decision = "SANDBOX_ONLY" -> 2
              [] decision = "ELIGIBLE" -> 3]

ASSESSMENTS == {"UNKNOWN", "IMPOSSIBLE_UNDER_CONSTRAINTS", "OUT_OF_SCOPE",
                "CURRENTLY_INFEASIBLE", "POSSIBLE_WITHIN_CONSTRAINTS"}

\* How far an impact goes, by field.
PEOPLE == [NONE |-> 0, INDIVIDUAL |-> 1, GROUP |-> 2, PUBLIC |-> 3]
SYSTEMS == [LOCAL |-> 0, BOUNDED |-> 1, EXTERNAL |-> 2, UNBOUNDED |-> 3]
IRREVERSIBILITY == [REVERSIBLE |-> 0, COMPENSATABLE |-> 1, IRREVERSIBLE |-> 2, UNKNOWN |-> 3]

AsWide(impact) ==
    {other \in Impacts :
        /\ PEOPLE[impact.people_scope] <= PEOPLE[other.people_scope]
        /\ SYSTEMS[impact.systems_scope] <= SYSTEMS[other.systems_scope]
        /\ IRREVERSIBILITY[impact.reversibility] <= IRREVERSIBILITY[other.reversibility]}

NoBetter(assessment) ==
    CASE assessment = "POSSIBLE_WITHIN_CONSTRAINTS" -> ASSESSMENTS
      [] assessment = "IMPOSSIBLE_UNDER_CONSTRAINTS" -> {assessment}
      [] OTHER -> ASSESSMENTS \ {"POSSIBLE_WITHIN_CONSTRAINTS"}

\* Nothing that is worse or less known makes a decision more permissive: a wider
\* reach, less reversibility, an unknown more, evidence for the impact less, or a
\* worse assessment, whatever branch of the gate each of them is looked at in.
\* An assessment that was IMPOSSIBLE is only compared with itself: without its
\* evidence it would be UNKNOWN (possibility.py, "if unknown"), and the gate
\* would block what it now prohibits.
WorseNeverMorePermissive ==
    Kind = "gate" =>
        LET replays == [field \in Fields |->
                           Replay(made.body.impact_evidence[field], made.body.evidence,
                                  IndexOf(made))]
            missing == ImpactUnknown(made.body.impact, made.body.impact_evidence, replays,
                                     made.body.evidence)
        IN  \A assessment \in NoBetter(made.body.possibility_assessment.body.assessment),
               impact \in AsWide(made.body.impact),
               more \in {{}, {NOT_EXACT}}, unknowns \in {{}, {"another"}} :
                   Rank[Decision(assessment, missing \cup more, impact,
                                 made.body.unknown_consequences \cup unknowns)]
                       <= Rank[made.body.decision]

Outcomes(kind) ==
    CASE kind = "possibility" -> ASSESSMENTS
      [] kind = "missing_observation" -> {"UNKNOWN", "INCOMPLETE", "COMPLETE_DECLARED_SCOPE"}
      [] kind = "comparison" -> {"UNKNOWN", "ADVANCED", "EQUIVALENT", "REGRESSED", "MIXED"}
      [] kind = "gate" -> DOMAIN Rank

\* Extending the index never turns a decision into its opposite: two indexes
\* that both decide the same arguments decide them alike, and when every item
\* names the version of its check, a later index decides what an earlier one did.
ExtensionNeverReverses ==
    Kind \in {"possibility", "missing_observation", "comparison"} =>
        \A index \in Published :
            LET lasting ==
                    /\ index.body.index_version >= IndexOf(made).body.index_version
                    /\ \A id \in made.body.evidence : Items[id].check_version > 0
            IN  Outcome(Redecided(made, index)) \in
                    IF Outcome(made) = "UNKNOWN" THEN Outcomes(Kind)
                    ELSE {Outcome(made)} \cup (IF lasting THEN {} ELSE {"UNKNOWN"})

WithOutcome(body, outcome) ==
    CASE body.type = "possibility" -> [body EXCEPT !.assessment = outcome]
      [] body.type = "missing_observation" -> [body EXCEPT !.coverage = outcome]
      [] body.type = "comparison" -> [body EXCEPT !.classification = outcome]
      [] body.type = "gate" -> [body EXCEPT !.decision = outcome]

\* A record verifies under the index it was made with and under no other that is
\* published, even where both would decide alike, and with another outcome it
\* verifies nowhere, whoever seals it.
VerifiedWhereMade ==
    made # None =>
        \A index \in Published, outcome \in Outcomes(Kind) :
            Verifies(Seal(WithOutcome(made.body, outcome)), index)
                <=> index.hash = made.body.frozen_index_hash /\ outcome = Outcome(made)

-----------------------------------------------------------------------------
(* What a comparison says of the numbers.                                  *)

\* How the candidate's exact value compares with the baseline's.
Exactly(measure) ==
    LET gain == measure.candidate.value - measure.baseline.value
    IN  SignOf(IF measure.direction = "HIGHER_IS_BETTER" THEN gain ELSE -gain)

\* A classification is borne out by the exact numbers, although differences are
\* taken of rounded ones: what advanced holds every invariant and is exactly
\* better somewhere, what regressed lost an invariant or is exactly worse
\* somewhere, and only a measure of an integer and a real hides a difference.
DirectionIsReal ==
    (Kind = "comparison" /\ Outcome(made) # "UNKNOWN") =>
        LET measures == made.body.measures
            Some(sign) == \E i \in DOMAIN measures : Exactly(measures[i]) = sign
            exact == \A i \in DOMAIN measures : ~Mixed(measures[i])
            lost == \E i \in DOMAIN made.body.invariants :
                        ~made.body.invariants[i].candidate_holds
        IN  /\ Outcome(made) \in {"ADVANCED", "MIXED"} => Some(1) /\ ~lost
            /\ Outcome(made) \in {"REGRESSED", "MIXED"} => Some(-1) \/ lost
            /\ Outcome(made) = "EQUIVALENT" => ~lost
            /\ exact /\ Outcome(made) = "ADVANCED" => ~Some(-1)
            /\ exact /\ ~lost /\ Outcome(made) = "REGRESSED" => ~Some(1)
            /\ exact /\ Outcome(made) = "EQUIVALENT" => ~Some(1) /\ ~Some(-1)

\* Comparing the other way round mirrors the classification; after an invariant
\* was lost the other way round decides nothing.
SwapMirrors ==
    (Kind = "comparison" /\ Outcome(made) # "UNKNOWN") =>
        LET body == made.body
            swapped ==
                CompareDirectional(
                    [baseline_id |-> body.scope.candidate_id,
                     candidate_id |-> body.scope.baseline_id],
                    [i \in DOMAIN body.invariants |->
                        [body.invariants[i] EXCEPT
                            !.baseline_holds = body.invariants[i].candidate_holds,
                            !.candidate_holds = body.invariants[i].baseline_holds]],
                    [i \in DOMAIN body.measures |->
                        [body.measures[i] EXCEPT
                            !.baseline = body.measures[i].candidate,
                            !.candidate = body.measures[i].baseline]],
                    body.evidence, IndexOf(made))
        IN  Outcome(swapped) =
                IF InvariantRegression(body.invariants) THEN "UNKNOWN"
                ELSE CASE Outcome(made) = "ADVANCED" -> "REGRESSED"
                       [] Outcome(made) = "REGRESSED" -> "ADVANCED"
                       [] Outcome(made) \in {"EQUIVALENT", "MIXED"} -> Outcome(made)
=============================================================================
