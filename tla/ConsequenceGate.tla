-------------------------- MODULE ConsequenceGate --------------------------
(***************************************************************************)
(* free_valid_ai/consequence_gate.py: whether an action is eligible for a  *)
(* separate authorization.                                                 *)
(*   action  [description, environment_id]                                 *)
(*   impact  [people_scope, systems_scope, reversibility]                  *)
(* Every field of the impact has its own references, and each of them must *)
(* be a value check of that very field.  The gate takes a possibility      *)
(* assessment that verifies under the same index.                          *)
(***************************************************************************)
EXTENDS Possibility

PEOPLE_SCOPES == {"NONE", "INDIVIDUAL", "GROUP", "PUBLIC"}
SYSTEM_SCOPES == {"LOCAL", "BOUNDED", "EXTERNAL", "UNBOUNDED"}
REVERSIBILITY == {"REVERSIBLE", "COMPENSATABLE", "IRREVERSIBLE", "UNKNOWN"}
Impacts == [people_scope : PEOPLE_SCOPES, systems_scope : SYSTEM_SCOPES,
            reversibility : REVERSIBILITY]
Fields == {"people_scope", "systems_scope", "reversibility"}

\* f"/{field}"
FieldPointer(field) == [rooted |-> TRUE, tokens |-> <<<<field>>>>]

\* Mutated form of BoundTo: the pointer is not compared.
BoundToValue(matter, field, value) ==
    matter.type = JSON_CHECK_TYPE /\ matter.expected = JsonValue(value)

\* The check is of the field and expects the value that is declared.
BoundTo(matter, field, value) ==
    /\ matter.type = JSON_CHECK_TYPE
    /\ matter.pointer = FieldPointer(field)
    /\ matter.expected = JsonValue(value)

Unbound(references, field, value) ==
    \E i \in DOMAIN references :
        ~BoundTo(Items[references[i]].claim.body.matter, field, value)

ImpactUnknown(impact, impact_evidence, replays, evidence) ==
    {Reason("impact_evidence_incomplete", field) :
        field \in {field \in Fields : ~AllHeld(replays[field].results)}}
    \cup {Reason("impact_evidence_unbound", field) :
        field \in {field \in Fields : AllHeld(replays[field].results)
                                       /\ Unbound(impact_evidence[field], field, impact[field])}}
    \cup Inexact(AllUsed(replays), evidence)

MayAssessConsequences(action, impact, possibility, index) ==
    /\ VerifyIndex(index)
    /\ impact \in Impacts
    /\ possibility.body.scope.proposal = action.description
    /\ possibility.body.scope.environment_id = action.environment_id
    /\ VerifyPossibility(possibility, index)

-----------------------------------------------------------------------------
(* The decision, by the first branch that applies.                         *)

Irreversible(impact) == impact.reversibility \in {"IRREVERSIBLE", "UNKNOWN"}

OutOfReach(impact) ==
    impact.people_scope = "PUBLIC" \/ impact.systems_scope = "UNBOUNDED" \/ Irreversible(impact)

Unresolved(impact, unknowns) ==
    {reason \in {"unresolved_consequences", "group_impact", "external_impact",
                 "compensatable"} :
        CASE reason = "unresolved_consequences" -> unknowns # {}
          [] reason = "group_impact" -> impact.people_scope = "GROUP"
          [] reason = "external_impact" -> impact.systems_scope = "EXTERNAL"
          [] reason = "compensatable" -> impact.reversibility = "COMPENSATABLE"}

\* Mutated form of Decision: incomplete evidence is looked at last.
DecisionBeforeEvidence(assessment, impact_unknown, impact, unknowns) ==
    CASE assessment = "IMPOSSIBLE_UNDER_CONSTRAINTS" -> "PROHIBITED"
      [] assessment \notin {"IMPOSSIBLE_UNDER_CONSTRAINTS", "POSSIBLE_WITHIN_CONSTRAINTS"} ->
            "BLOCKED"
      [] assessment = "POSSIBLE_WITHIN_CONSTRAINTS" ->
            IF OutOfReach(impact) THEN "BLOCKED"
            ELSE IF Unresolved(impact, unknowns) # {} THEN "SANDBOX_ONLY"
            ELSE IF impact_unknown # {} THEN "BLOCKED" ELSE "ELIGIBLE"

Decision(assessment, impact_unknown, impact, unknowns) ==
    CASE assessment = "IMPOSSIBLE_UNDER_CONSTRAINTS" -> "PROHIBITED"
      [] assessment \notin {"IMPOSSIBLE_UNDER_CONSTRAINTS", "POSSIBLE_WITHIN_CONSTRAINTS"} ->
            "BLOCKED"
      [] assessment = "POSSIBLE_WITHIN_CONSTRAINTS" ->
            IF impact_unknown # {} \/ OutOfReach(impact) THEN "BLOCKED"
            ELSE IF Unresolved(impact, unknowns) # {} THEN "SANDBOX_ONLY" ELSE "ELIGIBLE"

\* The reasons of the branch taken.
Reasons(assessment, impact_unknown, impact, unknowns) ==
    CASE assessment # "POSSIBLE_WITHIN_CONSTRAINTS" -> {Reason("possibility", assessment)}
      [] assessment = "POSSIBLE_WITHIN_CONSTRAINTS" ->
            IF impact_unknown # {} THEN impact_unknown
            ELSE IF impact.people_scope = "PUBLIC" THEN {Reason("public_impact", "")}
            ELSE IF impact.systems_scope = "UNBOUNDED" THEN {Reason("unbounded_impact", "")}
            ELSE IF Irreversible(impact) THEN {Reason("reversibility", impact.reversibility)}
            ELSE {Reason(reason, "") : reason \in Unresolved(impact, unknowns)}

GateRecord(action, impact, impact_evidence, evidence, unknowns, possibility, index, missing) ==
    LET assessment == possibility.body.assessment
        decision == Decision(assessment, missing, impact, unknowns)
    IN  Seal([type |-> "gate",
              action |-> action,
              impact |-> impact,
              impact_evidence |-> impact_evidence,
              evidence |-> evidence,
              unknown_consequences |-> unknowns,
              possibility_assessment |-> possibility,
              frozen_index_hash |-> index.hash,
              decision |-> decision,
              reasons |-> Reasons(assessment, missing, impact, unknowns),
              eligible_for |-> IF decision = "ELIGIBLE" THEN "SEPARATE_AUTHORIZATION_ONLY"
                               ELSE "NONE"])

AssessConsequences(action, impact, impact_evidence, evidence, unknowns, possibility, index) ==
    GateRecord(action, impact, impact_evidence, evidence, unknowns, possibility, index,
               ImpactUnknown(impact, impact_evidence,
                             [field \in Fields |->
                                 Replay(impact_evidence[field], evidence, index)], evidence))

VerifyConsequences(record, index) ==
    /\ record.body.type = "gate"
    /\ MayAssessConsequences(record.body.action, record.body.impact,
                             record.body.possibility_assessment, index)
    /\ record = AssessConsequences(record.body.action, record.body.impact,
                                   record.body.impact_evidence, record.body.evidence,
                                   record.body.unknown_consequences,
                                   record.body.possibility_assessment, index)
=============================================================================
