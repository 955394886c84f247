---------------------------- MODULE Possibility ----------------------------
(***************************************************************************)
(* free_valid_ai/possibility.py: whether a proposal is possible within     *)
(* declared constraints, each with references to evidence.                 *)
(*   scope       [proposal, environment_id]                                *)
(*   constraint  [constraint_id, kind, evidence]                           *)
(***************************************************************************)
EXTENDS Evidence

\* The text of a requirement decides nothing and is left out.
CONSTRAINT_FIELDS == {"constraint_id", "kind", "evidence"}
CONSTRAINT_KINDS == {"LOGICAL", "RESOURCE", "SCOPE"}

MayAssessPossibility(constraints, index) ==
    /\ VerifyIndex(index)
    /\ constraints # <<>>
    /\ \A i, j \in DOMAIN constraints :
          constraints[i].constraint_id = constraints[j].constraint_id => i = j
    /\ \A i \in DOMAIN constraints : constraints[i].kind \in CONSTRAINT_KINDS

UnknownReasons(constraints, replays, evidence) ==
    {Reason("constraint_evidence_incomplete", constraints[i].constraint_id) :
        i \in {i \in DOMAIN constraints : Undecided(replays[i].results)}}
    \cup Inexact(AllUsed(replays), evidence)

BlockingConstraints(constraints, replays) ==
    {[constraint_id |-> constraints[i].constraint_id, kind |-> constraints[i].kind] :
        i \in {i \in DOMAIN constraints : Contradicted(replays[i].results)}}

\* The first kind that is contradicted decides.
Assessment(unknown, kinds) ==
    CASE unknown # {} -> "UNKNOWN"
      [] unknown = {} /\ "LOGICAL" \in kinds -> "IMPOSSIBLE_UNDER_CONSTRAINTS"
      [] unknown = {} /\ "LOGICAL" \notin kinds /\ "SCOPE" \in kinds -> "OUT_OF_SCOPE"
      [] unknown = {} /\ kinds = {"RESOURCE"} -> "CURRENTLY_INFEASIBLE"
      [] unknown = {} /\ kinds = {} -> "POSSIBLE_WITHIN_CONSTRAINTS"

PossibilityRecord(scope, constraints, replays, evidence, index) ==
    LET unknown == UnknownReasons(constraints, replays, evidence)
        blocked == BlockingConstraints(constraints, replays)
    IN  Seal([type |-> "possibility",
              scope |-> scope,
              frozen_index_hash |-> index.hash,
              constraints |-> constraints,
              evidence |-> evidence,
              assessment |-> Assessment(unknown, {item.kind : item \in blocked}),
              blocking_constraints |-> blocked,
              unknown_reasons |-> unknown])

AssessPossibility(scope, constraints, evidence, index) ==
    PossibilityRecord(scope, constraints,
                      [i \in DOMAIN constraints |->
                          Replay(constraints[i].evidence, evidence, index)],
                      evidence, index)

\* Mutated form of VerifyPossibility: only the assessment is computed again.
VerifyAssessmentOnly(record, index) ==
    /\ record.body.type = "possibility"
    /\ MayAssessPossibility(record.body.constraints, index)
    /\ Intact(record)
    /\ record.body.assessment =
           AssessPossibility(record.body.scope, record.body.constraints,
                             record.body.evidence, index).body.assessment

\* The record is what its own arguments give under the index.
VerifyPossibility(record, index) ==
    /\ record.body.type = "possibility"
    /\ MayAssessPossibility(record.body.constraints, index)
    /\ record = AssessPossibility(record.body.scope, record.body.constraints,
                                  record.body.evidence, index)
=============================================================================
