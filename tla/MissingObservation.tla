------------------------- MODULE MissingObservation -------------------------
(***************************************************************************)
(* free_valid_ai/missing_observation.py: which of the observations that a  *)
(* proposal declares as required have been made.                           *)
(*   observation  [observation_id, evidence]                               *)
(***************************************************************************)
EXTENDS Evidence

\* The question and the affected scope decide nothing and are left out.
OBSERVATION_FIELDS == {"observation_id", "evidence"}

MayAssessObservations(observations, index) ==
    /\ VerifyIndex(index)
    /\ observations # <<>>
    /\ \A i, j \in DOMAIN observations :
          observations[i].observation_id = observations[j].observation_id => i = j
    \* no reference twice in one list
    /\ \A k \in DOMAIN observations :
          \A i, j \in DOMAIN observations[k].evidence :
              observations[k].evidence[i] = observations[k].evidence[j] => i = j

\* Mutated form of Status: a list without references replays like any other.
StatusOfAll(references, results) ==
    CASE Contradicted(results) -> "CONTRADICTED"
      [] references # <<>> /\ Undecided(results) -> "UNKNOWN"
      [] OTHER -> "OBSERVED"

Status(references, results) ==
    CASE references = <<>> -> "MISSING"
      [] references # <<>> /\ Undecided(results) -> "UNKNOWN"
      [] Contradicted(results) -> "CONTRADICTED"
      [] AllHeld(results) -> "OBSERVED"

ObservationStatuses(observations, replays) ==
    {[observation_id |-> observations[i].observation_id,
      status |-> Status(observations[i].evidence, replays[i].results)] :
        i \in DOMAIN observations}

UnobservedReasons(statuses, replays, evidence) ==
    {Reason("observation_evidence_invalid", item.observation_id) :
        item \in {item \in statuses : item.status = "UNKNOWN"}}
    \cup Inexact(AllUsed(replays), evidence)

AuditTargets(statuses) == {item \in statuses : item.status # "OBSERVED"}

Coverage(unknown, statuses) ==
    CASE unknown # {} -> "UNKNOWN"
      [] unknown = {} /\ AuditTargets(statuses) # {} -> "INCOMPLETE"
      [] unknown = {} /\ AuditTargets(statuses) = {} -> "COMPLETE_DECLARED_SCOPE"

ObservationRecord(scope, observations, replays, evidence, index) ==
    LET statuses == ObservationStatuses(observations, replays)
        unknown == UnobservedReasons(statuses, replays, evidence)
    IN  Seal([type |-> "missing_observation",
              scope |-> scope,
              frozen_index_hash |-> index.hash,
              required_observations |-> observations,
              evidence |-> evidence,
              observation_statuses |-> statuses,
              coverage |-> Coverage(unknown, statuses),
              audit_targets |-> AuditTargets(statuses),
              unknown_reasons |-> unknown])

AssessObservations(scope, observations, evidence, index) ==
    ObservationRecord(scope, observations,
                      [i \in DOMAIN observations |->
                          Replay(observations[i].evidence, evidence, index)],
                      evidence, index)

VerifyObservations(record, index) ==
    /\ record.body.type = "missing_observation"
    /\ MayAssessObservations(record.body.required_observations, index)
    /\ record = AssessObservations(record.body.scope, record.body.required_observations,
                                   record.body.evidence, index)
=============================================================================
