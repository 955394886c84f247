----------------------- MODULE DecisionRecords_proofs -----------------------
(***************************************************************************)
(* What holds of every decision record, whatever the evidence, the         *)
(* criteria and the indexes: it verifies where it was made and nowhere     *)
(* else, nothing worse or less known makes it more permissive, the two     *)
(* assessors agree, uncited evidence is reported, an index that is         *)
(* extended does not decide the opposite, a classification is borne out by *)
(* the exact numbers and mirrored the other way round, an eligible action  *)
(* rests on the bytes of its evidence, and no order of criteria or         *)
(* references decides anything.                                            *)
(***************************************************************************)
EXTENDS DecisionRecords, Foundation_proofs

LOCAL INSTANCE SequencesExt

\* The indexes are sealed, so none has the hash of another, and the record
\* made, if there is one, verifies under one of them.
IInv ==
    /\ published \in Seq(Published)
    /\ \A index \in Published : index = Seal(index.body)
    /\ made # None => \E index \in Published : Verifies(made, index)

-----------------------------------------------------------------------------
(* The shape of a record, by what it decides.                              *)

PossibilityBody(body) ==
    body = [type |-> "possibility",
            scope |-> body.scope,
            frozen_index_hash |-> body.frozen_index_hash,
            constraints |-> body.constraints,
            evidence |-> body.evidence,
            assessment |-> body.assessment,
            blocking_constraints |-> body.blocking_constraints,
            unknown_reasons |-> body.unknown_reasons]

ObservationsBody(body) ==
    body = [type |-> "missing_observation",
            scope |-> body.scope,
            frozen_index_hash |-> body.frozen_index_hash,
            required_observations |-> body.required_observations,
            evidence |-> body.evidence,
            observation_statuses |-> body.observation_statuses,
            coverage |-> body.coverage,
            audit_targets |-> body.audit_targets,
            unknown_reasons |-> body.unknown_reasons]

ComparisonBody(body) ==
    body = [type |-> "comparison",
            scope |-> body.scope,
            frozen_index_hash |-> body.frozen_index_hash,
            invariants |-> body.invariants,
            measures |-> body.measures,
            evidence |-> body.evidence,
            classification |-> body.classification,
            unknown_reasons |-> body.unknown_reasons]

GateBody(body) ==
    body = [type |-> "gate",
            action |-> body.action,
            impact |-> body.impact,
            impact_evidence |-> body.impact_evidence,
            evidence |-> body.evidence,
            unknown_consequences |-> body.unknown_consequences,
            possibility_assessment |-> body.possibility_assessment,
            frozen_index_hash |-> body.frozen_index_hash,
            decision |-> body.decision,
            reasons |-> body.reasons,
            eligible_for |-> body.eligible_for]

\* A possibility assessment that verifies is the sealed form of its arguments.
LEMMA PossibilityShape ==
    ASSUME NEW record, NEW index, VerifyPossibility(record, index)
    PROVE  /\ record = Seal(record.body)
           /\ record.body.frozen_index_hash = index.hash
           /\ PossibilityBody(record.body)
<1>1. PICK body :
          /\ record = Seal(body)
          /\ body.frozen_index_hash = index.hash
          /\ PossibilityBody(body)
    BY DEF VerifyPossibility, AssessPossibility, PossibilityRecord, PossibilityBody
<1>2. QED
    BY <1>1, SealIntact

\* A missing-observation assessment that verifies is the sealed form of its arguments.
LEMMA ObservationShape ==
    ASSUME NEW record, NEW index, VerifyObservations(record, index)
    PROVE  /\ record = Seal(record.body)
           /\ record.body.frozen_index_hash = index.hash
           /\ ObservationsBody(record.body)
<1>1. PICK body :
          /\ record = Seal(body)
          /\ body.frozen_index_hash = index.hash
          /\ ObservationsBody(body)
    BY DEF VerifyObservations, AssessObservations, ObservationRecord, ObservationsBody
<1>2. QED
    BY <1>1, SealIntact

\* A comparison that verifies is the sealed form of its arguments.
LEMMA ComparisonShape ==
    ASSUME NEW record, NEW index, VerifyComparison(record, index)
    PROVE  /\ record = Seal(record.body)
           /\ record.body.frozen_index_hash = index.hash
           /\ ComparisonBody(record.body)
<1>1. PICK body :
          /\ record = Seal(body)
          /\ body.frozen_index_hash = index.hash
          /\ ComparisonBody(body)
    BY DEF VerifyComparison, CompareDirectional, ComparisonRecord, ComparisonBody
<1>2. QED
    BY <1>1, SealIntact

\* A gate record that verifies is the sealed form of its arguments.
LEMMA GateShape ==
    ASSUME NEW record, NEW index, VerifyConsequences(record, index)
    PROVE  /\ record = Seal(record.body)
           /\ record.body.frozen_index_hash = index.hash
           /\ GateBody(record.body)
<1>1. PICK body :
          /\ record = Seal(body)
          /\ body.frozen_index_hash = index.hash
          /\ GateBody(body)
    BY DEF VerifyConsequences, AssessConsequences, GateRecord, GateBody
<1>2. QED
    BY <1>1, SealIntact

\* What is assessed verifies under the index it was assessed with.
LEMMA PossibilityVerifies ==
    ASSUME NEW scope, NEW constraints, NEW evidence, NEW index,
           MayAssessPossibility(constraints, index)
    PROVE  VerifyPossibility(AssessPossibility(scope, constraints, evidence, index), index)
<1> DEFINE record == AssessPossibility(scope, constraints, evidence, index)
<1>1. /\ record.body.type = "possibility" /\ record.body.scope = scope
      /\ record.body.constraints = constraints /\ record.body.evidence = evidence
    BY SealIntact DEF AssessPossibility, PossibilityRecord
<1> HIDE DEF record
<1>2. QED
    BY <1>1 DEF VerifyPossibility, record

\* What is audited verifies under the index it was audited with.
LEMMA ObservationsVerify ==
    ASSUME NEW scope, NEW observations, NEW evidence, NEW index,
           MayAssessObservations(observations, index)
    PROVE  VerifyObservations(AssessObservations(scope, observations, evidence, index), index)
<1> DEFINE record == AssessObservations(scope, observations, evidence, index)
<1>1. /\ record.body.type = "missing_observation" /\ record.body.scope = scope
      /\ record.body.required_observations = observations
      /\ record.body.evidence = evidence
    BY SealIntact DEF AssessObservations, ObservationRecord
<1> HIDE DEF record
<1>2. QED
    BY <1>1 DEF VerifyObservations, record

\* What is compared verifies under the index it was compared with.
LEMMA ComparisonVerifies ==
    ASSUME NEW scope, NEW invariants, NEW measures, NEW evidence, NEW index,
           MayCompare(scope, invariants, measures, index)
    PROVE  VerifyComparison(CompareDirectional(scope, invariants, measures, evidence, index),
                            index)
<1> DEFINE record == CompareDirectional(scope, invariants, measures, evidence, index)
<1>1. /\ record.body.type = "comparison" /\ record.body.scope = scope
      /\ record.body.invariants = invariants /\ record.body.measures = measures
      /\ record.body.evidence = evidence
    BY SealIntact DEF CompareDirectional, ComparisonRecord
<1> HIDE DEF record
<1>2. QED
    BY <1>1 DEF VerifyComparison, record

\* What is gated verifies under the index it was gated with.
LEMMA ConsequencesVerify ==
    ASSUME NEW action, NEW impact, NEW impact_evidence, NEW evidence, NEW unknowns,
           NEW possibility, NEW index,
           MayAssessConsequences(action, impact, possibility, index)
    PROVE  VerifyConsequences(
               AssessConsequences(action, impact, impact_evidence, evidence, unknowns,
                                  possibility, index), index)
<1> DEFINE record == AssessConsequences(action, impact, impact_evidence, evidence, unknowns,
                                        possibility, index)
<1>1. /\ record.body.type = "gate" /\ record.body.action = action
      /\ record.body.impact = impact /\ record.body.impact_evidence = impact_evidence
      /\ record.body.evidence = evidence /\ record.body.unknown_consequences = unknowns
      /\ record.body.possibility_assessment = possibility
    BY SealIntact DEF AssessConsequences, GateRecord
<1> HIDE DEF record
<1>2. QED
    BY <1>1 DEF VerifyConsequences, record
-----------------------------------------------------------------------------
(* The invariant.                                                          *)

LEMMA InitEstablishes == Init => IInv
<1> SUFFICES ASSUME Init PROVE IInv
    OBVIOUS
<1> DEFINE first == Index(FirstEntries, 1, None)
<1>1. published = <<first>> /\ made = None
    BY DEF Init
<1>2. first = Seal(first.body)
    BY SealIntact DEF Index
<1> HIDE DEF first
<1>3. Published = {first}
    BY <1>1 DEF Published
<1>4. QED
    BY <1>1, <1>2, <1>3 DEF IInv

\* A record that verifies under a published index may be the one made.
LEMMA MakingKeeps ==
    ASSUME IInv, UNCHANGED published,
           \E index \in Published : Verifies(made', index)
    PROVE  IInv'
<1>1. Published' = Published
    BY DEF Published
<1>2. \A index : Verifies(made', index) => Verifies(made, index)'
    BY DEF Verifies
<1>3. QED
    BY <1>1, <1>2 DEF IInv

LEMMA StepPreserves == IInv /\ [Next]_vars => IInv'
<1> SUFFICES ASSUME IInv, [Next]_vars PROVE IInv'
    OBVIOUS
<1>1. ASSUME NEW entry, Extend(entry) PROVE IInv'
    <2> DEFINE index == Extended(published[Len(published)], entry)
    <2>1. index = Seal(index.body)
        BY SealIntact DEF Extended, Index
    <2>2. published' = Append(published, index) /\ UNCHANGED made
        BY <1>1 DEF Extend
    <2> HIDE DEF index
    <2>3. published \in Seq(Published \cup {index})
        BY DEF IInv
    <2>4. Published' = Published \cup {index}
        BY <2>2, <2>3 DEF Published, IInv
    <2>5. published' \in Seq(Published')
        BY <2>2, <2>3, <2>4
    <2>6. \A other : Verifies(made, other) => Verifies(made, other)'
        BY <2>2 DEF Verifies
    <2>7. QED
        BY <2>1, <2>2, <2>4, <2>5, <2>6 DEF IInv
<1>2. ASSUME NEW proposal, NEW index \in Published, Assess(proposal, index) PROVE IInv'
    <2>1. VerifyPossibility(made', index)
        BY <1>2, PossibilityVerifies DEF Assess
    <2>2. QED
        BY <1>2, <2>1, MakingKeeps DEF Assess, Verifies
<1>3. ASSUME NEW audit, NEW index \in Published, Audit(audit, index) PROVE IInv'
    <2>1. VerifyObservations(made', index)
        BY <1>3, ObservationsVerify DEF Audit
    <2>2. QED
        BY <1>3, <2>1, MakingKeeps DEF Audit, Verifies
<1>4. ASSUME NEW comparison, NEW index \in Published, Compare(comparison, index) PROVE IInv'
    <2>1. VerifyComparison(made', index)
        BY <1>4, ComparisonVerifies DEF Compare
    <2>2. QED
        BY <1>4, <2>1, MakingKeeps DEF Compare, Verifies
<1>5. ASSUME NEW action, NEW index \in Published, Gate(action, index) PROVE IInv'
    <2>1. VerifyConsequences(made', index)
        BY <1>5, ConsequencesVerify DEF Gate
    <2>2. QED
        BY <1>5, <2>1, MakingKeeps DEF Gate, Verifies
<1>6. CASE UNCHANGED vars
    <2>1. UNCHANGED published /\ UNCHANGED made /\ Published' = Published
        BY <1>6 DEF vars, Published
    <2>2. \A index : Verifies(made, index) => Verifies(made, index)'
        BY <2>1 DEF Verifies
    <2>3. QED
        BY <2>1, <2>2 DEF IInv
<1>7. QED
    BY <1>1, <1>2, <1>3, <1>4, <1>5, <1>6 DEF Next

LEMMA InvariantHolds == Spec => []IInv
<1>1. QED
    BY InitEstablishes, StepPreserves, PTL DEF Spec

\* No two published indexes have one hash, so a record's index is determined.
LEMMA OneIndex ==
    ASSUME IInv, NEW left \in Published, NEW right \in Published, left.hash = right.hash
    PROVE  left = right
<1>1. left = Seal(left.body) /\ right = Seal(right.body)
    BY DEF IInv
<1>2. left.body = right.body
    BY <1>1, SealIntact, DigestInjective
<1>3. QED
    BY <1>1, <1>2

\* The record made verifies under the index it names.
LEMMA MadeVerifies ==
    ASSUME IInv, made # None
    PROVE  /\ IndexOf(made) \in Published
           /\ IndexOf(made).hash = made.body.frozen_index_hash
           /\ Verifies(made, IndexOf(made))
<1>1. PICK index \in Published : Verifies(made, index)
    BY DEF IInv
<1>2. made.body.frozen_index_hash = index.hash
    BY <1>1, PossibilityShape, ObservationShape, ComparisonShape, GateShape DEF Verifies
<1>3. /\ IndexOf(made) \in Published
      /\ IndexOf(made).hash = made.body.frozen_index_hash
    BY <1>2 DEF IndexOf
<1>4. IndexOf(made) = index
    BY <1>2, <1>3, OneIndex
<1>5. QED
    BY <1>1, <1>3, <1>4
-----------------------------------------------------------------------------
(* Where a record verifies.                                                *)

\* With another outcome, or under another index, a record does not verify: its
\* own arguments give one outcome under an index and name that index.
LEMMA PossibilityVerifiedWhereMade ==
    ASSUME NEW record, NEW home, VerifyPossibility(record, home),
           NEW index, NEW outcome,
           Verifies(Seal(WithOutcome(record.body, outcome)), index),
           index.hash = home.hash => index = home
    PROVE  index.hash = record.body.frozen_index_hash /\ outcome = Outcome(record)
<1> DEFINE body == WithOutcome(record.body, outcome)
           new == Seal(body)
<1>1. /\ body.type = "possibility"
      /\ body.frozen_index_hash = record.body.frozen_index_hash
      /\ body.scope = record.body.scope
      /\ body.constraints = record.body.constraints
      /\ body.evidence = record.body.evidence
      /\ body.assessment = outcome
    <2>1. record.body.type = "possibility" /\ PossibilityBody(record.body)
        BY PossibilityShape DEF PossibilityBody
    <2>2. body = [record.body EXCEPT !.assessment = outcome]
        BY <2>1 DEF WithOutcome
    <2>3. QED
        BY <2>1, <2>2 DEF PossibilityBody
<1>2. new.body = body /\ Verifies(new, index)
    BY SealIntact
<1> HIDE DEF body
<1>3. VerifyPossibility(new, index)
    BY <1>1, <1>2 DEF Verifies, VerifyObservations, VerifyComparison, VerifyConsequences
<1>4. index = home
    <2>1. new.body.frozen_index_hash = index.hash
        BY <1>3, PossibilityShape
    <2>2. record.body.frozen_index_hash = home.hash
        BY PossibilityShape
    <2>3. QED
        BY <1>1, <1>2, <2>1, <2>2
<1>5. new = record
    BY <1>1, <1>2, <1>3, <1>4 DEF VerifyPossibility
<1>6. record.body.type = "possibility"
    BY DEF VerifyPossibility
<1>7. Outcome(record) = record.body.assessment
    BY <1>6 DEF Outcome
<1>8. QED
    <2>1. outcome = record.body.assessment
        BY <1>1, <1>2, <1>5
    <2>2. record.body.frozen_index_hash = index.hash
        BY <1>4, PossibilityShape
    <2>3. QED
        BY <1>7, <2>1, <2>2

LEMMA ObservationsVerifiedWhereMade ==
    ASSUME NEW record, NEW home, VerifyObservations(record, home),
           NEW index, NEW outcome,
           Verifies(Seal(WithOutcome(record.body, outcome)), index),
           index.hash = home.hash => index = home
    PROVE  index.hash = record.body.frozen_index_hash /\ outcome = Outcome(record)
<1> DEFINE body == WithOutcome(record.body, outcome)
           new == Seal(body)
<1>1. /\ body.type = "missing_observation"
      /\ body.frozen_index_hash = record.body.frozen_index_hash
      /\ body.scope = record.body.scope
      /\ body.required_observations = record.body.required_observations
      /\ body.evidence = record.body.evidence
      /\ body.coverage = outcome
    <2>1. record.body.type = "missing_observation" /\ ObservationsBody(record.body)
        BY ObservationShape DEF ObservationsBody
    <2>2. body = [record.body EXCEPT !.coverage = outcome]
        BY <2>1 DEF WithOutcome
    <2>3. QED
        BY <2>1, <2>2 DEF ObservationsBody
<1>2. new.body = body /\ Verifies(new, index)
    BY SealIntact
<1> HIDE DEF body
<1>3. VerifyObservations(new, index)
    BY <1>1, <1>2 DEF Verifies, VerifyPossibility, VerifyComparison, VerifyConsequences
<1>4. index = home
    <2>1. new.body.frozen_index_hash = index.hash
        BY <1>3, ObservationShape
    <2>2. record.body.frozen_index_hash = home.hash
        BY ObservationShape
    <2>3. QED
        BY <1>1, <1>2, <2>1, <2>2
<1>5. new = record
    BY <1>1, <1>2, <1>3, <1>4 DEF VerifyObservations
<1>6. record.body.type = "missing_observation"
    BY DEF VerifyObservations
<1>7. Outcome(record) = record.body.coverage
    BY <1>6 DEF Outcome
<1>8. QED
    <2>1. outcome = record.body.coverage
        BY <1>1, <1>2, <1>5
    <2>2. record.body.frozen_index_hash = index.hash
        BY <1>4, ObservationShape
    <2>3. QED
        BY <1>7, <2>1, <2>2

LEMMA ComparisonVerifiedWhereMade ==
    ASSUME NEW record, NEW home, VerifyComparison(record, home),
           NEW index, NEW outcome,
           Verifies(Seal(WithOutcome(record.body, outcome)), index),
           index.hash = home.hash => index = home
    PROVE  index.hash = record.body.frozen_index_hash /\ outcome = Outcome(record)
<1> DEFINE body == WithOutcome(record.body, outcome)
           new == Seal(body)
<1>1. /\ body.type = "comparison"
      /\ body.frozen_index_hash = record.body.frozen_index_hash
      /\ body.scope = record.body.scope
      /\ body.invariants = record.body.invariants
      /\ body.measures = record.body.measures
      /\ body.evidence = record.body.evidence
      /\ body.classification = outcome
    <2>1. record.body.type = "comparison" /\ ComparisonBody(record.body)
        BY ComparisonShape DEF ComparisonBody
    <2>2. body = [record.body EXCEPT !.classification = outcome]
        BY <2>1 DEF WithOutcome
    <2>3. QED
        BY <2>1, <2>2 DEF ComparisonBody
<1>2. new.body = body /\ Verifies(new, index)
    BY SealIntact
<1> HIDE DEF body
<1>3. VerifyComparison(new, index)
    BY <1>1, <1>2 DEF Verifies, VerifyPossibility, VerifyObservations, VerifyConsequences
<1>4. index = home
    <2>1. new.body.frozen_index_hash = index.hash
        BY <1>3, ComparisonShape
    <2>2. record.body.frozen_index_hash = home.hash
        BY ComparisonShape
    <2>3. QED
        BY <1>1, <1>2, <2>1, <2>2
<1>5. new = record
    BY <1>1, <1>2, <1>3, <1>4 DEF VerifyComparison
<1>6. record.body.type = "comparison"
    BY DEF VerifyComparison
<1>7. Outcome(record) = record.body.classification
    BY <1>6 DEF Outcome
<1>8. QED
    <2>1. outcome = record.body.classification
        BY <1>1, <1>2, <1>5
    <2>2. record.body.frozen_index_hash = index.hash
        BY <1>4, ComparisonShape
    <2>3. QED
        BY <1>7, <2>1, <2>2

LEMMA GateVerifiedWhereMade ==
    ASSUME NEW record, NEW home, VerifyConsequences(record, home),
           NEW index, NEW outcome,
           Verifies(Seal(WithOutcome(record.body, outcome)), index),
           index.hash = home.hash => index = home
    PROVE  index.hash = record.body.frozen_index_hash /\ outcome = Outcome(record)
<1> DEFINE body == WithOutcome(record.body, outcome)
           new == Seal(body)
<1>1. /\ body.type = "gate"
      /\ body.frozen_index_hash = record.body.frozen_index_hash
      /\ body.action = record.body.action
      /\ body.impact = record.body.impact
      /\ body.impact_evidence = record.body.impact_evidence
      /\ body.evidence = record.body.evidence
      /\ body.unknown_consequences = record.body.unknown_consequences
      /\ body.possibility_assessment = record.body.possibility_assessment
      /\ body.decision = outcome
    <2>1. record.body.type = "gate" /\ GateBody(record.body)
        BY GateShape DEF GateBody
    <2>2. body = [record.body EXCEPT !.decision = outcome]
        BY <2>1 DEF WithOutcome
    <2>3. QED
        BY <2>1, <2>2 DEF GateBody
<1>2. new.body = body /\ Verifies(new, index)
    BY SealIntact
<1> HIDE DEF body
<1>3. VerifyConsequences(new, index)
    BY <1>1, <1>2 DEF Verifies, VerifyPossibility, VerifyObservations, VerifyComparison
<1>4. index = home
    <2>1. new.body.frozen_index_hash = index.hash
        BY <1>3, GateShape
    <2>2. record.body.frozen_index_hash = home.hash
        BY GateShape
    <2>3. QED
        BY <1>1, <1>2, <2>1, <2>2
<1>5. new = record
    BY <1>1, <1>2, <1>3, <1>4 DEF VerifyConsequences
<1>6. record.body.type = "gate"
    BY DEF VerifyConsequences
<1>7. Outcome(record) = record.body.decision
    BY <1>6 DEF Outcome
<1>8. QED
    <2>1. outcome = record.body.decision
        BY <1>1, <1>2, <1>5
    <2>2. record.body.frozen_index_hash = index.hash
        BY <1>4, GateShape
    <2>3. QED
        BY <1>7, <2>1, <2>2

\* With its own outcome a record is what it was.
LEMMA OwnOutcome ==
    ASSUME NEW record, NEW index, Verifies(record, index)
    PROVE  Seal(WithOutcome(record.body, Outcome(record))) = record
<1>1. CASE VerifyPossibility(record, index)
    <2>1. record.body.type = "possibility" /\ PossibilityBody(record.body)
        <3>1. PossibilityBody(record.body)
            BY <1>1, PossibilityShape
        <3>2. QED
            BY <1>1, <3>1 DEF VerifyPossibility
    <2>2. Outcome(record) = record.body.assessment
        BY <2>1 DEF Outcome
    <2>3. WithOutcome(record.body, Outcome(record)) = [record.body EXCEPT !.assessment = @]
        BY <2>1, <2>2 DEF WithOutcome
    <2>4. WithOutcome(record.body, Outcome(record)) = record.body
        BY <2>1, <2>3 DEF PossibilityBody
    <2>5. QED
        BY <1>1, <2>4, PossibilityShape
<1>2. CASE VerifyObservations(record, index)
    <2>1. record.body.type = "missing_observation" /\ ObservationsBody(record.body)
        <3>1. ObservationsBody(record.body)
            BY <1>2, ObservationShape
        <3>2. QED
            BY <1>2, <3>1 DEF VerifyObservations
    <2>2. Outcome(record) = record.body.coverage
        BY <2>1 DEF Outcome
    <2>3. WithOutcome(record.body, Outcome(record)) = [record.body EXCEPT !.coverage = @]
        BY <2>1, <2>2 DEF WithOutcome
    <2>4. WithOutcome(record.body, Outcome(record)) = record.body
        BY <2>1, <2>3 DEF ObservationsBody
    <2>5. QED
        BY <1>2, <2>4, ObservationShape
<1>3. CASE VerifyComparison(record, index)
    <2>1. record.body.type = "comparison" /\ ComparisonBody(record.body)
        <3>1. ComparisonBody(record.body)
            BY <1>3, ComparisonShape
        <3>2. QED
            BY <1>3, <3>1 DEF VerifyComparison
    <2>2. Outcome(record) = record.body.classification
        BY <2>1 DEF Outcome
    <2>3. WithOutcome(record.body, Outcome(record)) = [record.body EXCEPT !.classification = @]
        BY <2>1, <2>2 DEF WithOutcome
    <2>4. WithOutcome(record.body, Outcome(record)) = record.body
        BY <2>1, <2>3 DEF ComparisonBody
    <2>5. QED
        BY <1>3, <2>4, ComparisonShape
<1>4. CASE VerifyConsequences(record, index)
    <2>1. record.body.type = "gate" /\ GateBody(record.body)
        <3>1. GateBody(record.body)
            BY <1>4, GateShape
        <3>2. QED
            BY <1>4, <3>1 DEF VerifyConsequences
    <2>2. Outcome(record) = record.body.decision
        BY <2>1 DEF Outcome
    <2>3. WithOutcome(record.body, Outcome(record)) = [record.body EXCEPT !.decision = @]
        BY <2>1, <2>2 DEF WithOutcome
    <2>4. WithOutcome(record.body, Outcome(record)) = record.body
        BY <2>1, <2>3 DEF GateBody
    <2>5. QED
        BY <1>4, <2>4, GateShape
<1>5. QED
    BY <1>1, <1>2, <1>3, <1>4 DEF Verifies

\* A record verifies under the published index it was made with and no other,
\* and with no outcome but its own.
THEOREM VerifiedWhereMadeAlways == Spec => []VerifiedWhereMade
<1>1. IInv => VerifiedWhereMade
    <2> SUFFICES ASSUME IInv, made # None,
                        NEW index \in Published, NEW outcome \in Outcomes(Kind)
                 PROVE  Verifies(Seal(WithOutcome(made.body, outcome)), index)
                            <=> /\ index.hash = made.body.frozen_index_hash
                                /\ outcome = Outcome(made)
        BY DEF VerifiedWhereMade
    <2> DEFINE home == IndexOf(made)
    <2>1. /\ home \in Published /\ home.hash = made.body.frozen_index_hash
          /\ Verifies(made, home)
        BY MadeVerifies
    <2> HIDE DEF home
    <2>2. index.hash = home.hash => index = home
        BY <2>1, OneIndex
    <2>3. ASSUME Verifies(Seal(WithOutcome(made.body, outcome)), index)
          PROVE  index.hash = made.body.frozen_index_hash /\ outcome = Outcome(made)
        <3>1. CASE VerifyPossibility(made, home)
            BY <2>2, <2>3, <3>1, PossibilityVerifiedWhereMade
        <3>2. CASE VerifyObservations(made, home)
            BY <2>2, <2>3, <3>2, ObservationsVerifiedWhereMade
        <3>3. CASE VerifyComparison(made, home)
            BY <2>2, <2>3, <3>3, ComparisonVerifiedWhereMade
        <3>4. CASE VerifyConsequences(made, home)
            BY <2>2, <2>3, <3>4, GateVerifiedWhereMade
        <3>5. QED
            BY <2>1, <3>1, <3>2, <3>3, <3>4 DEF Verifies
    <2>4. ASSUME index.hash = made.body.frozen_index_hash, outcome = Outcome(made)
          PROVE  Verifies(Seal(WithOutcome(made.body, outcome)), index)
        BY <2>1, <2>2, <2>4, OwnOutcome
    <2>5. QED
        BY <2>3, <2>4
<1>2. QED
    BY <1>1, InvariantHolds, PTL

-----------------------------------------------------------------------------
(* What makes a decision more permissive.                                  *)

\* What is at least as wide as an impact out of reach is out of reach.
LEMMA WiderReach ==
    ASSUME NEW impact \in Impacts, NEW wider \in AsWide(impact), OutOfReach(impact)
    PROVE  OutOfReach(wider)
BY DEF Impacts, AsWide, OutOfReach, Irreversible, PEOPLE, SYSTEMS, IRREVERSIBILITY,
       PEOPLE_SCOPES, SYSTEM_SCOPES, REVERSIBILITY

\* What keeps an impact in the sandbox keeps a wider one there, or further out.
LEMMA WiderUnresolved ==
    ASSUME NEW impact \in Impacts, NEW wider \in AsWide(impact), NEW unknowns, NEW others,
           Unresolved(impact, unknowns) # {}
    PROVE  OutOfReach(wider) \/ Unresolved(wider, unknowns \cup others) # {}
<1>1. \/ unknowns # {} \/ impact.people_scope = "GROUP" \/ impact.systems_scope = "EXTERNAL"
      \/ impact.reversibility = "COMPENSATABLE"
    BY DEF Unresolved
<1>2. \/ unknowns # {} \/ wider.people_scope = "GROUP" \/ wider.systems_scope = "EXTERNAL"
      \/ wider.reversibility = "COMPENSATABLE" \/ OutOfReach(wider)
    BY <1>1 DEF Impacts, AsWide, OutOfReach, Irreversible, PEOPLE, SYSTEMS, IRREVERSIBILITY,
                PEOPLE_SCOPES, SYSTEM_SCOPES, REVERSIBILITY
<1>3. QED
    BY <1>2 DEF Unresolved

\* The decision of the gate never rises with anything that is worse.
LEMMA DecisionMonotone ==
    ASSUME NEW assessment, NEW worse \in NoBetter(assessment),
           NEW missing, NEW more, NEW unknowns, NEW others,
           NEW impact \in Impacts, NEW wider \in AsWide(impact)
    PROVE  Rank[Decision(worse, missing \cup more, wider, unknowns \cup others)]
               <= Rank[Decision(assessment, missing, impact, unknowns)]
<1>1. /\ Rank["PROHIBITED"] = 0 /\ Rank["BLOCKED"] = 1
      /\ Rank["SANDBOX_ONLY"] = 2 /\ Rank["ELIGIBLE"] = 3
    BY DEF Rank
<1>2. CASE assessment = "IMPOSSIBLE_UNDER_CONSTRAINTS"
    <2>1. worse = assessment
        BY <1>2 DEF NoBetter
    <2>2. QED
        BY <1>1, <1>2, <2>1 DEF Decision
<1>3. CASE assessment \notin {"IMPOSSIBLE_UNDER_CONSTRAINTS", "POSSIBLE_WITHIN_CONSTRAINTS"}
    <2>1. worse \in ASSESSMENTS /\ worse # "POSSIBLE_WITHIN_CONSTRAINTS"
        BY <1>3 DEF NoBetter
    <2>2. Decision(worse, missing \cup more, wider, unknowns \cup others)
              \in {"PROHIBITED", "BLOCKED"}
        BY <2>1 DEF Decision
    <2>3. Decision(assessment, missing, impact, unknowns) = "BLOCKED"
        BY <1>3 DEF Decision
    <2>4. QED
        BY <1>1, <2>2, <2>3
<1>4. CASE assessment = "POSSIBLE_WITHIN_CONSTRAINTS"
    <2>1. CASE missing # {} \/ OutOfReach(impact)
        <3>1. Decision(assessment, missing, impact, unknowns) = "BLOCKED"
            BY <1>4, <2>1 DEF Decision
        <3>2. missing \cup more # {} \/ OutOfReach(wider)
            <4>1. OutOfReach(impact) => OutOfReach(wider)
                BY WiderReach
            <4>2. QED
                BY <2>1, <4>1
        <3>3. Decision(worse, missing \cup more, wider, unknowns \cup others)
                  \in {"PROHIBITED", "BLOCKED"}
            BY <1>4, <3>2 DEF Decision, NoBetter, ASSESSMENTS
        <3>4. QED
            BY <1>1, <3>1, <3>3
    <2>2. CASE ~(missing # {} \/ OutOfReach(impact)) /\ Unresolved(impact, unknowns) # {}
        <3>1. Decision(assessment, missing, impact, unknowns) = "SANDBOX_ONLY"
            BY <1>4, <2>2 DEF Decision
        <3>2. OutOfReach(wider) \/ Unresolved(wider, unknowns \cup others) # {}
            BY <2>2, WiderUnresolved
        <3>3. Decision(worse, missing \cup more, wider, unknowns \cup others)
                  \in {"PROHIBITED", "BLOCKED", "SANDBOX_ONLY"}
            BY <1>4, <3>2 DEF Decision, NoBetter, ASSESSMENTS
        <3>4. QED
            BY <1>1, <3>1, <3>3
    <2>3. CASE ~(missing # {} \/ OutOfReach(impact)) /\ Unresolved(impact, unknowns) = {}
        <3>1. Decision(assessment, missing, impact, unknowns) = "ELIGIBLE"
            BY <1>4, <2>3 DEF Decision
        <3>2. Decision(worse, missing \cup more, wider, unknowns \cup others)
                  \in {"PROHIBITED", "BLOCKED", "SANDBOX_ONLY", "ELIGIBLE"}
            BY <1>4 DEF Decision, NoBetter, ASSESSMENTS
        <3>3. QED
            BY <1>1, <3>1, <3>2
    <2>4. QED
        BY <2>1, <2>2, <2>3
<1>5. QED
    BY <1>2, <1>3, <1>4

\* Nothing that is worse, less known or wider makes a decision more permissive,
\* an assessment that was IMPOSSIBLE staying as it was.
THEOREM WorseNeverMorePermissiveAlways == Spec => []WorseNeverMorePermissive
<1>1. IInv => WorseNeverMorePermissive
    <2> SUFFICES ASSUME IInv, Kind = "gate" PROVE WorseNeverMorePermissive
        BY DEF WorseNeverMorePermissive
    <2> DEFINE home == IndexOf(made)
               replays == [field \in Fields |->
                              Replay(made.body.impact_evidence[field], made.body.evidence,
                                     home)]
               missing == ImpactUnknown(made.body.impact, made.body.impact_evidence, replays,
                                        made.body.evidence)
               possibility == made.body.possibility_assessment
    <2>1. made # None /\ made.body.type = "gate"
        BY DEF Kind
    <2>2. VerifyConsequences(made, home)
        BY <2>1, MadeVerifies DEF Verifies, VerifyPossibility, VerifyObservations,
                                  VerifyComparison
    <2>3. made.body.impact \in Impacts
        BY <2>2 DEF VerifyConsequences, MayAssessConsequences
    <2>4. made = GateRecord(made.body.action, made.body.impact, made.body.impact_evidence,
                            made.body.evidence, made.body.unknown_consequences, possibility,
                            home, missing)
        BY <2>2 DEF VerifyConsequences, AssessConsequences
    <2>5. made.body.decision = Decision(possibility.body.assessment, missing,
                                        made.body.impact, made.body.unknown_consequences)
        <3> HIDE DEF home, missing, possibility
        <3>1. PICK body :
                  /\ made = Seal(body)
                  /\ body.decision = Decision(possibility.body.assessment, missing,
                                              made.body.impact,
                                              made.body.unknown_consequences)
            BY <2>4 DEF GateRecord
        <3>2. QED
            BY <3>1, SealIntact
    <2>6. QED
        BY <2>3, <2>5, DecisionMonotone DEF WorseNeverMorePermissive
<1>2. QED
    BY <1>1, InvariantHolds, PTL
-----------------------------------------------------------------------------
(* What replaying reference lists returns.                                 *)

\* A record of kind "possibility" that was made verifies as a possibility
\* assessment under the index it names, and the same of the other kinds.
LEMMA MadeByKind ==
    ASSUME IInv
    PROVE  /\ Kind = "possibility" => VerifyPossibility(made, IndexOf(made))
           /\ Kind = "missing_observation" => VerifyObservations(made, IndexOf(made))
           /\ Kind = "comparison" => VerifyComparison(made, IndexOf(made))
           /\ Kind = "gate" => VerifyConsequences(made, IndexOf(made))
           /\ made # None =>
                 Kind \in {"possibility", "missing_observation", "comparison", "gate"}
<1>1. CASE made = None
    BY <1>1 DEF Kind
<1>2. CASE made # None
    <2> DEFINE home == IndexOf(made)
    <2>1. Kind = made.body.type
        BY <1>2 DEF Kind
    <2>2. Verifies(made, home)
        BY <1>2, MadeVerifies
    <2>3. CASE VerifyPossibility(made, home)
        <3>1. Kind = "possibility"
            BY <2>1, <2>3 DEF VerifyPossibility
        <3>2. QED
            BY <2>3, <3>1
    <2>4. CASE VerifyObservations(made, home)
        <3>1. Kind = "missing_observation"
            BY <2>1, <2>4 DEF VerifyObservations
        <3>2. QED
            BY <2>4, <3>1
    <2>5. CASE VerifyComparison(made, home)
        <3>1. Kind = "comparison"
            BY <2>1, <2>5 DEF VerifyComparison
        <3>2. QED
            BY <2>5, <3>1
    <2>6. CASE VerifyConsequences(made, home)
        <3>1. Kind = "gate"
            BY <2>1, <2>6 DEF VerifyConsequences
        <3>2. QED
            BY <2>6, <3>1
    <2>7. QED
        BY <2>2, <2>3, <2>4, <2>5, <2>6 DEF Verifies
<1>3. QED
    BY <1>1, <1>2

\* Whatever replays has one of the four results.
LEMMA ReplayedResult ==
    ASSUME NEW id, NEW index, Replays(id, index)
    PROVE  Items[id].receipt.body.result \in RESULTS
<1>1. id \in Recomputed
    BY DEF Replays
<1>2. MayRebuild(Items[id]) /\ Rebuilt(Items[id]) = Items[id].receipt
    BY <1>1 DEF Recomputed
<1>3. PICK type, matter, observed :
          Rebuilt(Items[id]).body.result = RunResult(type, matter, observed)
    <2>1. PICK body, type, matter, observed :
              Rebuilt(Items[id]) = Seal(body) /\ body.result = RunResult(type, matter, observed)
        BY DEF Rebuilt, Run, Receipt
    <2>2. QED
        BY <2>1, SealIntact
<1>4. RunResult(type, matter, observed) \in RESULTS
    <2>1. SourceResult(matter, observed) \in RESULTS
        <3>1. CASE observed = None
            BY <3>1 DEF SourceResult, RESULTS
        <3>2. CASE observed # None /\ Digest(observed) # matter.source_sha256
            BY <3>2 DEF SourceResult, RESULTS
        <3>3. CASE observed # None /\ Digest(observed) = matter.source_sha256
            BY <3>3 DEF SourceResult, RESULTS
        <3>4. QED
            BY <3>1, <3>2, <3>3
    <2>2. JsonResult(matter, observed) \in RESULTS
        <3>1. CASE observed = None
            BY <3>1 DEF JsonResult, RESULTS
        <3>2. CASE observed # None /\ Digest(observed) # matter.source_sha256
            BY <3>2 DEF JsonResult, RESULTS
        <3>3. CASE observed # None /\ Digest(observed) = matter.source_sha256
            BY <3>3 DEF JsonResult, RESULTS
        <3>4. QED
            BY <3>1, <3>2, <3>3
    <2>3. QED
        BY <2>1, <2>2 DEF RunResult
<1>5. QED
    BY <1>2, <1>3, <1>4

\* A list gives the results of all its references, of which there is one, or
\* none; when it gives them, every reference was replayed from what is supplied.
LEMMA ReplayIsAllOrNothing ==
    ASSUME NEW references, NEW evidence, NEW index
    PROVE  LET replay == Replay(references, evidence, index)
               cited == {references[i] : i \in DOMAIN references}
           IN  /\ replay.used \subseteq cited
               /\ replay.results \subseteq RESULTS
               /\ references = <<>> => replay.results = {}
               /\ replay.results # {} => replay.used = cited /\ cited \subseteq evidence
<1> DEFINE failing == Failing(references, evidence, index)
           replay == Replay(references, evidence, index)
           cited == {references[i] : i \in DOMAIN references}
<1>1. /\ replay.results = IF references # <<>> /\ failing = {} THEN Results(references) ELSE {}
      /\ replay.used =
             {references[i] : i \in {i \in DOMAIN references : \A j \in failing : i < j}}
    <2> HIDE DEF failing
    <2>1. replay = ReplayedUpTo(references, failing)
        BY DEF Replay, failing
    <2>2. QED
        BY <2>1 DEF ReplayedUpTo
<1>2. failing = {} =>
          \A i \in DOMAIN references : references[i] \in evidence /\ Replays(references[i], index)
    BY DEF Failing
<1>3. failing = {} => Results(references) \subseteq RESULTS
    BY <1>2, ReplayedResult DEF Results
<1> HIDE DEF failing, replay
<1>4. replay.used \subseteq cited /\ replay.results \subseteq RESULTS
    BY <1>1, <1>3
<1>5. replay.results # {} => references # <<>> /\ failing = {}
    BY <1>1
<1>6. failing = {} => replay.used = cited /\ cited \subseteq evidence
    BY <1>1, <1>2
<1>7. QED
    BY <1>4, <1>5, <1>6 DEF replay

-----------------------------------------------------------------------------
(* The possibility and the missing-observation assessments agree.          *)

\* What a possibility record says of its constraints.
LEMMA PossibilityDecides ==
    ASSUME NEW scope, NEW constraints, NEW replays, NEW evidence, NEW index
    PROVE  PossibilityRecord(scope, constraints, replays, evidence, index).body.assessment
               = Assessment(UnknownReasons(constraints, replays, evidence),
                            {item.kind : item \in BlockingConstraints(constraints, replays)})
BY DEF PossibilityRecord, Seal

\* What an observation record says of its observations.
LEMMA ObservationsDecide ==
    ASSUME NEW scope, NEW observations, NEW replays, NEW evidence, NEW index,
           NEW statuses, statuses = ObservationStatuses(observations, replays)
    PROVE  ObservationRecord(scope, observations, replays, evidence, index).body.coverage
               = Coverage(UnobservedReasons(statuses, replays, evidence), statuses)
BY DEF ObservationRecord, Seal

\* The statuses are those of the observations, one by one.
LEMMA StatusOfEach ==
    ASSUME NEW observations, NEW replays, NEW evidence
    PROVE  LET statuses == ObservationStatuses(observations, replays)
               StatusAt(i) == Status(observations[i].evidence, replays[i].results)
           IN  /\ AuditTargets(statuses) = {} <=>
                     \A i \in DOMAIN observations : StatusAt(i) = "OBSERVED"
               /\ UnobservedReasons(statuses, replays, evidence) = {} <=>
                     /\ \A i \in DOMAIN observations : StatusAt(i) # "UNKNOWN"
                     /\ Inexact(AllUsed(replays), evidence) = {}
<1> DEFINE statuses == ObservationStatuses(observations, replays)
           StatusAt(i) == Status(observations[i].evidence, replays[i].results)
<1>1. ASSUME NEW i \in DOMAIN observations
      PROVE  \E item \in statuses : item.status = StatusAt(i)
    <2> DEFINE item == [observation_id |-> observations[i].observation_id,
                        status |-> StatusAt(i)]
    <2>1. item \in statuses
        BY DEF ObservationStatuses
    <2>2. QED
        BY <2>1
<1>2. ASSUME NEW item \in statuses
      PROVE  \E i \in DOMAIN observations : item.status = StatusAt(i)
    <2>1. PICK i \in DOMAIN observations :
              item = [observation_id |-> observations[i].observation_id,
                      status |-> StatusAt(i)]
        BY DEF ObservationStatuses
    <2>2. QED
        BY <2>1
<1> HIDE DEF statuses, StatusAt
<1>3. AuditTargets(statuses) = {} <=>
          \A i \in DOMAIN observations : StatusAt(i) = "OBSERVED"
    <2>1. AuditTargets(statuses) = {} <=> \A item \in statuses : item.status = "OBSERVED"
        BY DEF AuditTargets
    <2>2. QED
        BY <1>1, <1>2, <2>1
<1>4. UnobservedReasons(statuses, replays, evidence) = {} <=>
          /\ \A item \in statuses : item.status # "UNKNOWN"
          /\ Inexact(AllUsed(replays), evidence) = {}
    BY DEF UnobservedReasons
<1>5. (\A item \in statuses : item.status # "UNKNOWN") <=>
          \A i \in DOMAIN observations : StatusAt(i) # "UNKNOWN"
    BY <1>1, <1>2
<1>6. QED
    BY <1>3, <1>4, <1>5 DEF statuses, StatusAt

\* Read as observations, the constraints' references are replayed alike.
LEMMA ReadAlike ==
    ASSUME NEW record, NEW home, VerifyPossibility(record, home),
           NEW observations,
           observations = [i \in DOMAIN record.body.constraints |->
                              [observation_id |-> record.body.constraints[i].constraint_id,
                               evidence |-> record.body.constraints[i].evidence]],
           NEW coverage,
           coverage = AssessObservations(record.body.scope, observations, record.body.evidence,
                                         home).body.coverage
    PROVE  /\ record.body.assessment = "POSSIBLE_WITHIN_CONSTRAINTS"
                 <=> coverage = "COMPLETE_DECLARED_SCOPE"
           /\ coverage = "UNKNOWN" => record.body.assessment = "UNKNOWN"
<1> DEFINE constraints == record.body.constraints
           evidence == record.body.evidence
           replays == [i \in DOMAIN constraints |->
                          Replay(constraints[i].evidence, evidence, home)]
           unknown == UnknownReasons(constraints, replays, evidence)
           kinds == {item.kind : item \in BlockingConstraints(constraints, replays)}
           statuses == ObservationStatuses(observations, replays)
           unobserved == UnobservedReasons(statuses, replays, evidence)
<1>1. record.body.assessment = Assessment(unknown, kinds)
    <2>1. record = PossibilityRecord(record.body.scope, constraints, replays, evidence, home)
        BY DEF VerifyPossibility, AssessPossibility
    <2> HIDE DEF replays, constraints, evidence
    <2>2. QED
        BY <2>1, PossibilityDecides
<1>2. DOMAIN observations = DOMAIN constraints
      /\ \A i \in DOMAIN constraints : observations[i].evidence = constraints[i].evidence
    OBVIOUS
<1>3. coverage = Coverage(unobserved, statuses)
    <2>1. replays = [i \in DOMAIN observations |->
                        Replay(observations[i].evidence, evidence, home)]
        BY <1>2
    <2> HIDE DEF replays, evidence
    <2>2. AssessObservations(record.body.scope, observations, evidence, home)
              = ObservationRecord(record.body.scope, observations, replays, evidence, home)
        BY <2>1 DEF AssessObservations
    <2>3. QED
        BY <2>2, ObservationsDecide DEF evidence
<1>4. ASSUME NEW i \in DOMAIN constraints
      PROVE  /\ replays[i].results \subseteq RESULTS
             /\ constraints[i].evidence = <<>> => replays[i].results = {}
    <2>1. replays[i] = Replay(constraints[i].evidence, evidence, home)
        OBVIOUS
    <2>2. QED
        BY <2>1, ReplayIsAllOrNothing
<1>5. \A i \in DOMAIN constraints : constraints[i].kind \in CONSTRAINT_KINDS
    BY DEF VerifyPossibility, MayAssessPossibility
<1> HIDE DEF replays, constraints, evidence
<1>6. kinds \subseteq CONSTRAINT_KINDS
    BY <1>5 DEF BlockingConstraints
<1>7. unknown = {} <=> /\ \A i \in DOMAIN constraints : ~Undecided(replays[i].results)
                       /\ Inexact(AllUsed(replays), evidence) = {}
    BY DEF UnknownReasons
<1>8. kinds = {} <=> \A i \in DOMAIN constraints : ~Contradicted(replays[i].results)
    BY DEF BlockingConstraints
<1>9. ASSUME NEW i \in DOMAIN constraints
      PROVE  LET status == Status(observations[i].evidence, replays[i].results)
             IN  /\ status = "OBSERVED" <=> ~Undecided(replays[i].results)
                                             /\ ~Contradicted(replays[i].results)
                 /\ status = "UNKNOWN" => Undecided(replays[i].results)
    <2> DEFINE references == constraints[i].evidence
               results == replays[i].results
               status == Status(references, results)
    <2>0. observations[i].evidence = references
        BY <1>2
    <2>1. results \subseteq RESULTS /\ (references = <<>> => results = {})
        BY <1>4
    <2> HIDE DEF references, results
    <2>2. CASE references = <<>>
        <3>1. Undecided(results) /\ ~Contradicted(results) /\ ~AllHeld(results)
            BY <2>1, <2>2 DEF Undecided, Contradicted, AllHeld
        <3>2. status = "MISSING"
            BY <2>2, <3>1 DEF Status
        <3>3. QED
            BY <2>0, <3>1, <3>2 DEF results
    <2>3. CASE references # <<>> /\ Undecided(results)
        <3>1. ~Contradicted(results) /\ ~AllHeld(results)
            BY <2>3 DEF Undecided, Contradicted, AllHeld
        <3>2. status = "UNKNOWN"
            BY <2>3, <3>1 DEF Status
        <3>3. QED
            BY <2>0, <2>3, <3>2 DEF results
    <2>4. CASE references # <<>> /\ Contradicted(results)
        <3>1. ~Undecided(results) /\ ~AllHeld(results)
            BY <2>4 DEF Undecided, Contradicted, AllHeld
        <3>2. status = "CONTRADICTED"
            BY <2>4, <3>1 DEF Status
        <3>3. QED
            BY <2>0, <2>4, <3>1, <3>2 DEF results
    <2>5. CASE references # <<>> /\ ~Undecided(results) /\ ~Contradicted(results)
        <3>1. AllHeld(results)
            BY <2>1, <2>5 DEF Undecided, Contradicted, AllHeld, RESULTS
        <3>2. status = "OBSERVED"
            BY <2>5, <3>1 DEF Status
        <3>3. QED
            BY <2>0, <2>5, <3>2 DEF results
    <2>6. QED
        BY <2>2, <2>3, <2>4, <2>5
<1>10. /\ AuditTargets(statuses) = {} <=>
             \A i \in DOMAIN observations :
                 Status(observations[i].evidence, replays[i].results) = "OBSERVED"
       /\ unobserved = {} <=>
             /\ \A i \in DOMAIN observations :
                    Status(observations[i].evidence, replays[i].results) # "UNKNOWN"
             /\ Inexact(AllUsed(replays), evidence) = {}
    BY StatusOfEach
<1> HIDE DEF unknown, kinds, statuses, unobserved
<1>11. /\ unknown = {} /\ kinds = {} <=> unobserved = {} /\ AuditTargets(statuses) = {}
       /\ unobserved # {} => unknown # {}
    BY <1>2, <1>7, <1>8, <1>9, <1>10
<1>12. /\ Assessment(unknown, kinds) = "POSSIBLE_WITHIN_CONSTRAINTS"
             <=> unknown = {} /\ kinds = {}
       /\ unknown # {} => Assessment(unknown, kinds) = "UNKNOWN"
    <2>1. CASE unknown # {}
        BY <2>1 DEF Assessment
    <2>2. CASE unknown = {} /\ "LOGICAL" \in kinds
        BY <2>2 DEF Assessment
    <2>3. CASE unknown = {} /\ "LOGICAL" \notin kinds /\ "SCOPE" \in kinds
        BY <2>3 DEF Assessment
    <2>4. CASE unknown = {} /\ kinds = {"RESOURCE"}
        BY <2>4 DEF Assessment
    <2>5. CASE unknown = {} /\ kinds = {}
        BY <2>5 DEF Assessment
    <2>6. QED
        BY <1>6, <2>1, <2>2, <2>3, <2>4, <2>5 DEF CONSTRAINT_KINDS
<1>13. /\ Coverage(unobserved, statuses) = "COMPLETE_DECLARED_SCOPE"
             <=> unobserved = {} /\ AuditTargets(statuses) = {}
       /\ Coverage(unobserved, statuses) = "UNKNOWN" => unobserved # {}
    <2>1. CASE unobserved # {}
        BY <2>1 DEF Coverage
    <2>2. CASE unobserved = {} /\ AuditTargets(statuses) # {}
        BY <2>2 DEF Coverage
    <2>3. CASE unobserved = {} /\ AuditTargets(statuses) = {}
        BY <2>3 DEF Coverage
    <2>4. QED
        BY <2>1, <2>2, <2>3
<1>14. QED
    BY <1>1, <1>3, <1>11, <1>12, <1>13

\* The two assessors, written apart, decide the references alike that both take.
THEOREM AssessorsAgreeAlways == Spec => []AssessorsAgree
<1>1. IInv => AssessorsAgree
    <2> SUFFICES ASSUME IInv, Kind = "possibility" PROVE AssessorsAgree
        BY DEF AssessorsAgree
    <2>1. VerifyPossibility(made, IndexOf(made))
        BY MadeByKind
    <2>2. made.body.type = "possibility"
        BY <2>1 DEF VerifyPossibility
    <2>3. Outcome(made) = made.body.assessment
        BY <2>2 DEF Outcome
    <2>4. QED
        BY <2>1, <2>3, ReadAlike DEF AssessorsAgree
<1>2. QED
    BY <1>1, InvariantHolds, PTL
-----------------------------------------------------------------------------
(* Evidence that is cited nowhere.                                         *)

\* What several lists cite, and what replaying each of them returns.
CitedIn(lists) == UNION {{lists[d][i] : i \in DOMAIN lists[d]} : d \in DOMAIN lists}
ReplayAll(lists, evidence, index) ==
    [d \in DOMAIN lists |-> Replay(lists[d], evidence, index)]

\* What replaying lists uses is cited in them, and when every list that has
\* references gives results, all that is cited is supplied and used.
LEMMA InexactWhenUncited ==
    ASSUME NEW lists, NEW evidence, NEW index,
           NEW replays, replays = ReplayAll(lists, evidence, index)
    PROVE  /\ ~(evidence \subseteq CitedIn(lists))
                  => NOT_EXACT \in Inexact(AllUsed(replays), evidence)
           /\ /\ \A d \in DOMAIN lists : lists[d] = <<>> \/ replays[d].results # {}
              /\ NOT_EXACT \in Inexact(AllUsed(replays), evidence)
              => ~(evidence \subseteq CitedIn(lists))
<1> DEFINE cited == CitedIn(lists)
           Cited(d) == {lists[d][i] : i \in DOMAIN lists[d]}
<1>1. ASSUME NEW d \in DOMAIN lists
      PROVE  /\ replays[d].used \subseteq Cited(d)
             /\ lists[d] = <<>> \/ replays[d].results # {} =>
                    replays[d].used = Cited(d) /\ Cited(d) \subseteq evidence
    <2>1. replays[d] = Replay(lists[d], evidence, index)
        BY DEF ReplayAll
    <2>2. lists[d] = <<>> => Cited(d) = {}
        OBVIOUS
    <2>3. /\ replays[d].used \subseteq Cited(d)
          /\ replays[d].results # {} =>
                 replays[d].used = Cited(d) /\ Cited(d) \subseteq evidence
        <3> HIDE DEF Cited
        <3>1. QED
            BY <2>1, ReplayIsAllOrNothing DEF Cited
    <2> HIDE DEF Cited
    <2>4. QED
        BY <2>2, <2>3
<1>2. cited = UNION {Cited(d) : d \in DOMAIN lists}
    BY DEF CitedIn
<1>3. AllUsed(replays) = UNION {replays[d].used : d \in DOMAIN lists}
    BY DEF AllUsed, ReplayAll
<1> HIDE DEF Cited, cited
<1>4. AllUsed(replays) \subseteq cited
    BY <1>1, <1>2, <1>3
<1>5. (\A d \in DOMAIN lists : lists[d] = <<>> \/ replays[d].results # {})
          => AllUsed(replays) = cited /\ cited \subseteq evidence
    BY <1>1, <1>2, <1>3
<1>6. NOT_EXACT \in Inexact(AllUsed(replays), evidence) <=> AllUsed(replays) # evidence
    BY DEF Inexact
<1>7. QED
    BY <1>4, <1>5, <1>6 DEF cited

\* Reasons of different names are different.
LEMMA ReasonsDiffer ==
    ASSUME NEW reason, reason # "evidence_set_not_exact", NEW identifier
    PROVE  Reason(reason, identifier) # NOT_EXACT
<1>1. Reason(reason, identifier).reason = reason /\ NOT_EXACT.reason = "evidence_set_not_exact"
    BY DEF Reason, NOT_EXACT
<1>2. QED
    BY <1>1

\* Each kind of record reports the evidence that its lists do not cite.
LEMMA PossibilityReportsUncited ==
    ASSUME NEW record, NEW home, VerifyPossibility(record, home)
    PROVE  /\ ~(record.body.evidence \subseteq CitedIds(record))
                  => NOT_EXACT \in record.body.unknown_reasons
           /\ record.body.unknown_reasons = {NOT_EXACT}
                  => ~(record.body.evidence \subseteq CitedIds(record))
<1> DEFINE constraints == record.body.constraints
           evidence == record.body.evidence
           lists == [i \in DOMAIN constraints |-> constraints[i].evidence]
           replays == [i \in DOMAIN lists |-> Replay(lists[i], evidence, home)]
           inexact == Inexact(AllUsed(replays), evidence)
           undecided == {Reason("constraint_evidence_incomplete", constraints[i].constraint_id) :
                            i \in {i \in DOMAIN constraints : Undecided(replays[i].results)}}
<1>1. record.body.unknown_reasons = undecided \cup inexact
    <2>1. replays = [i \in DOMAIN constraints |->
                        Replay(constraints[i].evidence, evidence, home)]
        OBVIOUS
    <2>2. record = PossibilityRecord(record.body.scope, constraints, replays, evidence, home)
        BY <2>1 DEF VerifyPossibility, AssessPossibility
    <2> HIDE DEF replays, lists
    <2>3. record.body.unknown_reasons = UnknownReasons(constraints, replays, evidence)
        BY <2>2 DEF PossibilityRecord, Seal
    <2>4. QED
        BY <2>3 DEF UnknownReasons
<1>2. CitedIds(record) = CitedIn(lists)
    <2>1. record.body.type = "possibility"
        BY DEF VerifyPossibility
    <2>2. ReferenceLists(record) = {lists[d] : d \in DOMAIN lists}
        BY <2>1 DEF ReferenceLists, Declared
    <2> HIDE DEF lists
    <2>3. QED
        BY <2>2 DEF CitedIds, CitedIn
<1>3. /\ ~(evidence \subseteq CitedIds(record)) => NOT_EXACT \in inexact
      /\ /\ \A d \in DOMAIN lists : lists[d] = <<>> \/ replays[d].results # {}
         /\ NOT_EXACT \in inexact
         => ~(evidence \subseteq CitedIds(record))
    <2>1. replays = ReplayAll(lists, evidence, home)
        BY DEF ReplayAll
    <2> HIDE DEF lists, evidence, replays
    <2>2. QED
        BY <1>2, <2>1, InexactWhenUncited
<1>4. undecided \subseteq {NOT_EXACT} =>
          \A d \in DOMAIN lists : replays[d].results # {}
    <2> SUFFICES ASSUME undecided \subseteq {NOT_EXACT}, NEW d \in DOMAIN lists,
                        replays[d].results = {}
                 PROVE  FALSE
        OBVIOUS
    <2>1. d \in DOMAIN constraints /\ Undecided(replays[d].results)
        BY DEF Undecided
    <2> HIDE DEF replays, lists
    <2>2. Reason("constraint_evidence_incomplete", constraints[d].constraint_id) \in undecided
        BY <2>1
    <2>3. QED
        BY <2>2, ReasonsDiffer
<1>5. NOT_EXACT \notin undecided
    <2> HIDE DEF replays, lists
    <2>1. QED
        BY ReasonsDiffer
<1> HIDE DEF undecided, inexact, replays
<1>6. QED
    BY <1>1, <1>3, <1>4, <1>5

LEMMA ObservationsReportUncited ==
    ASSUME NEW record, NEW home, VerifyObservations(record, home)
    PROVE  /\ ~(record.body.evidence \subseteq CitedIds(record))
                  => NOT_EXACT \in record.body.unknown_reasons
           /\ record.body.unknown_reasons = {NOT_EXACT}
                  => ~(record.body.evidence \subseteq CitedIds(record))
<1> DEFINE observations == record.body.required_observations
           evidence == record.body.evidence
           lists == [i \in DOMAIN observations |-> observations[i].evidence]
           replays == [i \in DOMAIN lists |-> Replay(lists[i], evidence, home)]
           statuses == ObservationStatuses(observations, replays)
           inexact == Inexact(AllUsed(replays), evidence)
           invalid == {Reason("observation_evidence_invalid", item.observation_id) :
                          item \in {item \in statuses : item.status = "UNKNOWN"}}
<1>1. record.body.unknown_reasons = invalid \cup inexact
    <2>1. replays = [i \in DOMAIN observations |->
                        Replay(observations[i].evidence, evidence, home)]
        OBVIOUS
    <2>2. record = ObservationRecord(record.body.scope, observations, replays, evidence, home)
        BY <2>1 DEF VerifyObservations, AssessObservations
    <2> HIDE DEF replays, lists
    <2>3. record.body.unknown_reasons = UnobservedReasons(statuses, replays, evidence)
        BY <2>2 DEF ObservationRecord, Seal
    <2>4. QED
        BY <2>3 DEF UnobservedReasons
<1>2. CitedIds(record) = CitedIn(lists)
    <2>1. record.body.type = "missing_observation"
        BY DEF VerifyObservations
    <2>2. ReferenceLists(record) = {lists[d] : d \in DOMAIN lists}
        BY <2>1 DEF ReferenceLists, Declared
    <2> HIDE DEF lists
    <2>3. QED
        BY <2>2 DEF CitedIds, CitedIn
<1>3. /\ ~(evidence \subseteq CitedIds(record)) => NOT_EXACT \in inexact
      /\ /\ \A d \in DOMAIN lists : lists[d] = <<>> \/ replays[d].results # {}
         /\ NOT_EXACT \in inexact
         => ~(evidence \subseteq CitedIds(record))
    <2>1. replays = ReplayAll(lists, evidence, home)
        BY DEF ReplayAll
    <2> HIDE DEF lists, evidence, replays
    <2>2. QED
        BY <1>2, <2>1, InexactWhenUncited
<1>4. invalid \subseteq {NOT_EXACT} =>
          \A d \in DOMAIN lists : lists[d] = <<>> \/ replays[d].results # {}
    <2> SUFFICES ASSUME invalid \subseteq {NOT_EXACT}, NEW d \in DOMAIN lists,
                        lists[d] # <<>>, replays[d].results = {}
                 PROVE  FALSE
        OBVIOUS
    <2>1. d \in DOMAIN observations /\ observations[d].evidence = lists[d]
        OBVIOUS
    <2>2. Undecided(replays[d].results) /\ ~Contradicted(replays[d].results)
          /\ ~AllHeld(replays[d].results)
        BY DEF Undecided, Contradicted, AllHeld
    <2> HIDE DEF replays, lists, observations
    <2>3. Status(observations[d].evidence, replays[d].results) = "UNKNOWN"
        BY <2>1, <2>2 DEF Status
    <2> DEFINE item == [observation_id |-> observations[d].observation_id,
                        status |-> Status(observations[d].evidence, replays[d].results)]
    <2>4. item \in statuses
        BY <2>1 DEF ObservationStatuses
    <2>5. item.status = "UNKNOWN"
        BY <2>3
    <2> HIDE DEF item, statuses
    <2>6. Reason("observation_evidence_invalid", item.observation_id) \in invalid
        BY <2>4, <2>5
    <2>7. QED
        BY <2>6, ReasonsDiffer
<1>5. NOT_EXACT \notin invalid
    <2> HIDE DEF statuses
    <2>1. QED
        BY ReasonsDiffer
<1> HIDE DEF invalid, inexact, replays
<1>6. QED
    BY <1>1, <1>3, <1>4, <1>5

LEMMA ComparisonReportsUncited ==
    ASSUME NEW record, NEW home, VerifyComparison(record, home)
    PROVE  /\ ~(record.body.evidence \subseteq CitedIds(record))
                  => NOT_EXACT \in record.body.unknown_reasons
           /\ record.body.unknown_reasons = {NOT_EXACT}
                  => ~(record.body.evidence \subseteq CitedIds(record))
<1> DEFINE invariants == record.body.invariants
           measures == record.body.measures
           criteria == Criteria(invariants, measures)
           evidence == record.body.evidence
           lists == [i \in DOMAIN criteria |-> criteria[i].evidence]
           replays == [i \in DOMAIN lists |-> Replay(lists[i], evidence, home)]
           inexact == Inexact(AllUsed(replays), evidence)
           incomplete == {Reason("evidence_incomplete", criteria[i].name) :
                             i \in {i \in DOMAIN replays : ~AllHeld(replays[i].results)}}
           baseline == {Reason("baseline_invariant_not_established", invariants[i].name) :
                           i \in {i \in DOMAIN invariants : ~invariants[i].baseline_holds}}
<1>1. record.body.unknown_reasons = incomplete \cup baseline \cup inexact
    <2>1. replays = [i \in DOMAIN criteria |->
                        Replay(criteria[i].evidence, evidence, home)]
        OBVIOUS
    <2>2. record = ComparisonRecord(record.body.scope, invariants, measures, replays, evidence,
                                    home)
        BY <2>1 DEF VerifyComparison, CompareDirectional
    <2> HIDE DEF replays, lists
    <2>3. record.body.unknown_reasons = Uncompared(invariants, measures, replays, evidence)
        BY <2>2 DEF ComparisonRecord, Seal
    <2>4. QED
        BY <2>3 DEF Uncompared
<1>2. CitedIds(record) = CitedIn(lists)
    <2>1. record.body.type = "comparison"
        BY DEF VerifyComparison
    <2>2. ReferenceLists(record) = {lists[d] : d \in DOMAIN lists}
        BY <2>1 DEF ReferenceLists, Declared, Criteria
    <2> HIDE DEF lists
    <2>3. QED
        BY <2>2 DEF CitedIds, CitedIn
<1>3. /\ ~(evidence \subseteq CitedIds(record)) => NOT_EXACT \in inexact
      /\ /\ \A d \in DOMAIN lists : lists[d] = <<>> \/ replays[d].results # {}
         /\ NOT_EXACT \in inexact
         => ~(evidence \subseteq CitedIds(record))
    <2>1. replays = ReplayAll(lists, evidence, home)
        BY DEF ReplayAll
    <2> HIDE DEF lists, evidence, replays
    <2>2. QED
        BY <1>2, <2>1, InexactWhenUncited
<1>4. incomplete \subseteq {NOT_EXACT} =>
          \A d \in DOMAIN lists : replays[d].results # {}
    <2> SUFFICES ASSUME incomplete \subseteq {NOT_EXACT}, NEW d \in DOMAIN lists,
                        replays[d].results = {}
                 PROVE  FALSE
        OBVIOUS
    <2>1. d \in DOMAIN replays /\ ~AllHeld(replays[d].results)
        BY DEF AllHeld
    <2> HIDE DEF replays, lists, criteria
    <2>2. Reason("evidence_incomplete", criteria[d].name) \in incomplete
        BY <2>1
    <2>3. QED
        BY <2>2, ReasonsDiffer
<1>5. NOT_EXACT \notin incomplete \cup baseline
    <2> HIDE DEF replays, lists, criteria
    <2>1. QED
        BY ReasonsDiffer
<1> HIDE DEF incomplete, baseline, inexact, replays, lists
<1>6. QED
    BY <1>1, <1>3, <1>4, <1>5

LEMMA GateReportsUncited ==
    ASSUME NEW record, NEW home, VerifyConsequences(record, home),
           record.body.possibility_assessment.body.assessment = "POSSIBLE_WITHIN_CONSTRAINTS"
    PROVE  /\ ~(record.body.evidence \subseteq CitedIds(record))
                  => NOT_EXACT \in record.body.reasons
           /\ record.body.reasons = {NOT_EXACT}
                  => ~(record.body.evidence \subseteq CitedIds(record))
<1> DEFINE impact == record.body.impact
           listed == record.body.impact_evidence
           evidence == record.body.evidence
           unknowns == record.body.unknown_consequences
           possibility == record.body.possibility_assessment
           lists == [field \in Fields |-> listed[field]]
           replays == [field \in DOMAIN lists |-> Replay(lists[field], evidence, home)]
           missing == ImpactUnknown(impact, listed, replays, evidence)
           inexact == Inexact(AllUsed(replays), evidence)
           incomplete == {Reason("impact_evidence_incomplete", field) :
                             field \in {field \in Fields : ~AllHeld(replays[field].results)}}
           unbound == {Reason("impact_evidence_unbound", field) :
                          field \in {field \in Fields :
                                        /\ AllHeld(replays[field].results)
                                        /\ Unbound(listed[field], field, impact[field])}}
<1>1. missing = incomplete \cup unbound \cup inexact
    <2> HIDE DEF replays, lists
    <2>1. QED
        BY DEF ImpactUnknown
<1>2. record.body.reasons = Reasons("POSSIBLE_WITHIN_CONSTRAINTS", missing, impact, unknowns)
    <2>1. replays = [field \in Fields |-> Replay(listed[field], evidence, home)]
        OBVIOUS
    <2>2. record = GateRecord(record.body.action, impact, listed, evidence, unknowns,
                              possibility, home, missing)
        BY <2>1 DEF VerifyConsequences, AssessConsequences
    <2> HIDE DEF replays, lists, missing
    <2>3. QED
        BY <2>2 DEF GateRecord, Seal
<1>3. CitedIds(record) = CitedIn(lists)
    <2>1. record.body.type = "gate"
        BY DEF VerifyConsequences
    <2>2. ReferenceLists(record) = {lists[d] : d \in DOMAIN lists}
        BY <2>1 DEF ReferenceLists
    <2> HIDE DEF lists
    <2>3. QED
        BY <2>2 DEF CitedIds, CitedIn
<1>4. /\ ~(evidence \subseteq CitedIds(record)) => NOT_EXACT \in inexact
      /\ /\ \A d \in DOMAIN lists : lists[d] = <<>> \/ replays[d].results # {}
         /\ NOT_EXACT \in inexact
         => ~(evidence \subseteq CitedIds(record))
    <2>1. replays = ReplayAll(lists, evidence, home)
        BY DEF ReplayAll
    <2> HIDE DEF lists, evidence, replays
    <2>2. QED
        BY <1>3, <2>1, InexactWhenUncited
<1>5. incomplete \subseteq {NOT_EXACT} =>
          \A d \in DOMAIN lists : replays[d].results # {}
    <2> SUFFICES ASSUME incomplete \subseteq {NOT_EXACT}, NEW d \in DOMAIN lists,
                        replays[d].results = {}
                 PROVE  FALSE
        OBVIOUS
    <2>1. d \in Fields /\ ~AllHeld(replays[d].results)
        BY DEF AllHeld
    <2> HIDE DEF replays, lists
    <2>2. Reason("impact_evidence_incomplete", d) \in incomplete
        BY <2>1
    <2>3. QED
        BY <2>2, ReasonsDiffer
<1>6. NOT_EXACT \notin incomplete \cup unbound
    <2> HIDE DEF replays, lists
    <2>1. QED
        BY ReasonsDiffer
<1> HIDE DEF incomplete, unbound, inexact, replays, lists, missing
<1>7. missing # {} => record.body.reasons = missing
    BY <1>2 DEF Reasons
<1>8. missing = {} => NOT_EXACT \notin record.body.reasons
    <2> SUFFICES ASSUME missing = {} PROVE NOT_EXACT \notin record.body.reasons
        OBVIOUS
    <2>1. ASSUME NEW reason \in record.body.reasons
          PROVE  \E name \in {"public_impact", "unbounded_impact", "reversibility",
                              "unresolved_consequences", "group_impact", "external_impact",
                              "compensatable"} :
                     \E identifier : reason = Reason(name, identifier)
        BY <1>2, <2>1 DEF Reasons, Unresolved
    <2>2. QED
        BY <2>1, ReasonsDiffer
<1>9. QED
    BY <1>1, <1>4, <1>5, <1>6, <1>7, <1>8

\* Whatever is supplied and cited nowhere is reported, but by a gate whose
\* proposal is not possible, and when the inexactness of the evidence is the only
\* reason, something really is cited nowhere.
THEOREM UncitedEvidenceReportedAlways == Spec => []UncitedEvidenceReported
<1>1. IInv => UncitedEvidenceReported
    <2> SUFFICES ASSUME IInv, made # None,
                        Kind = "gate" => made.body.possibility_assessment.body.assessment
                                             = "POSSIBLE_WITHIN_CONSTRAINTS"
                 PROVE  LET reasons == IF Kind = "gate" THEN made.body.reasons
                                       ELSE made.body.unknown_reasons
                        IN  /\ ~(made.body.evidence \subseteq CitedIds(made))
                                   => NOT_EXACT \in reasons
                            /\ reasons = {NOT_EXACT}
                                   => ~(made.body.evidence \subseteq CitedIds(made))
        BY DEF UncitedEvidenceReported
    <2>1. CASE Kind = "possibility"
        BY <2>1, MadeByKind, PossibilityReportsUncited
    <2>2. CASE Kind = "missing_observation"
        BY <2>2, MadeByKind, ObservationsReportUncited
    <2>3. CASE Kind = "comparison"
        BY <2>3, MadeByKind, ComparisonReportsUncited
    <2>4. CASE Kind = "gate"
        BY <2>4, MadeByKind, GateReportsUncited
    <2>5. QED
        BY <2>1, <2>2, <2>3, <2>4, MadeByKind
<1>2. QED
    BY <1>1, InvariantHolds, PTL
-----------------------------------------------------------------------------
(* Deciding again with another index.                                      *)

\* The versions are numbered from 1, and each holds the entries of those before.
Growing ==
    /\ published # <<>>
    /\ \A i \in DOMAIN published :
          /\ published[i].body.index_version = i
          /\ \A j \in 1..i : published[j].body.entries \subseteq published[i].body.entries

LEMMA GrowingInitially == Init => Growing
<1> SUFFICES ASSUME Init PROVE Growing
    OBVIOUS
<1>1. PICK body : published = <<Seal(body)>> /\ body.index_version = 1
    BY DEF Init, Index
<1>2. Seal(body).body.index_version = 1
    BY <1>1, SealIntact
<1> HIDE DEF Growing
<1>3. QED
    BY <1>1, <1>2 DEF Growing

LEMMA StepGrows == IInv /\ Growing /\ [Next]_vars => Growing'
<1> SUFFICES ASSUME IInv, Growing, [Next]_vars PROVE Growing'
    OBVIOUS
<1>1. CASE UNCHANGED published
    BY <1>1 DEF Growing
<1>2. ASSUME NEW entry, Extend(entry) PROVE Growing'
    <2> DEFINE last == Len(published)
               index == Extended(published[last], entry)
    <2>1. /\ index.body.entries = published[last].body.entries \cup {entry}
          /\ index.body.index_version = published[last].body.index_version + 1
        BY SealIntact DEF Extended, Index
    <2>2. published' = Append(published, index) /\ MayExtend(published[last], entry)
        BY <1>2 DEF Extend
    <2> HIDE DEF index
    <2>3. /\ published \in Seq(Published) /\ last \in Nat
          /\ DOMAIN published' = 1..(last + 1)
          /\ \A i \in 1..last : published'[i] = published[i]
          /\ published'[last + 1] = index
        <3>1. published \in Seq(Published \cup {index})
            BY DEF IInv
        <3>2. QED
            BY <2>2, <3>1 DEF IInv
    <2>4. DOMAIN published = 1..last
        BY <2>3
    <2>5. last \in DOMAIN published
        BY <2>3, <2>4 DEF Growing
    <2>6. /\ index.body.index_version = last + 1
          /\ \A j \in 1..last : published[j].body.entries \subseteq index.body.entries
        BY <2>1, <2>5 DEF Growing
    <2>7. ASSUME NEW i \in 1..(last + 1)
          PROVE  /\ published'[i].body.index_version = i
                 /\ \A j \in 1..i :
                       published'[j].body.entries \subseteq published'[i].body.entries
        <3>1. CASE i = last + 1
            BY <2>3, <2>6, <3>1
        <3>2. CASE i \in 1..last
            BY <2>3, <2>4, <3>2 DEF Growing
        <3>3. QED
            BY <2>3, <3>1, <3>2
    <2>8. published' # <<>>
        BY <2>3
    <2>9. QED
        BY <2>3, <2>7, <2>8 DEF Growing
<1>3. QED
    BY <1>1, <1>2 DEF Next, vars, Assess, Audit, Compare, Gate

\* The criteria of the record made are lists, and each has its fields.
Shaped ==
    /\ Kind = "possibility" => Formed(made.body.constraints, CONSTRAINT_FIELDS)
    /\ Kind = "missing_observation" =>
           Formed(made.body.required_observations, OBSERVATION_FIELDS)
    /\ Kind = "comparison" => /\ FormedComparison(made.body.invariants, made.body.measures)
                              /\ DOMAIN made.body.measures # {}

LEMMA StepShapes == Shaped /\ [Next]_vars => Shaped'
<1> SUFFICES ASSUME Shaped, [Next]_vars PROVE Shaped'
    OBVIOUS
<1>1. CASE UNCHANGED made
    BY <1>1 DEF Shaped, Kind
<1>2. ASSUME NEW proposal \in Proposals, NEW index, Assess(proposal, index) PROVE Shaped'
    <2>1. made'.body.type = "possibility" /\ made'.body.constraints = proposal.constraints
        BY <1>2 DEF Assess, AssessPossibility, PossibilityRecord, Seal
    <2>2. Formed(proposal.constraints, CONSTRAINT_FIELDS)
        BY DecisionAssumption
    <2>3. QED
        BY <2>1, <2>2 DEF Shaped, Kind
<1>3. ASSUME NEW audit \in Observations, NEW index, Audit(audit, index) PROVE Shaped'
    <2>1. /\ made'.body.type = "missing_observation"
          /\ made'.body.required_observations = audit.observations
        BY <1>3 DEF Audit, AssessObservations, ObservationRecord, Seal
    <2>2. Formed(audit.observations, OBSERVATION_FIELDS)
        BY DecisionAssumption
    <2>3. QED
        BY <2>1, <2>2 DEF Shaped, Kind
<1>4. ASSUME NEW comparison \in Comparisons, NEW index, Compare(comparison, index)
      PROVE  Shaped'
    <2> DEFINE invariants == comparison.invariants
               measures == comparison.measures
    <2>1. /\ made'.body.type = "comparison"
          /\ made'.body.invariants = invariants
          /\ made'.body.measures = measures
        BY <1>4 DEF Compare, CompareDirectional, ComparisonRecord, Seal
    <2>2. FormedComparison(invariants, measures)
        BY DecisionAssumption
    <2>3. DOMAIN measures # {}
        <3> HIDE DEF measures
        <3>1. measures # <<>>
            BY <1>4 DEF Compare, MayCompare, measures
        <3>2. measures \in Seq({measures[i] : i \in DOMAIN measures})
            BY <2>2 DEF FormedComparison, Formed, IsList
        <3>3. QED
            BY <3>1, <3>2
    <2>4. QED
        BY <2>1, <2>2, <2>3 DEF Shaped, Kind
<1>5. ASSUME NEW action, NEW index, Gate(action, index) PROVE Shaped'
    <2>1. made'.body.type = "gate"
        BY <1>5 DEF Gate, AssessConsequences, GateRecord, Seal
    <2>2. QED
        BY <2>1 DEF Shaped, Kind
<1>6. QED
    BY <1>1, <1>2, <1>3, <1>4, <1>5 DEF Next, vars, Extend

LEMMA GrowingHolds == Spec => [](IInv /\ Growing /\ Shaped)
<1>1. Init => Shaped
    BY DEF Init, Shaped, Kind
<1>2. QED
    BY <1>1, InitEstablishes, StepPreserves, GrowingInitially, StepGrows, StepShapes, PTL
    DEF Spec

\* An index of a version that is no lower holds every entry.
LEMMA LaterHoldsMore ==
    ASSUME IInv, Growing, NEW home \in Published, NEW index \in Published,
           index.body.index_version >= home.body.index_version
    PROVE  home.body.entries \subseteq index.body.entries
<1>1. DOMAIN published = 1..Len(published) /\ Len(published) \in Nat
    BY DEF IInv
<1>2. PICK i \in DOMAIN published : home = published[i]
    BY DEF Published
<1>3. PICK j \in DOMAIN published : index = published[j]
    BY DEF Published
<1>4. i \in Nat /\ j \in Nat /\ i >= 1 /\ j >= i
    BY <1>1, <1>2, <1>3 DEF Growing
<1>5. QED
    BY <1>2, <1>3, <1>4 DEF Growing

-----------------------------------------------------------------------------
\* The reference lists of criteria, and whether replaying them left none out.
ListsOf(criteria) == [i \in DOMAIN criteria |-> criteria[i].evidence]
Complete(lists, replays) ==
    \A d \in DOMAIN lists : lists[d] = <<>> \/ replays[d].results # {}

\* Lists that are complete with two indexes are replayed to the same with both.
LEMMA CompleteReplaysAlike ==
    ASSUME NEW lists, NEW evidence, NEW home, NEW index,
           Complete(lists, ReplayAll(lists, evidence, home)),
           Complete(lists, ReplayAll(lists, evidence, index))
    PROVE  ReplayAll(lists, evidence, index) = ReplayAll(lists, evidence, home)
<1>1. ASSUME NEW d \in DOMAIN lists, NEW one, Complete(lists, ReplayAll(lists, evidence, one))
      PROVE  Replay(lists[d], evidence, one) = ReplayedUpTo(lists[d], {})
    <2> DEFINE failing == Failing(lists[d], evidence, one)
    <2>1. ReplayAll(lists, evidence, one)[d] = Replay(lists[d], evidence, one)
        BY DEF ReplayAll
    <2>2. Replay(lists[d], evidence, one) = ReplayedUpTo(lists[d], failing)
        BY DEF Replay
    <2>3. CASE lists[d] = <<>>
        <3>1. failing = {}
            BY <2>3 DEF Failing
        <3>2. QED
            BY <2>2, <3>1
    <2>4. CASE ReplayAll(lists, evidence, one)[d].results # {}
        <3> HIDE DEF failing
        <3>1. ReplayedUpTo(lists[d], failing).results # {}
            BY <2>1, <2>2, <2>4
        <3>2. failing = {}
            BY <3>1 DEF ReplayedUpTo
        <3>3. QED
            BY <2>2, <3>2
    <2>5. QED
        BY <1>1, <2>3, <2>4 DEF Complete
<1>2. \A d \in DOMAIN lists : Replay(lists[d], evidence, index) = Replay(lists[d], evidence, home)
    BY <1>1
<1>3. QED
    BY <1>2 DEF ReplayAll

\* With a later index, lists whose items name their version stay complete.
LEMMA LaterStaysComplete ==
    ASSUME NEW lists, NEW evidence, NEW home, NEW index,
           home.body.entries \subseteq index.body.entries,
           \A id \in evidence : Items[id].check_version > 0,
           Complete(lists, ReplayAll(lists, evidence, home))
    PROVE  Complete(lists, ReplayAll(lists, evidence, index))
<1> SUFFICES ASSUME NEW d \in DOMAIN lists, lists[d] # <<>>
             PROVE  ReplayAll(lists, evidence, index)[d].results # {}
    BY DEF Complete
<1>1. ASSUME NEW one
      PROVE  ReplayAll(lists, evidence, one)[d].results # {} <=>
                 Failing(lists[d], evidence, one) = {} /\ Results(lists[d]) # {}
    <2>1. ReplayAll(lists, evidence, one)[d] =
              ReplayedUpTo(lists[d], Failing(lists[d], evidence, one))
        BY DEF ReplayAll, Replay
    <2>2. QED
        BY <2>1 DEF ReplayedUpTo
<1>2. Failing(lists[d], evidence, home) = {} /\ Results(lists[d]) # {}
    BY <1>1 DEF Complete
<1>3. ASSUME NEW id \in evidence, Replays(id, home)
      PROVE  Replays(id, index)
    <2>1. PICK entry \in Admitted(home, Items[id].check_id, Items[id].check_version) :
              ByProcedure(Items[id].receipt.body.method, entry.body.procedure)
        BY <1>3 DEF Replays
    <2>2. Items[id].check_version # 0
        OBVIOUS
    <2>3. entry \in Admitted(index, Items[id].check_id, Items[id].check_version)
        BY <2>1, <2>2 DEF Admitted, AdmittedVersion, OfCheck
    <2>4. QED
        BY <1>3, <2>1, <2>3 DEF Replays
<1>4. Failing(lists[d], evidence, index) = {}
    BY <1>2, <1>3 DEF Failing
<1>5. QED
    BY <1>1, <1>2, <1>4

\* The outcomes, from what the lists were replayed to.
PossibilityOutcome(constraints, replays, evidence) ==
    Assessment(UnknownReasons(constraints, replays, evidence),
               {item.kind : item \in BlockingConstraints(constraints, replays)})
ObservationOutcome(observations, replays, evidence) ==
    LET statuses == ObservationStatuses(observations, replays)
    IN  Coverage(UnobservedReasons(statuses, replays, evidence), statuses)
ComparisonOutcome(invariants, measures, replays, evidence) ==
    Classification(Uncompared(invariants, measures, replays, evidence), invariants, measures)

\* A decision of each kind is one of its outcomes, given by the replays alone,
\* and is UNKNOWN unless the replays are complete.
LEMMA PossibilityByReplays ==
    ASSUME NEW scope, NEW constraints, NEW evidence, NEW index,
           \A i \in DOMAIN constraints : constraints[i].kind \in CONSTRAINT_KINDS,
           NEW record, record = AssessPossibility(scope, constraints, evidence, index),
           NEW replays, replays = ReplayAll(ListsOf(constraints), evidence, index)
    PROVE  /\ Outcome(record) = PossibilityOutcome(constraints, replays, evidence)
           /\ Outcome(record) \in ASSESSMENTS
           /\ Outcome(record) # "UNKNOWN" => Complete(ListsOf(constraints), replays)
<1> DEFINE unknown == UnknownReasons(constraints, replays, evidence)
           kinds == {item.kind : item \in BlockingConstraints(constraints, replays)}
<1>1. replays = [i \in DOMAIN constraints |-> Replay(constraints[i].evidence, evidence, index)]
    BY DEF ReplayAll, ListsOf
<1>2. record = PossibilityRecord(scope, constraints, replays, evidence, index)
    BY <1>1 DEF AssessPossibility
<1>3. record.body.type = "possibility"
    BY <1>2 DEF PossibilityRecord, Seal
<1>4. Outcome(record) = record.body.assessment
    BY <1>3 DEF Outcome
<1>5. Outcome(record) = Assessment(unknown, kinds)
    BY <1>2, <1>4, PossibilityDecides
<1>6. kinds \subseteq CONSTRAINT_KINDS
    BY DEF BlockingConstraints
<1>7. ASSUME unknown = {} PROVE Complete(ListsOf(constraints), replays)
    <2> SUFFICES ASSUME NEW d \in DOMAIN constraints, replays[d].results = {} PROVE FALSE
        BY DEF Complete, ListsOf
    <2>1. Undecided(replays[d].results)
        BY DEF Undecided
    <2>2. QED
        BY <1>7, <2>1 DEF UnknownReasons
<1> HIDE DEF unknown, kinds
<1>8. /\ Assessment(unknown, kinds) \in ASSESSMENTS
      /\ Assessment(unknown, kinds) # "UNKNOWN" => unknown = {}
    <2>1. CASE unknown # {}
        BY <2>1 DEF Assessment, ASSESSMENTS
    <2>2. CASE unknown = {} /\ "LOGICAL" \in kinds
        BY <2>2 DEF Assessment, ASSESSMENTS
    <2>3. CASE unknown = {} /\ "LOGICAL" \notin kinds /\ "SCOPE" \in kinds
        BY <2>3 DEF Assessment, ASSESSMENTS
    <2>4. CASE unknown = {} /\ kinds = {"RESOURCE"}
        BY <2>4 DEF Assessment, ASSESSMENTS
    <2>5. CASE unknown = {} /\ kinds = {}
        BY <2>5 DEF Assessment, ASSESSMENTS
    <2>6. QED
        BY <1>6, <2>1, <2>2, <2>3, <2>4, <2>5 DEF CONSTRAINT_KINDS
<1>9. QED
    BY <1>5, <1>7, <1>8 DEF PossibilityOutcome, unknown, kinds

LEMMA ObservationsByReplays ==
    ASSUME NEW scope, NEW observations, NEW evidence, NEW index,
           NEW record, record = AssessObservations(scope, observations, evidence, index),
           NEW replays, replays = ReplayAll(ListsOf(observations), evidence, index)
    PROVE  /\ Outcome(record) = ObservationOutcome(observations, replays, evidence)
           /\ Outcome(record) \in {"UNKNOWN", "INCOMPLETE", "COMPLETE_DECLARED_SCOPE"}
           /\ Outcome(record) # "UNKNOWN" => Complete(ListsOf(observations), replays)
<1> DEFINE statuses == ObservationStatuses(observations, replays)
           unknown == UnobservedReasons(statuses, replays, evidence)
<1>1. replays = [i \in DOMAIN observations |-> Replay(observations[i].evidence, evidence, index)]
    BY DEF ReplayAll, ListsOf
<1>2. record = ObservationRecord(scope, observations, replays, evidence, index)
    BY <1>1 DEF AssessObservations
<1>3. record.body.type = "missing_observation"
    BY <1>2 DEF ObservationRecord, Seal
<1>4. Outcome(record) = record.body.coverage
    BY <1>3 DEF Outcome
<1>5. Outcome(record) = Coverage(unknown, statuses)
    BY <1>2, <1>4, ObservationsDecide
<1>6. ASSUME unknown = {} PROVE Complete(ListsOf(observations), replays)
    <2> SUFFICES ASSUME NEW d \in DOMAIN observations, observations[d].evidence # <<>>,
                        replays[d].results = {}
                 PROVE  FALSE
        BY DEF Complete, ListsOf
    <2>1. /\ Undecided(replays[d].results) /\ ~Contradicted(replays[d].results)
          /\ ~AllHeld(replays[d].results)
        BY DEF Undecided, Contradicted, AllHeld
    <2>2. Status(observations[d].evidence, replays[d].results) = "UNKNOWN"
        BY <2>1 DEF Status
    <2>3. QED
        BY <1>6, <2>2, StatusOfEach
<1> HIDE DEF unknown, statuses
<1>7. /\ Coverage(unknown, statuses) \in {"UNKNOWN", "INCOMPLETE", "COMPLETE_DECLARED_SCOPE"}
      /\ Coverage(unknown, statuses) # "UNKNOWN" => unknown = {}
    <2>1. CASE unknown # {}
        BY <2>1 DEF Coverage
    <2>2. CASE unknown = {} /\ AuditTargets(statuses) # {}
        BY <2>2 DEF Coverage
    <2>3. CASE unknown = {} /\ AuditTargets(statuses) = {}
        BY <2>3 DEF Coverage
    <2>4. QED
        BY <2>1, <2>2, <2>3
<1>8. QED
    BY <1>5, <1>6, <1>7 DEF ObservationOutcome, unknown, statuses

LEMMA ComparisonByReplays ==
    ASSUME NEW scope, NEW invariants, NEW measures, NEW evidence, NEW index,
           DOMAIN measures # {},
           NEW record, record = CompareDirectional(scope, invariants, measures, evidence, index),
           NEW criteria, criteria = Criteria(invariants, measures),
           NEW replays, replays = ReplayAll(ListsOf(criteria), evidence, index)
    PROVE  /\ Outcome(record) = ComparisonOutcome(invariants, measures, replays, evidence)
           /\ Outcome(record) \in {"UNKNOWN", "ADVANCED", "EQUIVALENT", "REGRESSED", "MIXED"}
           /\ Outcome(record) # "UNKNOWN" => Complete(ListsOf(criteria), replays)
<1> DEFINE unknown == Uncompared(invariants, measures, replays, evidence)
           signs == {Sign(measures[i]) : i \in DOMAIN measures}
<1>1. replays = [i \in DOMAIN criteria |-> Replay(criteria[i].evidence, evidence, index)]
    BY DEF ReplayAll, ListsOf
<1>2. record = ComparisonRecord(scope, invariants, measures, replays, evidence, index)
    BY <1>1 DEF CompareDirectional
<1>3. /\ record.body.type = "comparison"
      /\ record.body.classification = Classification(unknown, invariants, measures)
    BY <1>2 DEF ComparisonRecord, Seal
<1>4. Outcome(record) = Classification(unknown, invariants, measures)
    BY <1>3 DEF Outcome
<1>5. ASSUME unknown = {} PROVE Complete(ListsOf(criteria), replays)
    <2> SUFFICES ASSUME NEW d \in DOMAIN criteria, replays[d].results = {} PROVE FALSE
        BY DEF Complete, ListsOf
    <2>1. d \in DOMAIN replays /\ ~AllHeld(replays[d].results)
        BY <1>1 DEF AllHeld
    <2>2. QED
        BY <1>5, <2>1 DEF Uncompared
<1>6. signs \subseteq {-1, 0, 1} /\ signs # {}
    BY DEF Sign, SignOf
<1>7. Direction(signs) \in {"ADVANCED", "EQUIVALENT", "REGRESSED", "MIXED"}
    <2> HIDE DEF signs
    <2>1. CASE signs = {0}
        BY <2>1 DEF Direction
    <2>2. CASE signs \subseteq {0, 1} /\ 1 \in signs
        BY <2>2 DEF Direction
    <2>3. CASE signs \subseteq {-1, 0} /\ -1 \in signs
        BY <2>3 DEF Direction
    <2>4. CASE {-1, 1} \subseteq signs
        BY <2>4 DEF Direction
    <2>5. QED
        BY <1>6, <2>1, <2>2, <2>3, <2>4
<1> HIDE DEF unknown
<1>8. /\ Classification(unknown, invariants, measures)
            \in {"UNKNOWN", "ADVANCED", "EQUIVALENT", "REGRESSED", "MIXED"}
      /\ Classification(unknown, invariants, measures) # "UNKNOWN" => unknown = {}
    BY <1>7 DEF Classification
<1>9. QED
    BY <1>4, <1>5, <1>8 DEF ComparisonOutcome, unknown

\* Replays that a decision with a later index finds are those of the first one.
LEMMA LaterReplaysAlike ==
    ASSUME IInv, Growing, NEW home \in Published, NEW index \in Published,
           NEW lists, NEW evidence,
           Complete(lists, ReplayAll(lists, evidence, home)),
           index.body.index_version >= home.body.index_version,
           \A id \in evidence : Items[id].check_version > 0
    PROVE  ReplayAll(lists, evidence, index) = ReplayAll(lists, evidence, home)
<1>1. Complete(lists, ReplayAll(lists, evidence, index))
    BY LaterHoldsMore, LaterStaysComplete
<1>2. QED
    BY <1>1, CompleteReplaysAlike

\* Two indexes that both decide the same arguments decide them alike, and where
\* the items name the versions of their checks a later one decides what an
\* earlier one did.
THEOREM ExtensionNeverReversesAlways == Spec => []ExtensionNeverReverses
<1>1. IInv /\ Growing /\ Shaped => ExtensionNeverReverses
    <2> SUFFICES ASSUME IInv, Growing, Shaped, NEW index \in Published,
                        Kind \in {"possibility", "missing_observation", "comparison"}
                 PROVE  LET lasting ==
                                /\ index.body.index_version >= IndexOf(made).body.index_version
                                /\ \A id \in made.body.evidence : Items[id].check_version > 0
                        IN  Outcome(Redecided(made, index)) \in
                                IF Outcome(made) = "UNKNOWN" THEN Outcomes(Kind)
                                ELSE {Outcome(made)}
                                        \cup (IF lasting THEN {} ELSE {"UNKNOWN"})
        BY DEF ExtensionNeverReverses
    <2> DEFINE home == IndexOf(made)
               evidence == made.body.evidence
               again == Redecided(made, index)
               lasting == /\ index.body.index_version >= home.body.index_version
                          /\ \A id \in evidence : Items[id].check_version > 0
    <2>1. made # None /\ Kind = made.body.type
        BY DEF Kind
    <2>2. home \in Published
        BY <2>1, MadeVerifies
    <2> HIDE DEF home
    <2>3. CASE Kind = "possibility"
        <3> DEFINE constraints == made.body.constraints
                   lists == ListsOf(constraints)
                   before == ReplayAll(lists, evidence, home)
                   after == ReplayAll(lists, evidence, index)
        <3>1. VerifyPossibility(made, home)
            BY <2>3, MadeByKind DEF home
        <3>2. /\ made = AssessPossibility(made.body.scope, constraints, evidence, home)
              /\ \A i \in DOMAIN constraints : constraints[i].kind \in CONSTRAINT_KINDS
            BY <3>1 DEF VerifyPossibility, MayAssessPossibility
        <3>3. again = AssessPossibility(made.body.scope, constraints, evidence, index)
            BY <2>1, <2>3 DEF Redecided
        <3> HIDE DEF again, constraints, evidence
        <3>4. /\ Outcome(made) = PossibilityOutcome(constraints, before, evidence)
              /\ Outcome(made) # "UNKNOWN" => Complete(lists, before)
            BY <3>2, PossibilityByReplays
        <3>5. /\ Outcome(again) = PossibilityOutcome(constraints, after, evidence)
              /\ Outcome(again) \in ASSESSMENTS
              /\ Outcome(again) # "UNKNOWN" => Complete(lists, after)
            BY <3>2, <3>3, PossibilityByReplays
        <3>6. Complete(lists, before) /\ Complete(lists, after) => after = before
            BY CompleteReplaysAlike
        <3>7. Complete(lists, before) /\ lasting => after = before
            BY <2>2, LaterReplaysAlike
        <3>8. Outcomes(Kind) = ASSESSMENTS
            BY <2>3 DEF Outcomes
        <3> HIDE DEF before, after, lists, lasting
        <3>9. Outcome(again) \in IF Outcome(made) = "UNKNOWN" THEN Outcomes(Kind)
                                  ELSE {Outcome(made)} \cup (IF lasting THEN {} ELSE {"UNKNOWN"})
            BY <3>4, <3>5, <3>6, <3>7, <3>8
        <3>10. QED
            BY <3>9 DEF again, lasting, evidence, home
    <2>4. CASE Kind = "missing_observation"
        <3> DEFINE observations == made.body.required_observations
                   lists == ListsOf(observations)
                   before == ReplayAll(lists, evidence, home)
                   after == ReplayAll(lists, evidence, index)
        <3>1. VerifyObservations(made, home)
            BY <2>4, MadeByKind DEF home
        <3>2. made = AssessObservations(made.body.scope, observations, evidence, home)
            BY <3>1 DEF VerifyObservations
        <3>3. again = AssessObservations(made.body.scope, observations, evidence, index)
            BY <2>1, <2>4 DEF Redecided
        <3> HIDE DEF again, observations, evidence
        <3>4. /\ Outcome(made) = ObservationOutcome(observations, before, evidence)
              /\ Outcome(made) # "UNKNOWN" => Complete(lists, before)
            BY <3>2, ObservationsByReplays
        <3>5. /\ Outcome(again) = ObservationOutcome(observations, after, evidence)
              /\ Outcome(again) \in {"UNKNOWN", "INCOMPLETE", "COMPLETE_DECLARED_SCOPE"}
              /\ Outcome(again) # "UNKNOWN" => Complete(lists, after)
            BY <3>3, ObservationsByReplays
        <3>6. Complete(lists, before) /\ Complete(lists, after) => after = before
            BY CompleteReplaysAlike
        <3>7. Complete(lists, before) /\ lasting => after = before
            BY <2>2, LaterReplaysAlike
        <3>8. Outcomes(Kind) = {"UNKNOWN", "INCOMPLETE", "COMPLETE_DECLARED_SCOPE"}
            BY <2>4 DEF Outcomes
        <3> HIDE DEF before, after, lists, lasting
        <3>9. Outcome(again) \in IF Outcome(made) = "UNKNOWN" THEN Outcomes(Kind)
                                  ELSE {Outcome(made)} \cup (IF lasting THEN {} ELSE {"UNKNOWN"})
            BY <3>4, <3>5, <3>6, <3>7, <3>8
        <3>10. QED
            BY <3>9 DEF again, lasting, evidence, home
    <2>5. CASE Kind = "comparison"
        <3> DEFINE invariants == made.body.invariants
                   measures == made.body.measures
                   criteria == Criteria(invariants, measures)
                   lists == ListsOf(criteria)
                   before == ReplayAll(lists, evidence, home)
                   after == ReplayAll(lists, evidence, index)
        <3>1. VerifyComparison(made, home)
            BY <2>5, MadeByKind DEF home
        <3>2. /\ made = CompareDirectional(made.body.scope, invariants, measures, evidence, home)
              /\ DOMAIN measures # {}
            BY <2>5, <3>1 DEF VerifyComparison, Shaped
        <3>3. again = CompareDirectional(made.body.scope, invariants, measures, evidence, index)
            BY <2>1, <2>5 DEF Redecided
        <3> HIDE DEF again, invariants, measures, evidence
        <3>4. /\ Outcome(made) = ComparisonOutcome(invariants, measures, before, evidence)
              /\ Outcome(made) # "UNKNOWN" => Complete(lists, before)
            BY <3>2, ComparisonByReplays
        <3>5. /\ Outcome(again) = ComparisonOutcome(invariants, measures, after, evidence)
              /\ Outcome(again) \in {"UNKNOWN", "ADVANCED", "EQUIVALENT", "REGRESSED", "MIXED"}
              /\ Outcome(again) # "UNKNOWN" => Complete(lists, after)
            BY <3>2, <3>3, ComparisonByReplays
        <3>6. Complete(lists, before) /\ Complete(lists, after) => after = before
            BY CompleteReplaysAlike
        <3>7. Complete(lists, before) /\ lasting => after = before
            BY <2>2, LaterReplaysAlike
        <3>8. Outcomes(Kind) = {"UNKNOWN", "ADVANCED", "EQUIVALENT", "REGRESSED", "MIXED"}
            BY <2>5 DEF Outcomes
        <3> HIDE DEF before, after, lists, lasting
        <3>9. Outcome(again) \in IF Outcome(made) = "UNKNOWN" THEN Outcomes(Kind)
                                  ELSE {Outcome(made)} \cup (IF lasting THEN {} ELSE {"UNKNOWN"})
            BY <3>4, <3>5, <3>6, <3>7, <3>8
        <3>10. QED
            BY <3>9 DEF again, lasting, evidence, home
    <2>6. QED
        BY <2>3, <2>4, <2>5
<1>2. QED
    BY <1>1, GrowingHolds, PTL

-----------------------------------------------------------------------------
(* What a comparison says of the numbers.                                  *)

\* Rounding keeps the order.
LEMMA NearestIsMonotone ==
    ASSUME NEW left \in Int, NEW right \in Int, left <= right
    PROVE  Nearest(left) <= Nearest(right) /\ Nearest(left) \in Int /\ Nearest(right) \in Int
<1>1. ASSUME NEW value \in Int
      PROVE  /\ Nearest(value) \in Int
             /\ Nearest(value) \in {value - 1, value, value + 1}
             /\ Size(value) <= 8 => Nearest(value) = value
             /\ Nearest(value) # value => Nearest(value) % 4 = 0 /\ value % 2 = 1
             /\ Nearest(value) = value => Size(value) <= 8 \/ value % 2 = 0
    <2>1. value % 4 \in 0..3 /\ value % 2 \in 0..1
        OBVIOUS
    <2>2. value % 4 = 1 => value % 2 = 1 /\ (value - 1) % 4 = 0
        OBVIOUS
    <2>3. value % 2 = 1 /\ value % 4 # 1 => (value + 1) % 4 = 0
        OBVIOUS
    <2>4. CASE Size(value) <= 8 \/ value % 2 = 0
        BY <2>4 DEF Nearest, PRECISE
    <2>5. CASE ~(Size(value) <= 8) /\ value % 2 = 1
        BY <2>1, <2>2, <2>3, <2>5 DEF Nearest, PRECISE
    <2>6. QED
        BY <2>1, <2>4, <2>5
<1>2. CASE left = right
    BY <1>1, <1>2
<1>3. CASE left + 1 < right
    BY <1>1, <1>3
<1>4. CASE left + 1 = right
    <2>1. Nearest(left) \in {left - 1, left, left + 1}
        BY <1>1
    <2>2. Nearest(right) \in {right - 1, right, right + 1}
        BY <1>1
    <2>3. CASE Nearest(left) = left + 1 /\ Nearest(right) = right - 1
        <3>1. left % 2 = 1 /\ right % 2 = 1
            BY <1>1, <2>3
        <3>2. QED
            BY <1>4, <3>1
    <2>4. QED
        BY <1>1, <1>4, <2>1, <2>2, <2>3
<1>5. QED
    BY <1>1, <1>2, <1>3, <1>4

\* A sign is that of the exact difference, or zero where a number was rounded.
LEMMA SignIsExact ==
    ASSUME NEW measure, measure.direction \in DIRECTIONS,
           measure.baseline.value \in Int, measure.candidate.value \in Int
    PROVE  /\ Sign(measure) \in {-1, 0, 1} /\ Exactly(measure) \in {-1, 0, 1}
           /\ Sign(measure) \in {0, Exactly(measure)}
           /\ ~Mixed(measure) => Sign(measure) = Exactly(measure)
<1> DEFINE baseline == measure.baseline.value
           candidate == measure.candidate.value
           delta == Delta(measure)
           gain == candidate - baseline
<1>1. /\ delta \in Int
      /\ gain > 0 => delta >= 0
      /\ gain < 0 => delta <= 0
      /\ gain = 0 => delta = 0
      /\ ~Mixed(measure) => delta = gain
    <2>1. CASE Mixed(measure)
        <3>1. delta = Nearest(candidate) - Nearest(baseline)
            BY <2>1 DEF Delta
        <3>2. QED
            BY <2>1, <3>1, NearestIsMonotone
    <2>2. CASE ~Mixed(measure)
        BY <2>2 DEF Delta
    <2>3. QED
        BY <2>1, <2>2
<1>2. gain \in Int
    OBVIOUS
<1>3. /\ Sign(measure) =
             SignOf(IF measure.direction = "LOWER_IS_BETTER" THEN -delta ELSE delta)
      /\ Exactly(measure) =
             SignOf(IF measure.direction = "HIGHER_IS_BETTER" THEN gain ELSE -gain)
    BY DEF Sign, Exactly
<1> HIDE DEF delta, gain
<1>4. CASE measure.direction = "LOWER_IS_BETTER"
    BY <1>1, <1>2, <1>3, <1>4 DEF SignOf
<1>5. CASE measure.direction = "HIGHER_IS_BETTER"
    BY <1>1, <1>2, <1>3, <1>5 DEF SignOf
<1>6. QED
    BY <1>4, <1>5 DEF DIRECTIONS

\* The direction of a set of signs.
LEMMA DirectionOfSigns ==
    ASSUME NEW signs, signs \subseteq {-1, 0, 1}, signs # {}
    PROVE  /\ 1 \in signs /\ -1 \notin signs => Direction(signs) = "ADVANCED"
           /\ 1 \notin signs /\ -1 \in signs => Direction(signs) = "REGRESSED"
           /\ 1 \in signs /\ -1 \in signs => Direction(signs) = "MIXED"
           /\ 1 \notin signs /\ -1 \notin signs => Direction(signs) = "EQUIVALENT"
<1>1. CASE 1 \in signs /\ -1 \notin signs
    <2>1. signs # {0} /\ signs \subseteq {0, 1} /\ ~(signs \subseteq {-1, 0})
        BY <1>1
    <2>2. QED
        BY <1>1, <2>1 DEF Direction
<1>2. CASE 1 \notin signs /\ -1 \in signs
    <2>1. signs # {0} /\ signs \subseteq {-1, 0} /\ ~(signs \subseteq {0, 1})
        BY <1>2
    <2>2. QED
        BY <1>2, <2>1 DEF Direction
<1>3. CASE 1 \in signs /\ -1 \in signs
    <2>1. signs # {0} /\ ~(signs \subseteq {-1, 0}) /\ ~(signs \subseteq {0, 1})
        BY <1>3
    <2>2. QED
        BY <1>3, <2>1 DEF Direction
<1>4. CASE 1 \notin signs /\ -1 \notin signs
    <2>1. signs = {0}
        BY <1>4
    <2>2. QED
        BY <2>1 DEF Direction
<1>5. QED
    BY <1>1, <1>2, <1>3, <1>4

SignsOf(measures) == {Sign(measures[i]) : i \in DOMAIN measures}

\* What a comparison that decides has established, and how it decided.
LEMMA ComparisonDecides ==
    ASSUME IInv, Shaped, Kind = "comparison", Outcome(made) # "UNKNOWN"
    PROVE  LET invariants == made.body.invariants
               measures == made.body.measures
               criteria == Criteria(invariants, measures)
               replays == ReplayAll(ListsOf(criteria), made.body.evidence, IndexOf(made))
           IN  /\ Uncompared(invariants, measures, replays, made.body.evidence) = {}
               /\ \A i \in DOMAIN invariants : invariants[i].baseline_holds
               /\ Outcome(made) = IF InvariantRegression(invariants) THEN "REGRESSED"
                                  ELSE Direction(SignsOf(measures))
               /\ \A i \in DOMAIN measures :
                     /\ measures[i].direction \in DIRECTIONS
                     /\ measures[i].baseline.value \in Int
                     /\ measures[i].candidate.value \in Int
               /\ DOMAIN measures # {}
<1> DEFINE home == IndexOf(made)
           evidence == made.body.evidence
           invariants == made.body.invariants
           measures == made.body.measures
           criteria == Criteria(invariants, measures)
           replays == ReplayAll(ListsOf(criteria), evidence, home)
           unknown == Uncompared(invariants, measures, replays, evidence)
<1>1. VerifyComparison(made, home)
    BY MadeByKind
<1>2. /\ FormedComparison(invariants, measures)
      /\ DOMAIN measures # {}
    BY DEF Shaped
<1>3. /\ made = CompareDirectional(made.body.scope, invariants, measures, evidence, home)
      /\ \A i \in DOMAIN measures : measures[i].direction \in DIRECTIONS
    BY <1>1 DEF VerifyComparison, MayCompare
<1>4. \A i \in DOMAIN measures :
          measures[i].baseline.value \in Int /\ measures[i].candidate.value \in Int
    BY <1>2 DEF FormedComparison, IsNumber
<1> HIDE DEF home, evidence, invariants, measures
<1>5. Outcome(made) = Classification(unknown, invariants, measures)
    BY <1>2, <1>3, ComparisonByReplays DEF ComparisonOutcome
<1> HIDE DEF replays
<1>6. unknown = {}
    BY <1>5 DEF Classification
<1>7. \A i \in DOMAIN invariants : invariants[i].baseline_holds
    <2> SUFFICES ASSUME NEW i \in DOMAIN invariants, ~invariants[i].baseline_holds PROVE FALSE
        OBVIOUS
    <2>1. Reason("baseline_invariant_not_established", invariants[i].name) \in unknown
        BY DEF Uncompared
    <2>2. QED
        BY <1>6, <2>1
<1>8. Outcome(made) = IF InvariantRegression(invariants) THEN "REGRESSED"
                      ELSE Direction(SignsOf(measures))
    BY <1>5, <1>6 DEF Classification, SignsOf
<1>9. QED
    BY <1>2, <1>3, <1>4, <1>6, <1>7, <1>8 DEF home, evidence, invariants, measures, replays

\* Whatever numbers are compared, and of whichever kinds, a classification is
\* borne out by the exact numbers.
THEOREM DirectionIsRealAlways == Spec => []DirectionIsReal
<1>1. IInv /\ Shaped => DirectionIsReal
    <2> SUFFICES ASSUME IInv, Shaped, Kind = "comparison", Outcome(made) # "UNKNOWN"
                 PROVE  DirectionIsReal
        BY DEF DirectionIsReal
    <2> DEFINE invariants == made.body.invariants
               measures == made.body.measures
               signs == SignsOf(measures)
               Some(sign) == \E i \in DOMAIN measures : Exactly(measures[i]) = sign
               exact == \A i \in DOMAIN measures : ~Mixed(measures[i])
               lost == \E i \in DOMAIN invariants : ~invariants[i].candidate_holds
    <2>1. /\ \A i \in DOMAIN invariants : invariants[i].baseline_holds
          /\ Outcome(made) = IF InvariantRegression(invariants) THEN "REGRESSED"
                             ELSE Direction(signs)
          /\ DOMAIN measures # {}
        BY ComparisonDecides
    <2>2. \A i \in DOMAIN measures :
              /\ measures[i].direction \in DIRECTIONS
              /\ measures[i].baseline.value \in Int
              /\ measures[i].candidate.value \in Int
        BY ComparisonDecides
    <2> HIDE DEF invariants, measures
    <2>3. \A i \in DOMAIN measures :
              /\ Sign(measures[i]) \in {-1, 0, 1}
              /\ Exactly(measures[i]) \in {-1, 0, 1}
              /\ Sign(measures[i]) \in {0, Exactly(measures[i])}
              /\ ~Mixed(measures[i]) => Sign(measures[i]) = Exactly(measures[i])
        BY <2>2, SignIsExact
    <2>4. signs \subseteq {-1, 0, 1} /\ signs # {}
        BY <2>1, <2>3 DEF SignsOf
    <2>5. /\ 1 \in signs => Some(1)
          /\ -1 \in signs => Some(-1)
          /\ exact => (1 \in signs <=> Some(1)) /\ (-1 \in signs <=> Some(-1))
        BY <2>3 DEF SignsOf
    <2>6. InvariantRegression(invariants) <=> lost
        BY <2>1 DEF InvariantRegression
    <2> HIDE DEF signs, Some, exact, lost
    <2>7. /\ Outcome(made) \in {"ADVANCED", "MIXED"} => Some(1) /\ ~lost
          /\ Outcome(made) \in {"REGRESSED", "MIXED"} => Some(-1) \/ lost
          /\ Outcome(made) = "EQUIVALENT" => ~lost
          /\ exact /\ Outcome(made) = "ADVANCED" => ~Some(-1)
          /\ exact /\ ~lost /\ Outcome(made) = "REGRESSED" => ~Some(1)
          /\ exact /\ Outcome(made) = "EQUIVALENT" => ~Some(1) /\ ~Some(-1)
        BY <2>1, <2>4, <2>5, <2>6, DirectionOfSigns
    <2>8. QED
        BY <2>7 DEF DirectionIsReal, Some, exact, lost, invariants, measures
<1>2. QED
    BY <1>1, GrowingHolds, PTL

-----------------------------------------------------------------------------
(* Comparing the other way round.                                          *)

SwappedInvariants(invariants) ==
    [i \in DOMAIN invariants |->
        [invariants[i] EXCEPT !.baseline_holds = invariants[i].candidate_holds,
                              !.candidate_holds = invariants[i].baseline_holds]]
SwappedMeasures(measures) ==
    [i \in DOMAIN measures |->
        [measures[i] EXCEPT !.baseline = measures[i].candidate,
                            !.candidate = measures[i].baseline]]

\* The members of a concatenation.
LEMMA ConcatenatedMembers ==
    ASSUME NEW S, NEW left \in Seq(S), NEW right \in Seq(S)
    PROVE  /\ DOMAIN (left \o right) = 1..(Len(left) + Len(right))
           /\ \A i \in 1..(Len(left) + Len(right)) :
                 (left \o right)[i] = IF i <= Len(left) THEN left[i] ELSE right[i - Len(left)]
<1>1. left \o right \in Seq(S) /\ Len(left \o right) = Len(left) + Len(right)
    OBVIOUS
<1>2. \A i \in 1..(Len(left) + Len(right)) :
          (left \o right)[i] = IF i <= Len(left) THEN left[i] ELSE right[i - Len(left)]
    OBVIOUS
<1>3. QED
    BY <1>1, <1>2

\* Changing the members of two lists one by one changes those of their
\* concatenation.
LEMMA ConcatenatedAlike ==
    ASSUME NEW left, NEW right, IsList(left), IsList(right),
           NEW otherLeft, DOMAIN otherLeft = DOMAIN left, IsList(otherLeft),
           NEW otherRight, DOMAIN otherRight = DOMAIN right, IsList(otherRight),
           \A i \in DOMAIN left : otherLeft[i].evidence = left[i].evidence,
           \A i \in DOMAIN right : otherRight[i].evidence = right[i].evidence
    PROVE  ListsOf(otherLeft \o otherRight) = ListsOf(left \o right)
<1> DEFINE S == {left[i] : i \in DOMAIN left} \cup {right[i] : i \in DOMAIN right}
                \cup {otherLeft[i] : i \in DOMAIN otherLeft}
                \cup {otherRight[i] : i \in DOMAIN otherRight}
<1>1. left \in Seq(S) /\ right \in Seq(S) /\ otherLeft \in Seq(S) /\ otherRight \in Seq(S)
    <2>1. ASSUME NEW list, IsList(list), {list[i] : i \in DOMAIN list} \subseteq S
          PROVE  list \in Seq(S)
        <3> DEFINE T == {list[i] : i \in DOMAIN list}
        <3>1. list \in Seq(T) /\ T \subseteq S
            BY <2>1 DEF IsList
        <3> HIDE DEF S, T
        <3>2. QED
            BY <3>1
    <2>2. QED
        BY <2>1
<1> HIDE DEF S
<1>2. Len(otherLeft) = Len(left) /\ Len(otherRight) = Len(right)
    BY <1>1
<1> DEFINE one == left \o right
           other == otherLeft \o otherRight
<1>3. /\ DOMAIN one = 1..(Len(left) + Len(right)) /\ DOMAIN other = DOMAIN one
      /\ \A i \in DOMAIN one :
            one[i] = IF i <= Len(left) THEN left[i] ELSE right[i - Len(left)]
      /\ \A i \in DOMAIN one :
            other[i] = IF i <= Len(left) THEN otherLeft[i] ELSE otherRight[i - Len(left)]
    <2>1. /\ DOMAIN one = 1..(Len(left) + Len(right))
          /\ \A i \in 1..(Len(left) + Len(right)) :
                one[i] = IF i <= Len(left) THEN left[i] ELSE right[i - Len(left)]
        BY <1>1, ConcatenatedMembers
    <2>2. /\ DOMAIN other = 1..(Len(otherLeft) + Len(otherRight))
          /\ \A i \in 1..(Len(otherLeft) + Len(otherRight)) :
                other[i] = IF i <= Len(otherLeft) THEN otherLeft[i]
                           ELSE otherRight[i - Len(otherLeft)]
        BY <1>1, ConcatenatedMembers
    <2> HIDE DEF one, other
    <2>3. QED
        BY <1>2, <2>1, <2>2
<1>4. ASSUME NEW i \in DOMAIN one PROVE other[i].evidence = one[i].evidence
    <2>1. CASE i <= Len(left)
        <3>1. i \in DOMAIN left
            BY <1>1, <1>3, <2>1
        <3>2. QED
            BY <1>3, <2>1, <3>1
    <2>2. CASE ~(i <= Len(left))
        <3>1. i - Len(left) \in DOMAIN right
            BY <1>1, <1>3, <2>2
        <3>2. QED
            BY <1>3, <2>2, <3>1
    <2>3. QED
        BY <2>1, <2>2
<1> HIDE DEF one, other
<1>5. ListsOf(other) = ListsOf(one)
    BY <1>3, <1>4 DEF ListsOf
<1>6. QED
    BY <1>5 DEF one, other

\* A function on the places of a list is a list.
LEMMA ListOfSameLength ==
    ASSUME NEW list, IsList(list), NEW other, other = [i \in DOMAIN list |-> other[i]]
    PROVE  IsList(other)
<1> DEFINE S == {list[i] : i \in DOMAIN list}
           T == {other[i] : i \in DOMAIN other}
<1>1. list \in Seq(S)
    BY DEF IsList
<1>2. DOMAIN list = 1..Len(list) /\ Len(list) \in Nat
    BY <1>1
<1>3. other \in [1..Len(list) -> T]
    BY <1>2
<1> HIDE DEF T
<1>4. other \in Seq(T)
    BY <1>2, <1>3
<1>5. QED
    BY <1>4 DEF T, IsList

\* Of two swapped numbers the difference has the opposite sign.
LEMMA SwappedSign ==
    ASSUME NEW measure, DOMAIN measure = MEASURE_FIELDS, measure.direction \in DIRECTIONS,
           measure.baseline.value \in Int, measure.candidate.value \in Int,
           NEW swapped, swapped = [measure EXCEPT !.baseline = measure.candidate,
                                                  !.candidate = measure.baseline]
    PROVE  Sign(measure) \in {-1, 0, 1} /\ Sign(swapped) = -Sign(measure)
<1>1. /\ swapped.baseline = measure.candidate
      /\ swapped.candidate = measure.baseline
      /\ swapped.direction = measure.direction
    BY DEF MEASURE_FIELDS
<1>2. Mixed(swapped) <=> Mixed(measure)
    BY <1>1 DEF Mixed
<1>3. Nearest(measure.baseline.value) \in Int /\ Nearest(measure.candidate.value) \in Int
    BY NearestIsMonotone
<1>4. Delta(measure) \in Int /\ Delta(swapped) = -Delta(measure)
    BY <1>1, <1>2, <1>3 DEF Delta
<1>5. /\ Sign(measure) =
             SignOf(IF measure.direction = "LOWER_IS_BETTER" THEN -Delta(measure)
                                                            ELSE Delta(measure))
      /\ Sign(swapped) =
             SignOf(IF measure.direction = "LOWER_IS_BETTER" THEN -Delta(swapped)
                                                            ELSE Delta(swapped))
    BY <1>1 DEF Sign
<1>6. QED
    BY <1>4, <1>5 DEF SignOf

\* The comparison of a candidate that lost nothing, the other way round, decides
\* by the opposite signs; that of one that lost an invariant decides nothing.
LEMMA SwappedDecides ==
    ASSUME IInv, Shaped, Kind = "comparison", Outcome(made) # "UNKNOWN",
           NEW invariants, invariants = made.body.invariants,
           NEW measures, measures = made.body.measures,
           NEW scope, NEW swapped,
           swapped = CompareDirectional(scope, SwappedInvariants(invariants),
                                        SwappedMeasures(measures), made.body.evidence,
                                        IndexOf(made))
    PROVE  Outcome(swapped) = IF InvariantRegression(invariants) THEN "UNKNOWN"
                              ELSE Direction(SignsOf(SwappedMeasures(measures)))
<1> DEFINE home == IndexOf(made)
           evidence == made.body.evidence
           criteria == Criteria(invariants, measures)
           replays == ReplayAll(ListsOf(criteria), evidence, home)
           others == SwappedInvariants(invariants)
           otherMeasures == SwappedMeasures(measures)
           otherCriteria == Criteria(others, otherMeasures)
           unknown == Uncompared(others, otherMeasures, replays, evidence)
<1>1. FormedComparison(invariants, measures)
    BY DEF Shaped
<1>2. /\ Uncompared(invariants, measures, replays, evidence) = {}
      /\ \A i \in DOMAIN invariants : invariants[i].baseline_holds
      /\ DOMAIN measures # {}
    BY ComparisonDecides
<1>3. /\ IsList(invariants) /\ IsList(measures)
      /\ \A i \in DOMAIN invariants : DOMAIN invariants[i] = INVARIANT_FIELDS
      /\ \A i \in DOMAIN measures : DOMAIN measures[i] = MEASURE_FIELDS
    BY <1>1 DEF FormedComparison, Formed
<1>4. /\ DOMAIN others = DOMAIN invariants /\ DOMAIN otherMeasures = DOMAIN measures
      /\ \A i \in DOMAIN invariants :
            /\ others[i].evidence = invariants[i].evidence
            /\ others[i].baseline_holds = invariants[i].candidate_holds
            /\ others[i].candidate_holds = invariants[i].baseline_holds
      /\ \A i \in DOMAIN measures : otherMeasures[i].evidence = measures[i].evidence
    BY <1>3, Zenon DEF SwappedInvariants, SwappedMeasures, INVARIANT_FIELDS, MEASURE_FIELDS
<1>5. IsList(others) /\ IsList(otherMeasures)
    <2>1. others = [i \in DOMAIN invariants |-> others[i]]
        BY DEF SwappedInvariants
    <2>2. otherMeasures = [i \in DOMAIN measures |-> otherMeasures[i]]
        BY DEF SwappedMeasures
    <2> HIDE DEF others, otherMeasures
    <2>3. QED
        BY <1>3, <2>1, <2>2, ListOfSameLength
<1> HIDE DEF others, otherMeasures, home, evidence
<1>6. ListsOf(otherCriteria) = ListsOf(criteria)
    BY <1>3, <1>4, <1>5, ConcatenatedAlike DEF Criteria
<1>7. Outcome(swapped) = Classification(unknown, others, otherMeasures)
    <2>1. swapped = CompareDirectional(scope, others, otherMeasures, evidence, home)
        BY DEF others, otherMeasures, evidence, home
    <2>2. replays = ReplayAll(ListsOf(otherCriteria), evidence, home)
        BY <1>6
    <2> HIDE DEF replays, otherCriteria
    <2>3. QED
        BY <1>2, <1>4, <2>1, <2>2, ComparisonByReplays DEF ComparisonOutcome, otherCriteria
<1> HIDE DEF replays
<1>8. /\ \A i \in DOMAIN replays : AllHeld(replays[i].results)
      /\ Inexact(AllUsed(replays), evidence) = {}
    BY <1>2 DEF Uncompared
<1>9. unknown = {} <=> \A i \in DOMAIN invariants : others[i].baseline_holds
    BY <1>4, <1>8 DEF Uncompared
<1>10. InvariantRegression(invariants) <=>
           \E i \in DOMAIN invariants : ~others[i].baseline_holds
    BY <1>2, <1>4 DEF InvariantRegression
<1>11. ~InvariantRegression(others)
    BY <1>2, <1>4 DEF InvariantRegression
<1>12. QED
    BY <1>7, <1>9, <1>10, <1>11 DEF Classification, SignsOf, others, otherMeasures

\* However many criteria are compared, the other way round mirrors the outcome.
THEOREM SwapMirrorsAlways == Spec => []SwapMirrors
<1>1. IInv /\ Shaped => SwapMirrors
    <2> SUFFICES ASSUME IInv, Shaped, Kind = "comparison", Outcome(made) # "UNKNOWN"
                 PROVE  SwapMirrors
        BY DEF SwapMirrors
    <2> DEFINE invariants == made.body.invariants
               measures == made.body.measures
               signs == SignsOf(measures)
               others == SignsOf(SwappedMeasures(measures))
               swapped == CompareDirectional(
                              [baseline_id |-> made.body.scope.candidate_id,
                               candidate_id |-> made.body.scope.baseline_id],
                              SwappedInvariants(invariants), SwappedMeasures(measures),
                              made.body.evidence, IndexOf(made))
    <2>1. /\ Outcome(made) = IF InvariantRegression(invariants) THEN "REGRESSED"
                             ELSE Direction(signs)
          /\ DOMAIN measures # {}
        BY ComparisonDecides
    <2>2. Outcome(swapped) = IF InvariantRegression(invariants) THEN "UNKNOWN"
                             ELSE Direction(others)
        <3> HIDE DEF swapped, others
        <3>1. QED
            BY SwappedDecides DEF swapped, others
    <2>3. \A i \in DOMAIN measures :
              /\ measures[i].direction \in DIRECTIONS
              /\ measures[i].baseline.value \in Int
              /\ measures[i].candidate.value \in Int
              /\ DOMAIN measures[i] = MEASURE_FIELDS
        BY ComparisonDecides DEF Shaped, FormedComparison, Formed
    <2> HIDE DEF swapped, invariants, measures
    <2>4. \A i \in DOMAIN measures :
              /\ Sign(measures[i]) \in {-1, 0, 1}
              /\ Sign(SwappedMeasures(measures)[i]) = -Sign(measures[i])
        BY <2>3, SwappedSign DEF SwappedMeasures
    <2>5. DOMAIN SwappedMeasures(measures) = DOMAIN measures
        BY DEF SwappedMeasures
    <2>6. /\ signs \subseteq {-1, 0, 1} /\ signs # {}
          /\ others \subseteq {-1, 0, 1} /\ others # {}
          /\ 1 \in others <=> -1 \in signs
          /\ -1 \in others <=> 1 \in signs
        BY <2>1, <2>4, <2>5 DEF SignsOf
    <2> HIDE DEF signs, others
    <2>7. Outcome(swapped) =
              IF InvariantRegression(invariants) THEN "UNKNOWN"
              ELSE CASE Outcome(made) = "ADVANCED" -> "REGRESSED"
                     [] Outcome(made) = "REGRESSED" -> "ADVANCED"
                     [] Outcome(made) \in {"EQUIVALENT", "MIXED"} -> Outcome(made)
        <3>1. CASE InvariantRegression(invariants)
            BY <2>2, <3>1
        <3>2. CASE ~InvariantRegression(invariants)
            <4>1. Outcome(made) = Direction(signs) /\ Outcome(swapped) = Direction(others)
                BY <2>1, <2>2, <3>2
            <4>2. CASE 1 \in signs /\ -1 \notin signs
                BY <2>6, <3>2, <4>1, <4>2, DirectionOfSigns
            <4>3. CASE 1 \notin signs /\ -1 \in signs
                BY <2>6, <3>2, <4>1, <4>3, DirectionOfSigns
            <4>4. CASE 1 \in signs /\ -1 \in signs
                BY <2>6, <3>2, <4>1, <4>4, DirectionOfSigns
            <4>5. CASE 1 \notin signs /\ -1 \notin signs
                BY <2>6, <3>2, <4>1, <4>5, DirectionOfSigns
            <4>6. QED
                BY <4>2, <4>3, <4>4, <4>5
        <3>3. QED
            BY <3>1, <3>2
    <2>8. QED
        BY <2>7 DEF SwapMirrors, swapped, invariants, measures, SwappedInvariants,
                    SwappedMeasures
<1>2. QED
    BY <1>1, GrowingHolds, PTL

-----------------------------------------------------------------------------
(* What an eligible action rests on.                                       *)

\* What a run of either check HELD is so of the bytes it was run on.
LEMMA HeldSupports ==
    ASSUME NEW id, NEW index, Replays(id, index), Items[id].receipt.body.result = "HELD"
    PROVE  /\ Supports(Items[id])
           /\ Items[id].receipt.body.verifier_id # Items[id].claim.body.author
           /\ \E entry \in index.body.entries :
                 /\ entry.body.reference.check_id = Items[id].check_id
                 /\ ByProcedure(Items[id].receipt.body.method, entry.body.procedure)
<1> DEFINE item == Items[id]
           matter == item.claim.body.matter
           observed == item.observed
           type == RUNNERS[item.check_id]
<1>1. /\ item.check_id \in DOMAIN RUNNERS
      /\ MayRun(type, item.claim, item.receipt.body.verifier_id,
                item.receipt.body.observed_at, observed, None)
      /\ Run(type, item.claim, item.receipt.body.verifier_id,
             item.receipt.body.observed_at, observed, None) = item.receipt
    BY DEF Replays, Recomputed, MayRebuild, Rebuilt
<1>2. type \in {CHECK_TYPE, JSON_CHECK_TYPE}
    BY <1>1 DEF RUNNERS
<1> HIDE DEF type
<1>3. RunResult(type, matter, observed) = "HELD"
    <2>1. PICK body :
              item.receipt = Seal(body) /\ body.result = RunResult(type, matter, observed)
        BY <1>1 DEF Run, Receipt
    <2>2. QED
        BY <2>1, SealIntact
<1>4. item.receipt.body.verifier_id # item.claim.body.author
    BY <1>1 DEF MayRun, MayAppend, MayReceipt
<1>5. matter.type = type /\ (type = JSON_CHECK_TYPE => IsPointer(matter.pointer))
    BY <1>1 DEF MayRun, Runnable
<1>6. Supports(item)
    <2>1. CASE type = CHECK_TYPE
        <3>1. SourceResult(matter, observed) = "HELD"
            BY <1>3, <2>1 DEF RunResult
        <3>2. observed # None /\ Digest(observed) = matter.source_sha256
            BY <3>1 DEF SourceResult
        <3>3. Digest(observed) = matter.expected
            BY <3>1, <3>2 DEF SourceResult
        <3>4. QED
            BY <1>5, <2>1, <3>2, <3>3 DEF Supports
    <2>2. CASE type = JSON_CHECK_TYPE
        <3>1. JsonResult(matter, observed) = "HELD"
            BY <1>3, <2>2 DEF RunResult, CHECK_TYPE, JSON_CHECK_TYPE
        <3>2. observed # None /\ Digest(observed) = matter.source_sha256
            BY <3>1 DEF JsonResult
        <3>3. observed.json /\ matter.expected \in Resolve(observed.document, matter.pointer)
            BY <3>1, <3>2 DEF JsonResult
        <3>4. Resolve(observed.document, matter.pointer) = {matter.expected}
            BY <1>5, <2>2, <3>3, ResolvesToOne
        <3>5. Ascii(matter.pointer) =>
                  Rfc6901(observed.document, matter.pointer) = {matter.expected}
            BY <1>5, <2>2, <3>4, ResolveIsRfc6901
        <3>6. matter.type # CHECK_TYPE
            BY <1>5, <2>2 DEF CHECK_TYPE, JSON_CHECK_TYPE
        <3>7. QED
            BY <3>2, <3>3, <3>5, <3>6 DEF Supports
    <2>3. QED
        BY <1>2, <2>1, <2>2
<1>7. PICK entry \in Admitted(index, item.check_id, item.check_version) :
          ByProcedure(item.receipt.body.method, entry.body.procedure)
    BY DEF Replays
<1>8. entry \in index.body.entries /\ entry.body.reference.check_id = item.check_id
    BY <1>7 DEF Admitted, LatestAdmitted, AdmittedVersion, OfCheck
<1>9. QED
    BY <1>4, <1>6, <1>7, <1>8

\* A list all of which HELD is witnessed.
LEMMA HeldIsWitnessed ==
    ASSUME NEW list, NEW evidence, NEW index,
           AllHeld(Replay(list, evidence, index).results)
    PROVE  /\ Witnessed(list, evidence, index)
           /\ \A i \in DOMAIN list : Supports(Items[list[i]])
<1> DEFINE failing == Failing(list, evidence, index)
<1>1. Replay(list, evidence, index).results =
          IF list # <<>> /\ failing = {} THEN Results(list) ELSE {}
    <2> HIDE DEF failing
    <2>1. Replay(list, evidence, index) = ReplayedUpTo(list, failing)
        BY DEF Replay, failing
    <2>2. QED
        BY <2>1 DEF ReplayedUpTo
<1>2. list # <<>> /\ failing = {} /\ Results(list) = {"HELD"}
    BY <1>1 DEF AllHeld
<1>3. ASSUME NEW i \in DOMAIN list
      PROVE  /\ list[i] \in evidence /\ Replays(list[i], index)
             /\ Items[list[i]].receipt.body.result = "HELD"
    BY <1>2 DEF Failing, Results
<1>4. QED
    BY <1>2, <1>3, HeldSupports DEF Witnessed

\* Possible is what all constraints HELD for.
LEMMA PossibleIsHeld ==
    ASSUME NEW record, NEW home, VerifyPossibility(record, home),
           record.body.assessment = "POSSIBLE_WITHIN_CONSTRAINTS",
           NEW i \in DOMAIN record.body.constraints
    PROVE  AllHeld(Replay(record.body.constraints[i].evidence, record.body.evidence, home).results)
<1> DEFINE constraints == record.body.constraints
           evidence == record.body.evidence
           replays == [k \in DOMAIN constraints |->
                          Replay(constraints[k].evidence, evidence, home)]
           unknown == UnknownReasons(constraints, replays, evidence)
           kinds == {item.kind : item \in BlockingConstraints(constraints, replays)}
           results == replays[i].results
<1>1. record.body.assessment = Assessment(unknown, kinds)
    <2>1. record = PossibilityRecord(record.body.scope, constraints, replays, evidence, home)
        BY DEF VerifyPossibility, AssessPossibility
    <2> HIDE DEF replays, constraints, evidence
    <2>2. QED
        BY <2>1, PossibilityDecides
<1>2. replays[i] = Replay(constraints[i].evidence, evidence, home)
    OBVIOUS
<1>3. results \subseteq RESULTS
    BY <1>2, ReplayIsAllOrNothing
<1>4. \A k \in DOMAIN constraints : constraints[k].kind \in CONSTRAINT_KINDS
    BY DEF VerifyPossibility, MayAssessPossibility
<1> HIDE DEF replays, constraints, evidence
<1>5. kinds \subseteq CONSTRAINT_KINDS
    BY <1>4 DEF BlockingConstraints
<1>6. unknown = {} => ~Undecided(results)
    BY DEF UnknownReasons, constraints
<1>7. kinds = {} => ~Contradicted(results)
    BY DEF BlockingConstraints, constraints
<1> HIDE DEF unknown, kinds, results
<1>8. unknown = {} /\ kinds = {}
    <2>1. CASE unknown # {}
        BY <1>1, <2>1 DEF Assessment
    <2>2. CASE unknown = {} /\ "LOGICAL" \in kinds
        BY <1>1, <2>2 DEF Assessment
    <2>3. CASE unknown = {} /\ "LOGICAL" \notin kinds /\ "SCOPE" \in kinds
        BY <1>1, <2>3 DEF Assessment
    <2>4. CASE unknown = {} /\ kinds = {"RESOURCE"}
        BY <1>1, <2>4 DEF Assessment
    <2>5. QED
        BY <1>5, <2>1, <2>2, <2>3, <2>4 DEF CONSTRAINT_KINDS
<1>9. AllHeld(results)
    BY <1>3, <1>6, <1>7, <1>8 DEF Undecided, Contradicted, AllHeld, RESULTS
<1>10. QED
    BY <1>2, <1>9 DEF results, constraints, evidence

\* Eligible is what the assessment found possible, all fields HELD for, and
\* every reference is bound to its field.
LEMMA EligibleIsHeld ==
    ASSUME NEW record, NEW home, VerifyConsequences(record, home),
           record.body.decision = "ELIGIBLE"
    PROVE  /\ record.body.possibility_assessment.body.assessment = "POSSIBLE_WITHIN_CONSTRAINTS"
           /\ \A field \in Fields :
                 /\ AllHeld(Replay(record.body.impact_evidence[field],
                                   record.body.evidence, home).results)
                 /\ ~Unbound(record.body.impact_evidence[field], field, record.body.impact[field])
<1> DEFINE replays == [field \in Fields |->
                          Replay(record.body.impact_evidence[field], record.body.evidence, home)]
           missing == ImpactUnknown(record.body.impact, record.body.impact_evidence, replays,
                                    record.body.evidence)
           possibility == record.body.possibility_assessment
           assessment == possibility.body.assessment
<1>1. record.body.decision = Decision(assessment, missing, record.body.impact,
                                      record.body.unknown_consequences)
    <2>1. record = GateRecord(record.body.action, record.body.impact,
                              record.body.impact_evidence, record.body.evidence,
                              record.body.unknown_consequences, possibility, home, missing)
        BY DEF VerifyConsequences, AssessConsequences
    <2> HIDE DEF missing, possibility
    <2>2. PICK body :
              /\ record = Seal(body)
              /\ body.decision = Decision(possibility.body.assessment, missing,
                                          record.body.impact,
                                          record.body.unknown_consequences)
        BY <2>1 DEF GateRecord
    <2>3. QED
        BY <2>2, SealIntact
<1> HIDE DEF assessment
<1>2. assessment = "POSSIBLE_WITHIN_CONSTRAINTS" /\ missing = {}
    <2> HIDE DEF missing
    <2>1. CASE assessment = "IMPOSSIBLE_UNDER_CONSTRAINTS"
        BY <1>1, <2>1 DEF Decision
    <2>2. CASE assessment \notin {"IMPOSSIBLE_UNDER_CONSTRAINTS", "POSSIBLE_WITHIN_CONSTRAINTS"}
        BY <1>1, <2>2 DEF Decision
    <2>3. CASE assessment = "POSSIBLE_WITHIN_CONSTRAINTS"
        BY <1>1, <2>3 DEF Decision
    <2>4. QED
        BY <2>1, <2>2, <2>3
<1>3. ASSUME NEW field \in Fields
      PROVE  /\ AllHeld(Replay(record.body.impact_evidence[field],
                               record.body.evidence, home).results)
             /\ ~Unbound(record.body.impact_evidence[field], field, record.body.impact[field])
    <2>1. replays[field] = Replay(record.body.impact_evidence[field], record.body.evidence, home)
        OBVIOUS
    <2> HIDE DEF replays
    <2>2. AllHeld(replays[field].results)
        BY <1>2 DEF ImpactUnknown
    <2>3. ~Unbound(record.body.impact_evidence[field], field, record.body.impact[field])
        BY <1>2, <2>2 DEF ImpactUnknown
    <2>4. QED
        BY <2>1, <2>2, <2>3
<1>4. QED
    BY <1>2, <1>3 DEF assessment

\* The pointer of a field has no digits.
LEMMA FieldsAreAscii ==
    ASSUME NEW field \in Fields
    PROVE  Ascii(FieldPointer(field))
<1>1. /\ FieldPointer(field).tokens = <<<<field>>>>
      /\ DOMAIN <<<<field>>>> = {1}
      /\ DOMAIN <<field>> = {1}
      /\ <<<<field>>>>[1] = <<field>>
      /\ <<field>>[1] = field
    BY DEF FieldPointer
<1>2. /\ DOMAIN ARABIC_DIGITS = {"ARABIC-INDIC 0", "ARABIC-INDIC 1"}
      /\ UNREADABLE_DIGITS = {"SUPERSCRIPT 2", "4301 DIGITS"}
    BY DEF ARABIC_DIGITS, UNREADABLE_DIGITS
<1>3. field \notin DOMAIN ARABIC_DIGITS \cup UNREADABLE_DIGITS
    BY <1>2 DEF Fields
<1>4. QED
    BY <1>1, <1>3 DEF Ascii

\* An eligible action rests on bytes: those that came with its evidence show
\* every constraint of the proposal and every field of the impact, by procedures
\* one index admits.
THEOREM EligibleIsEstablishedAlways == Spec => []EligibleIsEstablished
<1>1. IInv => EligibleIsEstablished
    <2> SUFFICES ASSUME IInv, Kind = "gate", Outcome(made) = "ELIGIBLE"
                 PROVE  EligibleIsEstablished
        BY DEF EligibleIsEstablished
    <2> DEFINE home == IndexOf(made)
               possibility == made.body.possibility_assessment
               assessed == possibility.body
    <2>1. VerifyConsequences(made, home)
        BY MadeByKind
    <2>2. made.body.type = "gate"
        BY <2>1 DEF VerifyConsequences
    <2>3. made.body.decision = "ELIGIBLE"
        BY <2>2 DEF Outcome
    <2>4. /\ assessed.scope.proposal = made.body.action.description
          /\ VerifyPossibility(possibility, home)
        BY <2>1 DEF VerifyConsequences, MayAssessConsequences
    <2> HIDE DEF home
    <2>5. assessed.frozen_index_hash = home.hash
        BY <2>4, PossibilityShape
    <2>6. /\ assessed.assessment = "POSSIBLE_WITHIN_CONSTRAINTS"
          /\ \A field \in Fields :
                /\ AllHeld(Replay(made.body.impact_evidence[field],
                                  made.body.evidence, home).results)
                /\ ~Unbound(made.body.impact_evidence[field], field, made.body.impact[field])
        BY <2>1, <2>3, EligibleIsHeld
    <2>7. \A i \in DOMAIN assessed.constraints :
              Witnessed(assessed.constraints[i].evidence, assessed.evidence, home)
        BY <2>4, <2>6, PossibleIsHeld, HeldIsWitnessed
    <2>8. ASSUME NEW field \in Fields
          PROVE  /\ Witnessed(made.body.impact_evidence[field], made.body.evidence, home)
                 /\ \A i \in DOMAIN made.body.impact_evidence[field] :
                       Rfc6901(Items[made.body.impact_evidence[field][i]].observed.document,
                               FieldPointer(field)) = {JsonValue(made.body.impact[field])}
        <3> DEFINE list == made.body.impact_evidence[field]
        <3>1. Witnessed(list, made.body.evidence, home)
              /\ \A i \in DOMAIN list : Supports(Items[list[i]])
            BY <2>6, HeldIsWitnessed
        <3>2. ASSUME NEW i \in DOMAIN list
              PROVE  Rfc6901(Items[list[i]].observed.document, FieldPointer(field))
                         = {JsonValue(made.body.impact[field])}
            <4>1. BoundTo(Items[list[i]].claim.body.matter, field, made.body.impact[field])
                BY <2>6 DEF Unbound
            <4>2. Supports(Items[list[i]])
                BY <3>1
            <4>3. Ascii(FieldPointer(field))
                BY FieldsAreAscii
            <4>4. QED
                BY <4>1, <4>2, <4>3 DEF Supports, BoundTo, CHECK_TYPE, JSON_CHECK_TYPE
        <3>3. QED
            BY <3>1, <3>2
    <2>9. QED
        BY <2>4, <2>5, <2>7, <2>8 DEF EligibleIsEstablished, home
<1>2. QED
    BY <1>1, InvariantHolds, PTL

-----------------------------------------------------------------------------
(* The order of criteria and of references.                                *)

\* The criteria in the opposite order, each with its references in it.
Backward(criteria) ==
    Reverse([i \in DOMAIN criteria |->
                [criteria[i] EXCEPT !.evidence = Reverse(criteria[i].evidence)]])

\* The places of a list, in the opposite order.
LEMMA ReversedPlaces ==
    ASSUME NEW list, IsList(list)
    PROVE  /\ IsList(Reverse(list))
           /\ DOMAIN Reverse(list) = DOMAIN list
           /\ DOMAIN list = 1..Len(list) /\ Len(list) \in Nat
           /\ \A i \in DOMAIN list :
                 /\ Len(list) - i + 1 \in DOMAIN list
                 /\ Reverse(list)[i] = list[Len(list) - i + 1]
                 /\ Reverse(list)[Len(list) - i + 1] = list[i]
<1> DEFINE S == {list[i] : i \in DOMAIN list}
<1>1. list \in Seq(S)
    BY DEF IsList
<1>2. DOMAIN list = 1..Len(list) /\ Len(list) \in Nat
    BY <1>1
<1>3. Reverse(list) = [i \in 1..Len(list) |-> list[(Len(list) - i) + 1]]
    BY DEF Reverse
<1>4. ASSUME NEW i \in 1..Len(list)
      PROVE  /\ Len(list) - i + 1 \in 1..Len(list)
             /\ Len(list) - (Len(list) - i + 1) + 1 = i
    BY <1>2
<1>5. \A i \in DOMAIN list :
          /\ Len(list) - i + 1 \in DOMAIN list
          /\ Reverse(list)[i] = list[Len(list) - i + 1]
          /\ Reverse(list)[Len(list) - i + 1] = list[i]
    BY <1>2, <1>3, <1>4
<1>6. DOMAIN Reverse(list) = DOMAIN list
    BY <1>2, <1>3
<1>7. IsList(Reverse(list))
    <2> DEFINE other == Reverse(list)
    <2>1. other = [i \in DOMAIN list |-> other[i]]
        BY <1>2, <1>3
    <2> HIDE DEF other
    <2>2. IsList(other)
        BY <2>1, ListOfSameLength
    <2>3. QED
        BY <2>2 DEF other
<1>8. QED
    BY <1>2, <1>5, <1>6, <1>7

\* A list has the members of the reversed one.
LEMMA ReversedMembers ==
    ASSUME NEW list, IsList(list)
    PROVE  /\ {Reverse(list)[i] : i \in DOMAIN Reverse(list)} = {list[i] : i \in DOMAIN list}
           /\ Reverse(list) = <<>> <=> list = <<>>
<1>1. {Reverse(list)[i] : i \in DOMAIN Reverse(list)} = {list[i] : i \in DOMAIN list}
    <2> DEFINE other == Reverse(list)
    <2>1. /\ DOMAIN other = DOMAIN list
          /\ \A i \in DOMAIN list :
                /\ Len(list) - i + 1 \in DOMAIN list
                /\ other[i] = list[Len(list) - i + 1]
                /\ other[Len(list) - i + 1] = list[i]
        BY ReversedPlaces
    <2> HIDE DEF other
    <2>2. {other[i] : i \in DOMAIN other} = {list[i] : i \in DOMAIN list}
        BY <2>1
    <2>3. QED
        BY <2>2 DEF other
<1>2. Reverse(list) = <<>> <=> list = <<>>
    <2> DEFINE other == Reverse(list)
    <2>1. IsList(other) /\ DOMAIN other = DOMAIN list
        BY ReversedPlaces
    <2>2. ASSUME NEW any, IsList(any)
          PROVE  any = <<>> <=> DOMAIN any = {}
        BY <2>2 DEF IsList
    <2> HIDE DEF other
    <2>3. other = <<>> <=> list = <<>>
        BY <2>1, <2>2
    <2>4. QED
        BY <2>3 DEF other
<1>3. QED
    BY <1>1, <1>2

\* A reversed list is replayed to the same results, and to the same references
\* where it is replayed to any.
LEMMA ReversedReplay ==
    ASSUME NEW list, IsList(list), NEW evidence, NEW index
    PROVE  LET one == Replay(list, evidence, index)
               other == Replay(Reverse(list), evidence, index)
           IN  /\ other.results = one.results
               /\ list = <<>> \/ one.results # {} => other.used = one.used
<1> DEFINE reversed == Reverse(list)
           one == Replay(list, evidence, index)
           other == Replay(reversed, evidence, index)
<1>1. /\ {reversed[i] : i \in DOMAIN reversed} = {list[i] : i \in DOMAIN list}
      /\ reversed = <<>> <=> list = <<>>
    BY ReversedMembers
<1> HIDE DEF reversed
<1>2. Results(reversed) = Results(list)
    <2>1. ASSUME NEW any
          PROVE  Results(any) = {Items[id].receipt.body.result : id \in {any[i] : i \in DOMAIN any}}
        BY DEF Results
    <2>2. QED
        BY <1>1, <2>1
<1>3. Failing(reversed, evidence, index) = {} <=> Failing(list, evidence, index) = {}
    <2>1. ASSUME NEW any
          PROVE  Failing(any, evidence, index) = {} <=>
                     \A id \in {any[i] : i \in DOMAIN any} :
                         id \in evidence /\ Replays(id, index)
        BY DEF Failing
    <2>2. QED
        BY <1>1, <2>1
<1>4. ASSUME NEW any
      PROVE  Replay(any, evidence, index).results =
                 IF any # <<>> /\ Failing(any, evidence, index) = {} THEN Results(any) ELSE {}
    <2> DEFINE failing == Failing(any, evidence, index)
    <2>1. Replay(any, evidence, index) = ReplayedUpTo(any, failing)
        BY DEF Replay
    <2> HIDE DEF failing
    <2>2. Replay(any, evidence, index).results = IF any # <<>> /\ failing = {} THEN Results(any) ELSE {}
        BY <2>1 DEF ReplayedUpTo
    <2>3. QED
        BY <2>2 DEF failing
<1>5. other.results = one.results
    BY <1>1, <1>2, <1>3, <1>4
<1>6. ASSUME list = <<>> \/ one.results # {}
      PROVE  other.used = one.used
    <2>1. CASE list = <<>>
        BY <1>1, <2>1
    <2>2. CASE one.results # {}
        <3>1. one.used = {list[i] : i \in DOMAIN list}
            BY <2>2, ReplayIsAllOrNothing
        <3>2. other.used = {reversed[i] : i \in DOMAIN reversed}
            <4>1. other.results # {}
                BY <1>5, <2>2
            <4>2. QED
                BY <4>1, ReplayIsAllOrNothing
        <3>3. QED
            BY <1>1, <3>1, <3>2
    <2>3. QED
        BY <1>6, <2>1, <2>2
<1>7. QED
    BY <1>5, <1>6 DEF reversed

-----------------------------------------------------------------------------
\* The others are the criteria at other places, every one of them somewhere, with
\* the references of each reversed and the other fields kept.
Moved(others, criteria, places, fields) ==
    /\ places \in [DOMAIN others -> DOMAIN criteria]
    /\ \A d \in DOMAIN criteria : \E i \in DOMAIN others : places[i] = d
    /\ \A i \in DOMAIN others :
          /\ others[i].evidence = Reverse(criteria[places[i]].evidence)
          /\ \A field \in fields \ {"evidence"} : others[i][field] = criteria[places[i]][field]

\* The reversed criteria are at the opposite places.
LEMMA BackwardMoves ==
    ASSUME NEW fields, "evidence" \in fields, NEW criteria, Formed(criteria, fields)
    PROVE  /\ IsList(Backward(criteria))
           /\ DOMAIN Backward(criteria) = DOMAIN criteria
           /\ Moved(Backward(criteria), criteria,
                    [i \in DOMAIN criteria |-> Len(criteria) - i + 1], fields)
<1> DEFINE list == [i \in DOMAIN criteria |->
                       [criteria[i] EXCEPT !.evidence = Reverse(criteria[i].evidence)]]
           places == [i \in DOMAIN criteria |-> Len(criteria) - i + 1]
           others == Backward(criteria)
<1>1. /\ IsList(criteria)
      /\ \A i \in DOMAIN criteria : DOMAIN criteria[i] = fields
    BY DEF Formed
<1>2. IsList(list)
    <2>1. list = [i \in DOMAIN criteria |-> list[i]]
        OBVIOUS
    <2> HIDE DEF list
    <2>2. QED
        BY <1>1, <2>1, ListOfSameLength
<1>3. ASSUME NEW i \in DOMAIN criteria
      PROVE  /\ list[i].evidence = Reverse(criteria[i].evidence)
             /\ \A field \in fields \ {"evidence"} : list[i][field] = criteria[i][field]
    BY <1>1
<1>4. DOMAIN list = DOMAIN criteria
    OBVIOUS
<1>5. others = Reverse(list)
    BY DEF Backward
<1> HIDE DEF list, others
<1>6. Len(list) = Len(criteria)
    <2>1. /\ DOMAIN list = 1..Len(list) /\ Len(list) \in Nat
          /\ DOMAIN criteria = 1..Len(criteria) /\ Len(criteria) \in Nat
        BY <1>1, <1>2, ReversedPlaces
    <2>2. ASSUME NEW m \in Nat, NEW n \in Nat, 1..m = 1..n
          PROVE  m = n
        <3>1. (m \in 1..m => m \in 1..n) /\ (n \in 1..n => n \in 1..m)
            BY <2>2
        <3>2. QED
            BY <3>1
    <2>3. QED
        BY <1>4, <2>1, <2>2
<1>7. /\ IsList(others) /\ DOMAIN others = DOMAIN criteria
      /\ \A i \in DOMAIN criteria :
            /\ Len(criteria) - i + 1 \in DOMAIN criteria
            /\ others[i] = list[Len(criteria) - i + 1]
            /\ others[Len(criteria) - i + 1] = list[i]
    BY <1>2, <1>4, <1>5, <1>6, ReversedPlaces
<1>8. \A d \in DOMAIN criteria : \E i \in DOMAIN others : places[i] = d
    <2>1. DOMAIN criteria = 1..Len(criteria) /\ Len(criteria) \in Nat
        BY <1>1, ReversedPlaces
    <2>2. ASSUME NEW d \in DOMAIN criteria
          PROVE  places[Len(criteria) - d + 1] = d /\ Len(criteria) - d + 1 \in DOMAIN others
        BY <1>7, <2>1
    <2>3. QED
        BY <2>2
<1>9. \A i \in DOMAIN others : places[i] \in DOMAIN criteria /\ others[i] = list[places[i]]
    BY <1>7
<1>10. Moved(others, criteria, places, fields)
    <2>1. places \in [DOMAIN others -> DOMAIN criteria]
        BY <1>7
    <2> HIDE DEF places
    <2>2. QED
        BY <1>3, <1>8, <1>9, <2>1 DEF Moved
<1>11. QED
    BY <1>7, <1>10 DEF others

\* Criteria that were moved have the results of theirs at the new place; and where
\* the lists are complete, either all the same references are replayed.
LEMMA MovedReplays ==
    ASSUME NEW others, NEW criteria, NEW places, NEW fields,
           Moved(others, criteria, places, fields),
           \A i \in DOMAIN criteria : IsList(criteria[i].evidence),
           NEW evidence, NEW index,
           NEW one, one = ReplayAll(ListsOf(criteria), evidence, index),
           NEW other, other = ReplayAll(ListsOf(others), evidence, index)
    PROVE  /\ DOMAIN one = DOMAIN criteria /\ DOMAIN other = DOMAIN others
           /\ \A i \in DOMAIN others :
                 /\ places[i] \in DOMAIN criteria
                 /\ other[i].results = one[places[i]].results
                 /\ others[i].evidence = <<>> <=> criteria[places[i]].evidence = <<>>
           /\ Complete(ListsOf(criteria), one) => AllUsed(other) = AllUsed(one)
<1>1. /\ DOMAIN one = DOMAIN criteria /\ DOMAIN other = DOMAIN others
      /\ \A i \in DOMAIN criteria : one[i] = Replay(criteria[i].evidence, evidence, index)
      /\ \A i \in DOMAIN others : other[i] = Replay(others[i].evidence, evidence, index)
    BY DEF ReplayAll, ListsOf
<1>2. ASSUME NEW i \in DOMAIN others
      PROVE  /\ places[i] \in DOMAIN criteria
             /\ other[i].results = one[places[i]].results
             /\ others[i].evidence = <<>> <=> criteria[places[i]].evidence = <<>>
             /\ criteria[places[i]].evidence = <<>> \/ one[places[i]].results # {} =>
                    other[i].used = one[places[i]].used
    <2> DEFINE list == criteria[places[i]].evidence
    <2>1. places[i] \in DOMAIN criteria /\ others[i].evidence = Reverse(list) /\ IsList(list)
        BY DEF Moved
    <2> HIDE DEF list
    <2>2. /\ one[places[i]] = Replay(list, evidence, index)
          /\ other[i] = Replay(Reverse(list), evidence, index)
        BY <1>1, <2>1 DEF list
    <2>3. Reverse(list) = <<>> <=> list = <<>>
        BY <2>1, ReversedMembers
    <2>4. QED
        BY <2>1, <2>2, <2>3, ReversedReplay DEF list
<1>3. ASSUME Complete(ListsOf(criteria), one)
      PROVE  AllUsed(other) = AllUsed(one)
    <2>1. \A i \in DOMAIN others : other[i].used = one[places[i]].used
        BY <1>2, <1>3 DEF Complete, ListsOf
    <2>2. \A d \in DOMAIN criteria : \E i \in DOMAIN others : places[i] = d
        BY DEF Moved
    <2>3. \A i \in DOMAIN others : places[i] \in DOMAIN criteria
        BY <1>2
    <2>4. QED
        BY <1>1, <2>1, <2>2, <2>3 DEF AllUsed
<1>4. QED
    BY <1>1, <1>2, <1>3

\* Moved constraints decide the same.
LEMMA PossibilityMoved ==
    ASSUME NEW others, NEW criteria, NEW places,
           Moved(others, criteria, places, CONSTRAINT_FIELDS),
           \A i \in DOMAIN criteria : IsList(criteria[i].evidence),
           NEW evidence, NEW index,
           NEW one, one = ReplayAll(ListsOf(criteria), evidence, index),
           NEW other, other = ReplayAll(ListsOf(others), evidence, index)
    PROVE  PossibilityOutcome(others, other, evidence)
               = PossibilityOutcome(criteria, one, evidence)
<1> DEFINE Open(list, replays) ==
               {Reason("constraint_evidence_incomplete", list[i].constraint_id) :
                   i \in {i \in DOMAIN list : Undecided(replays[i].results)}}
           Kinds(list, replays) == {item.kind : item \in BlockingConstraints(list, replays)}
<1>1. \A i \in DOMAIN others :
          /\ places[i] \in DOMAIN criteria
          /\ other[i].results = one[places[i]].results
          /\ others[i].constraint_id = criteria[places[i]].constraint_id
          /\ others[i].kind = criteria[places[i]].kind
    <2>1. \A i \in DOMAIN others : \A field \in CONSTRAINT_FIELDS \ {"evidence"} :
              others[i][field] = criteria[places[i]][field]
        BY DEF Moved
    <2>2. \A i \in DOMAIN others :
              /\ others[i].constraint_id = criteria[places[i]].constraint_id
              /\ others[i].kind = criteria[places[i]].kind
        BY <2>1 DEF CONSTRAINT_FIELDS
    <2>3. \A i \in DOMAIN others :
              places[i] \in DOMAIN criteria /\ other[i].results = one[places[i]].results
        BY MovedReplays
    <2>4. QED
        BY <2>2, <2>3
<1>2. \A d \in DOMAIN criteria : \E i \in DOMAIN others : places[i] = d
    BY DEF Moved
<1>3. Open(others, other) = Open(criteria, one)
    BY <1>1, <1>2
<1>4. BlockingConstraints(others, other) = BlockingConstraints(criteria, one)
    BY <1>1, <1>2 DEF BlockingConstraints
<1>5. ASSUME Open(criteria, one) = {}
      PROVE  AllUsed(other) = AllUsed(one)
    <2>1. \A i \in DOMAIN criteria : ~Undecided(one[i].results)
        BY <1>5
    <2>2. Complete(ListsOf(criteria), one)
        BY <2>1 DEF Complete, ListsOf, Undecided
    <2>3. QED
        BY <2>2, MovedReplays
<1>6. /\ UnknownReasons(others, other, evidence)
            = Open(others, other) \cup Inexact(AllUsed(other), evidence)
      /\ UnknownReasons(criteria, one, evidence)
            = Open(criteria, one) \cup Inexact(AllUsed(one), evidence)
    BY DEF UnknownReasons
<1> HIDE DEF Open
<1>7. CASE Open(criteria, one) = {}
    BY <1>3, <1>4, <1>5, <1>6, <1>7 DEF PossibilityOutcome
<1>8. CASE Open(criteria, one) # {}
    <2>1. /\ UnknownReasons(others, other, evidence) # {}
          /\ UnknownReasons(criteria, one, evidence) # {}
        BY <1>3, <1>6, <1>8
    <2>2. ASSUME NEW unknown, unknown # {}, NEW kinds
          PROVE  Assessment(unknown, kinds) = "UNKNOWN"
        BY <2>2 DEF Assessment
    <2>3. QED
        BY <2>1, <2>2 DEF PossibilityOutcome
<1>9. QED
    BY <1>7, <1>8

\* Moved observations decide the same.
LEMMA ObservationsMoved ==
    ASSUME NEW others, NEW criteria, NEW places,
           Moved(others, criteria, places, OBSERVATION_FIELDS),
           \A i \in DOMAIN criteria : IsList(criteria[i].evidence),
           NEW evidence, NEW index,
           NEW one, one = ReplayAll(ListsOf(criteria), evidence, index),
           NEW other, other = ReplayAll(ListsOf(others), evidence, index)
    PROVE  ObservationOutcome(others, other, evidence)
               = ObservationOutcome(criteria, one, evidence)
<1> DEFINE statuses == ObservationStatuses(criteria, one)
           Open(items) == {Reason("observation_evidence_invalid", item.observation_id) :
                              item \in {item \in items : item.status = "UNKNOWN"}}
<1>1. \A i \in DOMAIN others :
          /\ places[i] \in DOMAIN criteria
          /\ other[i].results = one[places[i]].results
          /\ others[i].evidence = <<>> <=> criteria[places[i]].evidence = <<>>
          /\ others[i].observation_id = criteria[places[i]].observation_id
    <2>1. \A i \in DOMAIN others : \A field \in OBSERVATION_FIELDS \ {"evidence"} :
              others[i][field] = criteria[places[i]][field]
        BY DEF Moved
    <2>2. \A i \in DOMAIN others : others[i].observation_id = criteria[places[i]].observation_id
        BY <2>1 DEF OBSERVATION_FIELDS
    <2>3. \A i \in DOMAIN others :
              /\ places[i] \in DOMAIN criteria
              /\ other[i].results = one[places[i]].results
              /\ others[i].evidence = <<>> <=> criteria[places[i]].evidence = <<>>
        BY MovedReplays
    <2>4. QED
        BY <2>2, <2>3
<1>2. \A d \in DOMAIN criteria : \E i \in DOMAIN others : places[i] = d
    BY DEF Moved
<1>3. ObservationStatuses(others, other) = statuses
    <2>1. \A i \in DOMAIN others :
              Status(others[i].evidence, other[i].results) =
                  Status(criteria[places[i]].evidence, one[places[i]].results)
        BY <1>1 DEF Status
    <2>2. QED
        BY <1>1, <1>2, <2>1 DEF ObservationStatuses
<1>4. ASSUME Open(statuses) = {}
      PROVE  AllUsed(other) = AllUsed(one)
    <2>1. \A item \in statuses : item.status # "UNKNOWN"
        BY <1>4
    <2>2. \A i \in DOMAIN criteria : Status(criteria[i].evidence, one[i].results) # "UNKNOWN"
        <3> SUFFICES ASSUME NEW i \in DOMAIN criteria
                     PROVE  Status(criteria[i].evidence, one[i].results) # "UNKNOWN"
            OBVIOUS
        <3> DEFINE item == [observation_id |-> criteria[i].observation_id,
                            status |-> Status(criteria[i].evidence, one[i].results)]
        <3>1. item \in statuses
            BY DEF ObservationStatuses
        <3>2. QED
            BY <2>1, <3>1
    <2>3. ASSUME NEW i \in DOMAIN criteria, criteria[i].evidence # <<>>, one[i].results = {}
          PROVE  FALSE
        <3>1. Undecided(one[i].results) /\ ~Contradicted(one[i].results)
              /\ ~AllHeld(one[i].results)
            BY <2>3 DEF Undecided, Contradicted, AllHeld
        <3>2. Status(criteria[i].evidence, one[i].results) = "UNKNOWN"
            BY <2>3, <3>1 DEF Status
        <3>3. QED
            BY <2>2, <3>2
    <2>4. Complete(ListsOf(criteria), one)
        BY <2>3 DEF Complete, ListsOf
    <2>5. QED
        BY <2>4, MovedReplays
<1>5. /\ UnobservedReasons(statuses, other, evidence)
            = Open(statuses) \cup Inexact(AllUsed(other), evidence)
      /\ UnobservedReasons(statuses, one, evidence)
            = Open(statuses) \cup Inexact(AllUsed(one), evidence)
    BY DEF UnobservedReasons
<1>6. /\ ObservationOutcome(others, other, evidence)
            = Coverage(UnobservedReasons(statuses, other, evidence), statuses)
      /\ ObservationOutcome(criteria, one, evidence)
            = Coverage(UnobservedReasons(statuses, one, evidence), statuses)
    BY <1>3 DEF ObservationOutcome
<1> HIDE DEF Open, statuses
<1>7. CASE Open(statuses) = {}
    BY <1>4, <1>5, <1>6, <1>7
<1>8. CASE Open(statuses) # {}
    <2>1. ASSUME NEW unknown, unknown # {}
          PROVE  Coverage(unknown, statuses) = "UNKNOWN"
        BY <2>1 DEF Coverage
    <2>2. QED
        BY <1>5, <1>6, <1>8, <2>1
<1>9. QED
    BY <1>7, <1>8

\* The members of the concatenation of two lists, whatever they hold.
LEMMA ListsConcatenated ==
    ASSUME NEW left, NEW right, IsList(left), IsList(right)
    PROVE  /\ DOMAIN (left \o right) = 1..(Len(left) + Len(right))
           /\ \A i \in 1..(Len(left) + Len(right)) :
                 (left \o right)[i] = IF i <= Len(left) THEN left[i] ELSE right[i - Len(left)]
<1> DEFINE S == {left[i] : i \in DOMAIN left} \cup {right[i] : i \in DOMAIN right}
<1>1. ASSUME NEW list, IsList(list), {list[i] : i \in DOMAIN list} \subseteq S
      PROVE  list \in Seq(S)
    <2> DEFINE T == {list[i] : i \in DOMAIN list}
    <2>1. list \in Seq(T) /\ T \subseteq S
        BY <1>1 DEF IsList
    <2> HIDE DEF S, T
    <2>2. QED
        BY <2>1
<1>2. left \in Seq(S) /\ right \in Seq(S)
    BY <1>1
<1> HIDE DEF S
<1>3. QED
    BY <1>2, ConcatenatedMembers

\* The places of reversed criteria in a concatenation of two lists.
LEMMA ConcatenationMoves ==
    ASSUME NEW left, NEW right, IsList(left), IsList(right),
           NEW otherLeft, NEW otherRight, IsList(otherLeft), IsList(otherRight),
           DOMAIN otherLeft = DOMAIN left, DOMAIN otherRight = DOMAIN right,
           NEW leftPlaces, NEW rightPlaces,
           Moved(otherLeft, left, leftPlaces, {"evidence"}),
           Moved(otherRight, right, rightPlaces, {"evidence"})
    PROVE  \E places : Moved(otherLeft \o otherRight, left \o right, places, {"evidence"})
<1> DEFINE m == Len(left)
           n == Len(right)
           one == left \o right
           other == otherLeft \o otherRight
           places == [i \in 1..(m + n) |-> IF i <= m THEN leftPlaces[i]
                                           ELSE rightPlaces[i - m] + m]
<1>1. /\ DOMAIN left = 1..m /\ m \in Nat /\ DOMAIN right = 1..n /\ n \in Nat
      /\ DOMAIN otherLeft = 1..Len(otherLeft) /\ Len(otherLeft) \in Nat
      /\ DOMAIN otherRight = 1..Len(otherRight) /\ Len(otherRight) \in Nat
    BY ReversedPlaces
<1>2. Len(otherLeft) = m /\ Len(otherRight) = n
    <2>1. ASSUME NEW i \in Nat, NEW j \in Nat, 1..i = 1..j
          PROVE  i = j
        <3>1. (i \in 1..i => i \in 1..j) /\ (j \in 1..j => j \in 1..i)
            BY <2>1
        <3>2. QED
            BY <3>1
    <2>2. QED
        BY <1>1, <2>1
<1>3. /\ DOMAIN one = 1..(m + n)
      /\ \A i \in 1..(m + n) : one[i] = IF i <= m THEN left[i] ELSE right[i - m]
    BY ListsConcatenated
<1>4. /\ DOMAIN other = 1..(m + n)
      /\ \A i \in 1..(m + n) : other[i] = IF i <= m THEN otherLeft[i] ELSE otherRight[i - m]
    BY <1>2, ListsConcatenated
<1>5. /\ \A i \in 1..m : leftPlaces[i] \in 1..m
                         /\ otherLeft[i].evidence = Reverse(left[leftPlaces[i]].evidence)
      /\ \A d \in 1..m : \E i \in 1..m : leftPlaces[i] = d
    BY <1>1 DEF Moved
<1>6. /\ \A i \in 1..n : rightPlaces[i] \in 1..n
                         /\ otherRight[i].evidence = Reverse(right[rightPlaces[i]].evidence)
      /\ \A d \in 1..n : \E i \in 1..n : rightPlaces[i] = d
    BY <1>1 DEF Moved
<1> HIDE DEF m, n, one, other
<1>7. /\ \A i \in 1..m : i \in 1..(m + n) /\ i <= m
      /\ \A k \in 1..n : k + m \in 1..(m + n) /\ ~(k + m <= m) /\ k + m - m = k
      /\ \A i \in 1..(m + n) : IF i <= m THEN i \in 1..m
                               ELSE \E k \in 1..n : i = k + m
    <2>1. \A i \in 1..m : i \in 1..(m + n) /\ i <= m
        BY <1>1
    <2>2. \A k \in 1..n : k + m \in 1..(m + n) /\ ~(k + m <= m) /\ k + m - m = k
        BY <1>1
    <2>3. ASSUME NEW i \in 1..(m + n), ~(i <= m)
          PROVE  i - m \in 1..n /\ i = (i - m) + m
        BY <1>1, <2>3
    <2>4. \A i \in 1..(m + n) : i <= m => i \in 1..m
        BY <1>1
    <2>5. QED
        BY <2>1, <2>2, <2>3, <2>4
<1>8. /\ \A i \in 1..m : /\ places[i] = leftPlaces[i]
                         /\ one[i] = left[i] /\ other[i] = otherLeft[i]
      /\ \A k \in 1..n : /\ places[k + m] = rightPlaces[k] + m
                         /\ one[k + m] = right[k] /\ other[k + m] = otherRight[k]
    <2>1. ASSUME NEW i \in 1..m
          PROVE  /\ places[i] = leftPlaces[i]
                 /\ one[i] = left[i] /\ other[i] = otherLeft[i]
        BY <1>3, <1>4, <1>7
    <2>2. ASSUME NEW k \in 1..n
          PROVE  /\ places[k + m] = rightPlaces[k] + m
                 /\ one[k + m] = right[k] /\ other[k + m] = otherRight[k]
        <3>1. PICK i \in Nat : i = k + m
            BY <1>1
        <3>2. i \in 1..(m + n) /\ ~(i <= m) /\ i - m = k
            BY <1>1, <3>1
        <3>3. /\ places[i] = rightPlaces[k] + m
              /\ one[i] = right[k] /\ other[i] = otherRight[k]
            BY <1>3, <1>4, <3>2
        <3>4. QED
            BY <3>1, <3>3
    <2>3. QED
        BY <2>1, <2>2
<1>9. \A i \in 1..(m + n) :
          /\ places[i] \in 1..(m + n)
          /\ other[i].evidence = Reverse(one[places[i]].evidence)
    <2> HIDE DEF places
    <2>1. ASSUME NEW i \in 1..m
          PROVE  /\ places[i] \in 1..(m + n)
                 /\ other[i].evidence = Reverse(one[places[i]].evidence)
        BY <1>5, <1>7, <1>8
    <2>2. ASSUME NEW k \in 1..n
          PROVE  /\ places[k + m] \in 1..(m + n)
                 /\ other[k + m].evidence = Reverse(one[places[k + m]].evidence)
        BY <1>6, <1>7, <1>8
    <2>3. QED
        BY <1>7, <2>1, <2>2
<1>10. \A d \in 1..(m + n) : \E i \in 1..(m + n) : places[i] = d
    <2> HIDE DEF places
    <2>1. ASSUME NEW d \in 1..m
          PROVE  \E i \in 1..(m + n) : places[i] = d
        BY <1>5, <1>7, <1>8
    <2>2. ASSUME NEW k \in 1..n
          PROVE  \E i \in 1..(m + n) : places[i] = k + m
        BY <1>6, <1>7, <1>8
    <2>3. QED
        BY <1>7, <2>1, <2>2
<1>11. places \in [1..(m + n) -> 1..(m + n)]
    BY <1>9
<1> HIDE DEF places
<1>12. Moved(other, one, places, {"evidence"})
    BY <1>3, <1>4, <1>9, <1>10, <1>11 DEF Moved
<1>13. QED
    BY <1>12 DEF one, other

\* Moved invariants and measures decide the same.
LEMMA ComparisonMoved ==
    ASSUME NEW invariants, NEW measures, FormedComparison(invariants, measures),
           NEW otherInvariants, NEW otherMeasures,
           otherInvariants = Backward(invariants), otherMeasures = Backward(measures),
           NEW evidence, NEW index,
           NEW one, one = ReplayAll(ListsOf(Criteria(invariants, measures)), evidence, index),
           NEW other,
           other = ReplayAll(ListsOf(Criteria(otherInvariants, otherMeasures)), evidence, index)
    PROVE  /\ ComparisonOutcome(otherInvariants, otherMeasures, other, evidence)
                  = ComparisonOutcome(invariants, measures, one, evidence)
           /\ DOMAIN otherMeasures = DOMAIN measures
<1> DEFINE criteria == Criteria(invariants, measures)
           others == Criteria(otherInvariants, otherMeasures)
<1>1. /\ Formed(invariants, INVARIANT_FIELDS) /\ Formed(measures, MEASURE_FIELDS)
      /\ IsList(invariants) /\ IsList(measures)
    BY DEF FormedComparison, Formed
<1>2. /\ IsList(otherInvariants) /\ DOMAIN otherInvariants = DOMAIN invariants
      /\ \E places : Moved(otherInvariants, invariants, places, INVARIANT_FIELDS)
    BY <1>1, BackwardMoves DEF INVARIANT_FIELDS
<1>3. /\ IsList(otherMeasures) /\ DOMAIN otherMeasures = DOMAIN measures
      /\ \E places : Moved(otherMeasures, measures, places, MEASURE_FIELDS)
    BY <1>1, BackwardMoves DEF MEASURE_FIELDS
<1>4. PICK first : Moved(otherInvariants, invariants, first, INVARIANT_FIELDS)
    BY <1>2
<1>5. PICK second : Moved(otherMeasures, measures, second, MEASURE_FIELDS)
    BY <1>3
<1>6. PICK places : Moved(others, criteria, places, {"evidence"})
    <2>1. /\ Moved(otherInvariants, invariants, first, {"evidence"})
          /\ Moved(otherMeasures, measures, second, {"evidence"})
        BY <1>4, <1>5 DEF Moved
    <2>2. QED
        BY <1>1, <1>2, <1>3, <2>1, ConcatenationMoves DEF Criteria
<1>7. \A i \in DOMAIN criteria : IsList(criteria[i].evidence)
    <2>1. /\ DOMAIN criteria = 1..(Len(invariants) + Len(measures))
          /\ \A i \in 1..(Len(invariants) + Len(measures)) :
                criteria[i] = IF i <= Len(invariants) THEN invariants[i]
                              ELSE measures[i - Len(invariants)]
        BY <1>1, ListsConcatenated DEF Criteria
    <2>2. /\ DOMAIN invariants = 1..Len(invariants) /\ Len(invariants) \in Nat
          /\ DOMAIN measures = 1..Len(measures) /\ Len(measures) \in Nat
        BY <1>1, ReversedPlaces
    <2>3. /\ \A i \in DOMAIN invariants : IsList(invariants[i].evidence)
          /\ \A i \in DOMAIN measures : IsList(measures[i].evidence)
        BY <1>1 DEF Formed
    <2> HIDE DEF criteria
    <2>4. ASSUME NEW i \in DOMAIN criteria
          PROVE  IsList(criteria[i].evidence)
        <3>1. CASE i <= Len(invariants)
            <4>1. i \in DOMAIN invariants /\ criteria[i] = invariants[i]
                BY <2>1, <2>2, <3>1
            <4>2. QED
                BY <2>3, <4>1
        <3>2. CASE ~(i <= Len(invariants))
            <4>1. i - Len(invariants) \in DOMAIN measures
                BY <2>1, <2>2, <3>2
            <4>2. criteria[i] = measures[i - Len(invariants)]
                BY <2>1, <3>2
            <4>3. QED
                BY <2>3, <4>1, <4>2
        <3>3. QED
            BY <3>1, <3>2
    <2>5. QED
        BY <2>4
<1> HIDE DEF criteria, others
<1>8. /\ DOMAIN one = DOMAIN criteria /\ DOMAIN other = DOMAIN others
      /\ \A i \in DOMAIN others :
            places[i] \in DOMAIN criteria /\ other[i].results = one[places[i]].results
      /\ Complete(ListsOf(criteria), one) => AllUsed(other) = AllUsed(one)
    <2>1. /\ one = ReplayAll(ListsOf(criteria), evidence, index)
          /\ other = ReplayAll(ListsOf(others), evidence, index)
        BY DEF criteria, others
    <2>2. QED
        BY <1>6, <1>7, <2>1, MovedReplays
<1>9. \A d \in DOMAIN criteria : \E i \in DOMAIN others : places[i] = d
    BY <1>6 DEF Moved
<1>10. (\A i \in DOMAIN other : AllHeld(other[i].results)) <=>
           \A i \in DOMAIN one : AllHeld(one[i].results)
    BY <1>8, <1>9
<1>11. (\A i \in DOMAIN one : AllHeld(one[i].results)) => AllUsed(other) = AllUsed(one)
    <2> SUFFICES ASSUME \A i \in DOMAIN one : AllHeld(one[i].results)
                 PROVE  Complete(ListsOf(criteria), one)
        BY <1>8
    <2>1. QED
        BY <1>8 DEF Complete, ListsOf, AllHeld
<1>12. /\ first \in [DOMAIN otherInvariants -> DOMAIN invariants]
       /\ \A d \in DOMAIN invariants : \E i \in DOMAIN otherInvariants : first[i] = d
       /\ \A i \in DOMAIN otherInvariants :
             /\ otherInvariants[i].baseline_holds = invariants[first[i]].baseline_holds
             /\ otherInvariants[i].candidate_holds = invariants[first[i]].candidate_holds
    <2>1. \A i \in DOMAIN otherInvariants : \A field \in INVARIANT_FIELDS \ {"evidence"} :
              otherInvariants[i][field] = invariants[first[i]][field]
        BY <1>4 DEF Moved
    <2>2. \A i \in DOMAIN otherInvariants :
              /\ otherInvariants[i].baseline_holds = invariants[first[i]].baseline_holds
              /\ otherInvariants[i].candidate_holds = invariants[first[i]].candidate_holds
        BY <2>1 DEF INVARIANT_FIELDS
    <2>3. QED
        BY <1>4, <2>2 DEF Moved
<1>13. /\ second \in [DOMAIN otherMeasures -> DOMAIN measures]
       /\ \A d \in DOMAIN measures : \E i \in DOMAIN otherMeasures : second[i] = d
       /\ \A i \in DOMAIN otherMeasures : Sign(otherMeasures[i]) = Sign(measures[second[i]])
    <2>1. \A i \in DOMAIN otherMeasures : \A field \in MEASURE_FIELDS \ {"evidence"} :
              otherMeasures[i][field] = measures[second[i]][field]
        BY <1>5 DEF Moved
    <2>2. \A i \in DOMAIN otherMeasures :
              /\ otherMeasures[i].direction = measures[second[i]].direction
              /\ otherMeasures[i].baseline = measures[second[i]].baseline
              /\ otherMeasures[i].candidate = measures[second[i]].candidate
        BY <2>1 DEF MEASURE_FIELDS
    <2>3. \A i \in DOMAIN otherMeasures : Sign(otherMeasures[i]) = Sign(measures[second[i]])
        BY <2>2 DEF Sign, Delta, Mixed
    <2>4. QED
        BY <1>5, <2>3 DEF Moved
<1>14. ASSUME NEW I, NEW M, NEW replays
       PROVE  Uncompared(I, M, replays, evidence) = {} <=>
                  /\ \A i \in DOMAIN replays : AllHeld(replays[i].results)
                  /\ \A i \in DOMAIN I : I[i].baseline_holds
                  /\ Inexact(AllUsed(replays), evidence) = {}
    BY DEF Uncompared
<1>15. Uncompared(otherInvariants, otherMeasures, other, evidence) = {} <=>
           Uncompared(invariants, measures, one, evidence) = {}
    <2>1. (\A i \in DOMAIN otherInvariants : otherInvariants[i].baseline_holds) <=>
              \A i \in DOMAIN invariants : invariants[i].baseline_holds
        BY <1>12
    <2>2. QED
        BY <1>10, <1>11, <1>14, <2>1
<1>16. InvariantRegression(otherInvariants) <=> InvariantRegression(invariants)
    BY <1>12 DEF InvariantRegression
<1>17. {Sign(otherMeasures[i]) : i \in DOMAIN otherMeasures}
           = {Sign(measures[i]) : i \in DOMAIN measures}
    BY <1>13
<1>18. ComparisonOutcome(otherInvariants, otherMeasures, other, evidence)
           = ComparisonOutcome(invariants, measures, one, evidence)
    BY <1>15, <1>16, <1>17 DEF ComparisonOutcome, Classification
<1>19. QED
    BY <1>3, <1>18

\* However many criteria are declared and references cited, reversing them
\* decides nothing.
THEOREM OrderIrrelevantAlways == Spec => []OrderIrrelevant
<1>1. IInv /\ Shaped => OrderIrrelevant
    <2> SUFFICES ASSUME IInv, Shaped,
                        Kind \in {"possibility", "missing_observation", "comparison"}
                 PROVE  OrderIrrelevant
        BY DEF OrderIrrelevant
    <2> DEFINE home == IndexOf(made)
               body == made.body
               evidence == body.evidence
    <2>1. made # None /\ Kind = body.type
        BY DEF Kind
    <2>2. CASE Kind = "possibility"
        <3> DEFINE constraints == body.constraints
                   others == Backward(constraints)
                   reversed == [body |-> [body EXCEPT !.constraints = others]]
                   again == Redecided(reversed, home)
        <3>1. VerifyPossibility(made, home)
            BY <2>2, MadeByKind
        <3>2. /\ made = AssessPossibility(body.scope, constraints, evidence, home)
              /\ \A i \in DOMAIN constraints : constraints[i].kind \in CONSTRAINT_KINDS
            BY <3>1 DEF VerifyPossibility, MayAssessPossibility
        <3>3. again = AssessPossibility(body.scope, others, evidence, home)
            <4>1. PossibilityBody(body)
                BY <3>1, PossibilityShape
            <4>2. /\ reversed.body.type = "possibility"
                  /\ reversed.body.scope = body.scope
                  /\ reversed.body.constraints = others
                  /\ reversed.body.evidence = evidence
                BY <2>1, <2>2, <4>1 DEF PossibilityBody
            <4> HIDE DEF reversed, others
            <4>3. QED
                BY <4>2 DEF Redecided
        <3>4. /\ Formed(constraints, CONSTRAINT_FIELDS)
              /\ \A i \in DOMAIN constraints : IsList(constraints[i].evidence)
            BY <2>2 DEF Shaped, Formed
        <3> HIDE DEF again, constraints, evidence, home, others
        <3>5. PICK places : Moved(others, constraints, places, CONSTRAINT_FIELDS)
            BY <3>4, BackwardMoves DEF CONSTRAINT_FIELDS, others
        <3>6. \A i \in DOMAIN others : others[i].kind \in CONSTRAINT_KINDS
            <4>1. \A i \in DOMAIN others : others[i].kind = constraints[places[i]].kind
                BY <3>5 DEF Moved, CONSTRAINT_FIELDS
            <4>2. \A i \in DOMAIN others : places[i] \in DOMAIN constraints
                BY <3>5 DEF Moved
            <4>3. QED
                BY <3>2, <4>1, <4>2
        <3>7. /\ Outcome(made) = PossibilityOutcome(constraints,
                                     ReplayAll(ListsOf(constraints), evidence, home), evidence)
              /\ Outcome(again) = PossibilityOutcome(others,
                                     ReplayAll(ListsOf(others), evidence, home), evidence)
            BY <3>2, <3>3, <3>6, PossibilityByReplays
        <3>8. Outcome(again) = Outcome(made)
            BY <3>4, <3>5, <3>7, PossibilityMoved
        <3>9. QED
            BY <2>2, <3>8 DEF OrderIrrelevant, again, others, constraints, home, Backward
    <2>3. CASE Kind = "missing_observation"
        <3> DEFINE observations == body.required_observations
                   others == Backward(observations)
                   reversed == [body |-> [body EXCEPT !.required_observations = others]]
                   again == Redecided(reversed, home)
        <3>1. VerifyObservations(made, home)
            BY <2>3, MadeByKind
        <3>2. made = AssessObservations(body.scope, observations, evidence, home)
            BY <3>1 DEF VerifyObservations
        <3>3. again = AssessObservations(body.scope, others, evidence, home)
            <4>1. ObservationsBody(body)
                BY <3>1, ObservationShape
            <4>2. /\ reversed.body.type = "missing_observation"
                  /\ reversed.body.scope = body.scope
                  /\ reversed.body.required_observations = others
                  /\ reversed.body.evidence = evidence
                BY <2>1, <2>3, <4>1 DEF ObservationsBody
            <4> HIDE DEF reversed, others
            <4>3. QED
                BY <4>2 DEF Redecided
        <3>4. /\ Formed(observations, OBSERVATION_FIELDS)
              /\ \A i \in DOMAIN observations : IsList(observations[i].evidence)
            BY <2>3 DEF Shaped, Formed
        <3> HIDE DEF again, observations, evidence, home, others
        <3>5. PICK places : Moved(others, observations, places, OBSERVATION_FIELDS)
            BY <3>4, BackwardMoves DEF OBSERVATION_FIELDS, others
        <3>6. /\ Outcome(made) = ObservationOutcome(observations,
                                     ReplayAll(ListsOf(observations), evidence, home), evidence)
              /\ Outcome(again) = ObservationOutcome(others,
                                     ReplayAll(ListsOf(others), evidence, home), evidence)
            BY <3>2, <3>3, ObservationsByReplays
        <3>7. Outcome(again) = Outcome(made)
            BY <3>4, <3>5, <3>6, ObservationsMoved
        <3>8. QED
            BY <2>3, <3>7 DEF OrderIrrelevant, again, others, observations, home, Backward
    <2>4. CASE Kind = "comparison"
        <3> DEFINE invariants == body.invariants
                   measures == body.measures
                   otherInvariants == Backward(invariants)
                   otherMeasures == Backward(measures)
                   reversed == [body |-> [body EXCEPT !.invariants = otherInvariants,
                                                      !.measures = otherMeasures]]
                   again == Redecided(reversed, home)
        <3>1. VerifyComparison(made, home)
            BY <2>4, MadeByKind
        <3>2. made = CompareDirectional(body.scope, invariants, measures, evidence, home)
            BY <3>1 DEF VerifyComparison
        <3>3. again = CompareDirectional(body.scope, otherInvariants, otherMeasures,
                                         evidence, home)
            <4>1. ComparisonBody(body)
                BY <3>1, ComparisonShape
            <4>2. /\ reversed.body.type = "comparison"
                  /\ reversed.body.scope = body.scope
                  /\ reversed.body.invariants = otherInvariants
                  /\ reversed.body.measures = otherMeasures
                  /\ reversed.body.evidence = evidence
                BY <2>1, <2>4, <4>1 DEF ComparisonBody
            <4> HIDE DEF reversed, otherInvariants, otherMeasures
            <4>3. QED
                BY <4>2 DEF Redecided
        <3>4. FormedComparison(invariants, measures) /\ DOMAIN measures # {}
            BY <2>4 DEF Shaped
        <3> DEFINE one == ReplayAll(ListsOf(Criteria(invariants, measures)), evidence, home)
                   other == ReplayAll(ListsOf(Criteria(otherInvariants, otherMeasures)),
                                      evidence, home)
        <3> HIDE DEF again, invariants, measures, evidence, home, otherInvariants, otherMeasures
        <3>5. /\ ComparisonOutcome(otherInvariants, otherMeasures, other, evidence)
                     = ComparisonOutcome(invariants, measures, one, evidence)
              /\ DOMAIN otherMeasures = DOMAIN measures
            BY <3>4, ComparisonMoved DEF otherInvariants, otherMeasures
        <3>6. /\ Outcome(made) = ComparisonOutcome(invariants, measures, one, evidence)
              /\ Outcome(again) = ComparisonOutcome(otherInvariants, otherMeasures, other,
                                                    evidence)
            BY <3>2, <3>3, <3>4, <3>5, ComparisonByReplays
        <3>7. Outcome(again) = Outcome(made)
            BY <3>5, <3>6
        <3>8. QED
            BY <2>4, <3>7 DEF OrderIrrelevant, again, otherInvariants, otherMeasures,
                              invariants, measures, home, Backward
    <2>5. QED
        BY <2>2, <2>3, <2>4
<1>2. QED
    BY <1>1, GrowingHolds, PTL
=============================================================================
