----------------------- MODULE DirectionalComparator -----------------------
(***************************************************************************)
(* free_valid_ai/directional_comparator.py: whether a candidate advances   *)
(* on a baseline.                                                          *)
(*   scope      [task_id, baseline_id, candidate_id]                       *)
(*   invariant  [name, baseline_holds, candidate_holds, evidence]          *)
(*   measure    [name, direction, baseline, candidate, evidence]           *)
(* A number is a record [value, real].  Integers are exact.  A real has 53 *)
(* bits, here 3: up to PRECISE it holds every integer, above only the even *)
(* ones, and above LARGEST none.                                           *)
(***************************************************************************)
EXTENDS Evidence, Integers

INVARIANT_FIELDS == {"name", "baseline_holds", "candidate_holds", "evidence"}
MEASURE_FIELDS == {"name", "direction", "baseline", "candidate", "evidence"}
DIRECTIONS == {"HIGHER_IS_BETTER", "LOWER_IS_BETTER"}

PRECISE == 8   \* 2 ** 53
LARGEST == 16  \* the largest finite double

Number(value, real) == [value |-> value, real |-> real]
Size(value) == IF value < 0 THEN -value ELSE value
IsNumber(number) ==
    /\ number.value \in Int
    /\ number.real =>
          /\ Size(number.value) <= LARGEST
          /\ Size(number.value) > PRECISE => number.value % 2 = 0

\* Python rounds an integer to the nearest real before it subtracts a real, and
\* half way to the one with the even mantissa.
Nearest(value) ==
    IF Size(value) <= PRECISE \/ value % 2 = 0 THEN value
    ELSE IF value % 4 = 1 THEN value - 1 ELSE value + 1

Mixed(measure) == measure.baseline.real # measure.candidate.real

\* OverflowError: an integer that is no finite real.
Overflows(measure) ==
    Mixed(measure) /\ \E number \in {measure.baseline, measure.candidate} :
        Size(Nearest(number.value)) > LARGEST

Delta(measure) ==
    IF Mixed(measure)
      THEN Nearest(measure.candidate.value) - Nearest(measure.baseline.value)
      ELSE measure.candidate.value - measure.baseline.value

SignOf(delta) == IF delta > 0 THEN 1 ELSE IF delta < 0 THEN -1 ELSE 0

\* Mutated form of Sign: every measure is read as higher is better.
SignOfDelta(measure) == SignOf(Delta(measure))

Sign(measure) ==
    SignOf(IF measure.direction = "LOWER_IS_BETTER" THEN -Delta(measure) ELSE Delta(measure))

-----------------------------------------------------------------------------
Criteria(invariants, measures) == invariants \o measures

MayCompare(scope, invariants, measures, index) ==
    /\ VerifyIndex(index)
    /\ scope.baseline_id # scope.candidate_id
    /\ invariants # <<>> /\ measures # <<>>
    /\ \A i, j \in DOMAIN Criteria(invariants, measures) :
          Criteria(invariants, measures)[i].name = Criteria(invariants, measures)[j].name
              => i = j
    /\ \A i \in DOMAIN measures :
          measures[i].direction \in DIRECTIONS /\ ~Overflows(measures[i])

Uncompared(invariants, measures, replays, evidence) ==
    {Reason("evidence_incomplete", Criteria(invariants, measures)[i].name) :
        i \in {i \in DOMAIN replays : ~AllHeld(replays[i].results)}}
    \cup {Reason("baseline_invariant_not_established", invariants[i].name) :
        i \in {i \in DOMAIN invariants : ~invariants[i].baseline_holds}}
    \cup Inexact(AllUsed(replays), evidence)

InvariantRegression(invariants) ==
    \E i \in DOMAIN invariants :
        invariants[i].baseline_holds /\ ~invariants[i].candidate_holds

\* Mutated form of Direction: any measure that improved is an advance.
DirectionOfAny(signs) ==
    CASE signs = {0} -> "EQUIVALENT"
      [] 1 \in signs -> "ADVANCED"
      [] signs \subseteq {-1, 0} /\ -1 \in signs -> "REGRESSED"

Direction(signs) ==
    CASE signs = {0} -> "EQUIVALENT"
      [] signs \subseteq {0, 1} /\ 1 \in signs -> "ADVANCED"
      [] signs \subseteq {-1, 0} /\ -1 \in signs -> "REGRESSED"
      [] {-1, 1} \subseteq signs -> "MIXED"

Classification(unknown, invariants, measures) ==
    IF unknown # {} THEN "UNKNOWN"
    ELSE IF InvariantRegression(invariants) THEN "REGRESSED"
    ELSE Direction({Sign(measures[i]) : i \in DOMAIN measures})

ComparisonRecord(scope, invariants, measures, replays, evidence, index) ==
    LET unknown == Uncompared(invariants, measures, replays, evidence)
    IN  Seal([type |-> "comparison",
              scope |-> scope,
              frozen_index_hash |-> index.hash,
              invariants |-> invariants,
              measures |-> measures,
              evidence |-> evidence,
              classification |-> Classification(unknown, invariants, measures),
              unknown_reasons |-> unknown])

CompareDirectional(scope, invariants, measures, evidence, index) ==
    LET criteria == Criteria(invariants, measures)
    IN  ComparisonRecord(scope, invariants, measures,
                         [i \in DOMAIN criteria |->
                             Replay(criteria[i].evidence, evidence, index)],
                         evidence, index)

VerifyComparison(record, index) ==
    /\ record.body.type = "comparison"
    /\ MayCompare(record.body.scope, record.body.invariants, record.body.measures, index)
    /\ record = CompareDirectional(record.body.scope, record.body.invariants,
                                   record.body.measures, record.body.evidence, index)
=============================================================================
