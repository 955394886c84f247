------------------------- MODULE MCDecisionRecords -------------------------
(* An instance of DecisionRecords for TLC.                                 *)
EXTENDS DecisionRecords

Json(field, value) ==
    [json |-> TRUE, document |-> JsonObject([key \in {<<field>>} |-> JsonValue(value)])]
NotJson(value) == [json |-> FALSE, text |-> value]
Source(source) ==
    [type |-> CHECK_TYPE, version |-> 1, source_sha256 |-> Digest(source),
     expected |-> Digest(source)]
Value(source, field, value) ==
    [type |-> JSON_CHECK_TYPE, version |-> 1, source_sha256 |-> Digest(source),
     expected |-> JsonValue(value), pointer |-> FieldPointer(field)]

\* An item whose receipt is the one the check computes.
Item(check_id, check_version, matter, observed) ==
    LET claim == Claim(matter, "author", 0, {}, None)
    IN  [check_id |-> check_id, check_version |-> check_version, claim |-> claim,
         observed |-> observed,
         receipt |-> Run(RUNNERS[check_id], claim, "verifier", 0, observed, None)]

\* An id says what the item is about, the value its claim expects, and how it
\* fares: HELD, CONTRADICTED, UNKNOWN or BLOCKED; HELD by the version admitted
\* latest, or by the source check; about another field; HELD in a receipt that
\* was rewritten; or with a field missing.
Observed(field, value, quality) ==
    CASE quality \in {"CONTRADICTED", "FORGED", "MALFORMED", "UNKNOWN"} -> Json(field, "OTHER")
      [] quality = "BLOCKED" -> NotJson(value)
      [] quality = "REBOUND" -> Json("b", value)
      [] OTHER -> Json(field, value)

\* UNKNOWN bytes are not those of the claim's source.
Matter(field, value, quality, observed) ==
    CASE quality = "SOURCE" -> Source(observed)
      [] quality = "UNKNOWN" -> Value(Json(field, value), field, value)
      [] quality = "REBOUND" -> Value(observed, "b", value)
      [] OTHER -> Value(observed, field, value)

Spoilt(item, quality) ==
    CASE quality = "FORGED" ->
            [item EXCEPT !.receipt = Seal([item.receipt.body EXCEPT !.result = "HELD"])]
      [] quality = "MALFORMED" -> [claim |-> item.claim]
      [] OTHER -> item

MCItem(field, value, quality) ==
    LET observed == Observed(field, value, quality)
    IN  Spoilt(Item(IF quality = "SOURCE" THEN 2 ELSE 1, IF quality = "LATEST" THEN 0 ELSE 1,
                    Matter(field, value, quality, observed), observed), quality)

Qualities == {"HELD", "CONTRADICTED", "UNKNOWN", "BLOCKED", "LATEST", "SOURCE", "REBOUND",
              "FORGED", "MALFORMED"}
Scopes == [people_scope |-> PEOPLE_SCOPES, systems_scope |-> SYSTEM_SCOPES,
           reversibility |-> REVERSIBILITY]
A(quality) == <<"a", "A", quality>>
Ids == {A(quality) : quality \in Qualities}
       \cup UNION {{<<field, value, quality>> : value \in Scopes[field],
                       quality \in {"HELD", "CONTRADICTED", "REBOUND"}} : field \in Fields}
MCItems == [id \in Ids |-> MCItem(id[1], id[2], id[3])]

-----------------------------------------------------------------------------
(* Version 1 admits the value check, version 2 the source check, version 3 *)
(* a second value check with a procedure no receipt follows: the same text *)
(* under another id.                                                       *)

Check(check_id, check_version, procedure, active_from, supersedes) ==
    AdmittedCheck(Reference(check_id, check_version),
                  [id |-> procedure.id, sha256 |-> procedure.sha256,
                   mode |-> "DETERMINISTIC", independent |-> TRUE],
                  {}, active_from, supersedes)

MCFirstEntries == {Check(1, 1, Procedure(JSON_CHECK_TYPE), 1, None)}
MCLaterEntries == {Check(2, 1, Procedure(CHECK_TYPE), 2, None),
                   Check(1, 2, [Procedure(JSON_CHECK_TYPE) EXCEPT !.id = "another"], 3,
                         Reference(1, 1))}

-----------------------------------------------------------------------------
(* Reference lists, and the evidence that is supplied with them: what they *)
(* cite, one item more, or one item less.                                  *)

Single == {<<>>} \cup {<<A(quality)>> : quality \in Qualities}
Double == {<<A("CONTRADICTED"), A("HELD")>>, <<A("UNKNOWN"), A("HELD")>>,
           <<A("FORGED"), A("HELD")>>}
Lists == Single \cup Double
Few == {<<>>, <<A("HELD")>>, <<A("CONTRADICTED")>>, <<A("BLOCKED")>>, <<A("SOURCE")>>,
        <<A("LATEST")>>, <<A("FORGED"), A("HELD")>>}

Cited(lists) == UNION {{list[i] : i \in DOMAIN list} : list \in lists}
Supplied(lists) ==
    {Cited(lists), Cited(lists) \cup {<<"people_scope", "NONE", "HELD">>},
     Cited(lists) \ {A("HELD")}}

Constraint(id, kind, list) == [constraint_id |-> id, kind |-> kind, evidence |-> list]
Scope(proposal) == [proposal |-> proposal, environment_id |-> "here"]

\* What the actions propose, and what nothing else speaks of.
OneConstraint ==
    {[scope |-> Scope("deploy"), evidence |-> Cited({list}),
      constraints |-> <<Constraint(1, "LOGICAL", list)>>] : list \in Few}
    \cup {[scope |-> Scope("deploy"), evidence |-> {A("CONTRADICTED")},
           constraints |-> <<Constraint(1, kind, <<A("CONTRADICTED")>>)>>] :
              kind \in CONSTRAINT_KINDS}
KindPairs == {<<"LOGICAL", "SCOPE">>, <<"SCOPE", "RESOURCE">>, <<"RESOURCE", "LOGICAL">>}
TwoConstraints ==
    UNION {{[scope |-> Scope("other"), evidence |-> evidence,
             constraints |-> <<Constraint(1, kinds[1], lists[1]), Constraint(id, kinds[2], lists[2])>>] :
               kinds \in KindPairs, id \in {1, 2},
               evidence \in Supplied({lists[1], lists[2]})} : lists \in Lists \X Few}
MCProposals == OneConstraint \cup TwoConstraints

Observation(id, list) == [observation_id |-> id, evidence |-> list]
MCObservations ==
    UNION {{[scope |-> Scope("deploy"), evidence |-> evidence, observations |-> observations] :
               evidence \in Supplied({lists[1], lists[2]}),
               observations \in {<<Observation(1, lists[1])>>,
                                 <<Observation(1, lists[1]), Observation(2, lists[2])>>}} :
           lists \in Lists \X Few}
    \cup {[scope |-> Scope("deploy"), evidence |-> {A("HELD")},
           observations |-> <<Observation(1, <<A("HELD"), A("HELD")>>)>>]}

-----------------------------------------------------------------------------
(* Comparisons.                                                            *)

Numbers == {Number(value, FALSE) : value \in {-9, 8, 9, 10, 18}}
           \cup {Number(value, TRUE) : value \in {8, 10}}
Held == <<A("HELD")>>
Measure(name, direction, baseline, candidate, list) ==
    [name |-> name, direction |-> direction, baseline |-> baseline, candidate |-> candidate,
     evidence |-> list]
Invariant(baseline_holds, candidate_holds, list) ==
    [name |-> "i", baseline_holds |-> baseline_holds, candidate_holds |-> candidate_holds,
     evidence |-> list]

First == {Measure("m", direction, baseline, candidate, Held) :
             direction \in DIRECTIONS, baseline \in Numbers, candidate \in Numbers}
Second == {Measure("n", "HIGHER_IS_BETTER", Number(9, FALSE), Number(candidate, FALSE), list) :
              candidate \in {8, 9, 10}, list \in {Held, <<A("CONTRADICTED")>>}}
          \cup {Measure("i", "HIGHER_IS_BETTER", Number(9, FALSE), Number(10, FALSE), Held)}
Measures == {<<measure>> : measure \in First}
            \cup {<<first, second>> : first \in First, second \in Second}
Invariants == {<<Invariant(baseline, candidate, Held)>> :
                  baseline \in BOOLEAN, candidate \in BOOLEAN}
              \cup {<<Invariant(TRUE, TRUE, list)>> : list \in {<<>>, <<A("SOURCE")>>}}
Criterias == ({<<Invariant(TRUE, TRUE, Held)>>} \X Measures)
             \cup (Invariants \X {<<measure>> : measure \in First})
MCComparisons ==
    {[scope |-> [baseline_id |-> "old", candidate_id |-> "new"],
      invariants |-> criteria[1], measures |-> criteria[2],
      evidence |-> Cited({criteria[1][1].evidence, criteria[2][1].evidence,
                          criteria[2][Len(criteria[2])].evidence})] : criteria \in Criterias}
    \cup {[scope |-> [baseline_id |-> "old", candidate_id |-> "old"],
           invariants |-> <<Invariant(TRUE, TRUE, Held)>>,
           measures |-> <<measure>>, evidence |-> {A("HELD")}] : measure \in First}

-----------------------------------------------------------------------------
(* Actions: every impact with evidence for each of its fields and with one *)
(* field's evidence missing; the mildest impact with evidence of every     *)
(* other kind in the place of one field's, and with evidence not cited.    *)

Evidenced(impact) == [field \in Fields |-> <<<<field, impact[field], "HELD">>>>]
Mildest == [people_scope |-> "NONE", systems_scope |-> "LOCAL", reversibility |-> "REVERSIBLE"]

Action(description, impact, impact_evidence, extra, unknowns) ==
    [action |-> [description |-> description, environment_id |-> "here"],
     impact |-> impact, impact_evidence |-> impact_evidence,
     evidence |-> Cited({impact_evidence[field] : field \in Fields}) \cup extra,
     unknowns |-> unknowns]

MCActions ==
    {Action("deploy", impact, Evidenced(Mildest), {}, {}) : impact \in Impacts}
    \cup {Action("deploy", impact, Evidenced(impact), {}, unknowns) :
        impact \in Impacts, unknowns \in {{}, {"u"}}}
    \cup UNION {{Action("deploy", Mildest, [Evidenced(Mildest) EXCEPT ![field] = list], extra, {}) :
        list \in {<<>>, <<<<field, Mildest[field], "CONTRADICTED">>>>,
                  <<<<field, Mildest[field], "REBOUND">>>>, <<A("HELD")>>, <<A("SOURCE")>>,
                  <<<<field, Mildest[field], "HELD">>>>},
        extra \in {{}, {A("HELD")}}} : field \in Fields}
    \cup {Action("another", Mildest, Evidenced(Mildest), {}, {})}
=============================================================================
