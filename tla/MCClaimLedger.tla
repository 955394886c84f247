--------------------------- MODULE MCClaimLedger ---------------------------
(* An instance of ClaimLedger for TLC.                                     *)
EXTENDS ClaimLedger, TLC

Good == [json |-> TRUE, document |-> JsonObject([key \in {<<"a">>} |-> JsonValue("A")])]
NotJson == [json |-> FALSE, text |-> "NOT JSON"]
Field == [rooted |-> TRUE, tokens |-> <<<<"a">>>>]

MCDocuments == {Good, NotJson}

SourceIs(source, expected) ==
    [type |-> CHECK_TYPE, version |-> 1, source_sha256 |-> Digest(source),
     expected |-> Digest(expected)]
ValueIs(source, expected) ==
    [type |-> JSON_CHECK_TYPE, version |-> 1, source_sha256 |-> Digest(source),
     expected |-> JsonValue(expected), pointer |-> Field]

\* A source check that the declared source passes and a value check that it
\* fails.
MCMatters == {SourceIs(Good, Good), ValueIs(Good, "B")}

\* Nothing tells one person from another.
Symmetry == Permutations(People)
=============================================================================
