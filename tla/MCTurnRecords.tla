--------------------------- MODULE MCTurnRecords ---------------------------
(* An instance of TurnRecords for TLC.                                     *)
EXTENDS TurnRecords

Of(check_id, result) ==
    [check_id |-> check_id, result |-> result, evidence_sha256 |-> Digest(Foreign)]

\* Every set of results that decides differently, the empty list, a list out
\* of order and one with a repeated check_id.
MCCheckLists ==
    {<<>>,
     <<Of(1, "PASS")>>,
     <<Of(1, "UNKNOWN")>>,
     <<Of(1, "FAIL"), Of(2, "UNKNOWN")>>,
     <<Of(2, "PASS"), Of(1, "PASS")>>,
     <<Of(1, "PASS"), Of(1, "PASS")>>}
=============================================================================
