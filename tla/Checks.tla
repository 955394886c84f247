------------------------------- MODULE Checks -------------------------------
(***************************************************************************)
(* free_valid_ai/checks.py: the two checks that compute the result of a    *)
(* receipt from presented bytes.  A claim's matter names its check:        *)
(*   [type, version, source_sha256, expected] and, for the second check,   *)
(*   pointer                                                               *)
(* where source_sha256 is the digest of the source the claim declares      *)
(* under the id its check names, None if it does not declare exactly one,  *)
(* and expected is a digest for the one check and a JSON value for the     *)
(* other.                                                                  *)
(* Bytes are records [json, document] if they are UTF-8 JSON, with what    *)
(* they decode to, and [json, text] if they are not.                       *)
(***************************************************************************)
EXTENDS Claims, JsonPointer

CHECK_TYPE == "source_sha256_equals"
JSON_CHECK_TYPE == "json_pointer_equals"

\* The method that a receipt of a check names, and whether it is the procedure
\* that an entry of the frozen index admits.
Procedure(type) == [id |-> type, sha256 |-> Digest(type)]
ByProcedure(method, procedure) == method.id = procedure.id /\ method.sha256 = procedure.sha256

\* _structured_check and _json_check: version 1 is the only one either runs.
Runnable(claim, type) ==
    /\ claim.body.matter.type = type /\ claim.body.matter.version = 1
    /\ type = JSON_CHECK_TYPE => IsPointer(claim.body.matter.pointer)

\* _declared_source returns.
DeclaredSource(claim) == claim.body.matter.source_sha256 # None

\* Mutated form of SourceResult: the source identity is not compared.
SourceResultOfAnyBytes(matter, observed) ==
    CASE observed = None -> "BLOCKED"
      [] observed # None /\ Digest(observed) = matter.expected -> "HELD"
      [] OTHER -> "CONTRADICTED"

\* Missing bytes are BLOCKED and bytes of another identity UNKNOWN.
SourceResult(matter, observed) ==
    CASE observed = None -> "BLOCKED"
      [] observed # None /\ Digest(observed) # matter.source_sha256 -> "UNKNOWN"
      [] observed # None /\ Digest(observed) = matter.source_sha256 ->
            IF Digest(observed) = matter.expected THEN "HELD" ELSE "CONTRADICTED"

JsonResult(matter, observed) ==
    CASE observed = None -> "BLOCKED"
      [] observed # None /\ Digest(observed) # matter.source_sha256 -> "UNKNOWN"
      [] observed # None /\ Digest(observed) = matter.source_sha256 ->
            IF ~observed.json THEN "BLOCKED"
            ELSE IF matter.expected \in Resolve(observed.document, matter.pointer)
                 THEN "HELD" ELSE "CONTRADICTED"

RunResult(type, matter, observed) ==
    IF type = CHECK_TYPE THEN SourceResult(matter, observed) ELSE JsonResult(matter, observed)

RunEvidence(observed) == IF observed = None THEN <<>> ELSE <<Digest(observed)>>

\* The bytes are the claim's own and are read as a document.
ReadAsJson(type, matter, observed) ==
    /\ type = JSON_CHECK_TYPE
    /\ observed # None /\ Digest(observed) = matter.source_sha256
    /\ observed.json

\* int() raises for digits it cannot read.
UnreadableIndex(type, matter, observed) ==
    ReadAsJson(type, matter, observed) /\ ResolveRaises(observed.document, matter.pointer)

\* Nor does _canonical(observed_value) raise, for a value it cannot encode.
Readable(type, matter, observed) ==
    ReadAsJson(type, matter, observed) =>
        /\ ~ResolveRaises(observed.document, matter.pointer)
        /\ \A value \in Resolve(observed.document, matter.pointer) : Encodable(value)

\* run_source_sha256_check and run_json_pointer_check: when they return, and
\* the receipt they return.
MayRun(type, claim, verifier_id, observed_at, observed, previous_receipt) ==
    /\ VerifyClaim(claim)
    /\ Runnable(claim, type)
    /\ DeclaredSource(claim)
    /\ Readable(type, claim.body.matter, observed)
    /\ MayAppend(claim, verifier_id, observed_at, RunEvidence(observed),
                 RunResult(type, claim.body.matter, observed), previous_receipt)

Run(type, claim, verifier_id, observed_at, observed, previous_receipt) ==
    Receipt(claim, verifier_id, Procedure(type), observed_at, RunEvidence(observed),
            RunResult(type, claim.body.matter, observed),
            NextSequence(previous_receipt), PreviousHash(previous_receipt))
=============================================================================
