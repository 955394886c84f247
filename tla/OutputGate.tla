----------------------------- MODULE OutputGate -----------------------------
(***************************************************************************)
(* free_valid_ai/output_gate.py, run_verified_model_call(): one call of a  *)
(* model whose output is released only if every predeclared claim about it *)
(* is replayed and HELD.  The claims and the index are verified before the *)
(* model is invoked and used after it, and the model is the caller's own   *)
(* code, which may change the records that the caller passed while it      *)
(* runs: the gate works on copies (_clone) that it made before.            *)
(*                                                                         *)
(* The claims are run in the order of their hashes, which says nothing, so *)
(* the next one is any that is left.                                       *)
(***************************************************************************)
EXTENDS Checks, FiniteSets

CONSTANTS
    Arguments,    \* the sequences of claims a caller passes
    Rewrites,     \* what the model may make of them
    People,       \* who may run the gate
    Moments,      \* the observed_at a caller may pass
    Indexes,      \* verified indexes: sets of [type, version, procedure]
    Outputs,      \* what the model may return as text
    Empty         \* the empty text

ASSUME GateAssumption ==
    /\ None \notin Outputs /\ Empty \in Outputs
    /\ \A passed \in Arguments : IsList(passed)

VARIABLES
    arguments, frozen_index,          \* the caller's records
    verifier_id, observed_at,         \* texts, which nobody can change
    bound_claims, index, invocation,  \* the gate's copies, and what it bound
    pc,        \* "prepare", "invoke", "run", "decide", "returned" or "raised"
    invoked,   \* how often the model was called
    pending,   \* the prepared claims that are still to be run
    draft, receipts, all_held,
    released,  \* the output in the gate record, or None
    raised

records == <<arguments, frozen_index>>
bound == <<verifier_id, observed_at, bound_claims, index, invocation>>
vars == <<records, bound, pc, invoked, pending, draft, receipts, all_held, released, raised>>

Claims == {arguments[i] : i \in DOMAIN arguments}

RUNNERS == {CHECK_TYPE, JSON_CHECK_TYPE}

\* admitted_check: by version, or the highest version when the claim has none
\* (version 0 stands for None); an entry of a verified index supersedes lower
\* versions only, so the highest is never superseded.
Admitted(entries, type, version) ==
    LET matches == {entry \in entries : entry.type = type}
    IN  IF version # 0 THEN {entry \in matches : entry.version = version}
        ELSE {entry \in matches :
                 \A other \in matches : other.version <= entry.version}

-----------------------------------------------------------------------------
Init ==
    /\ arguments \in Arguments
    /\ frozen_index \in Indexes
    /\ verifier_id \in People
    /\ observed_at \in Moments
    /\ bound_claims = {}
    /\ index = None
    /\ invocation = None
    /\ pc = "prepare"
    /\ invoked = 0
    /\ pending = {}
    /\ draft = None
    /\ receipts = {}
    /\ all_held = FALSE
    /\ released = None
    /\ raised = "NOTHING"

Raise(exception) ==
    /\ pc' = "raised"
    /\ raised' = exception
    /\ UNCHANGED <<bound, pending, draft, receipts, all_held, released>>

-----------------------------------------------------------------------------
(* verify_frozen_check_index and _prepare_claims, which return copies, and *)
(* the invocation record.                                                  *)

Prepared(claim) ==
    /\ Admitted(frozen_index, claim.body.matter.type, claim.body.matter.version) # {}
    /\ claim.body.matter.type \in RUNNERS

Distinct == Cardinality({claim.hash : claim \in Claims}) = Len(arguments)

Prepare ==
    /\ pc = "prepare"
    /\ arguments # <<>> /\ Distinct
    /\ \A claim \in Claims : VerifyClaim(claim) /\ Prepared(claim)
    /\ bound_claims' = Claims
    /\ index' = frozen_index
    /\ invocation' = [claim_hashes |-> {claim.hash : claim \in Claims},
                      frozen_index_hash |-> Digest(frozen_index)]
    /\ pending' = Claims
    /\ pc' = "invoke"
    /\ UNCHANGED <<records, verifier_id, observed_at, invoked, draft, receipts, all_held,
                   released, raised>>

\* The first claim that fails decides the exception; their order is not known.
PrepareRefuses ==
    /\ pc = "prepare"
    /\ \/ /\ \/ arguments = <<>> \/ ~Distinct
             \/ \E claim \in Claims : VerifyClaim(claim) /\ ~Prepared(claim)
          /\ Raise("OutputGateError")
       \/ /\ \E claim \in Claims : ~VerifyClaim(claim)
          /\ Raise("ClaimContractError")
    /\ UNCHANGED <<records, invoked>>

-----------------------------------------------------------------------------
(* invoke(model, messages), which is foreign code and may reach the        *)
(* caller's records.                                                       *)

CallModel ==
    /\ pc = "invoke"
    /\ invoked' = invoked + 1
    /\ arguments' \in Rewrites \cup {arguments}
    /\ frozen_index' \in Indexes

\* The model returns text.  all_held starts as bool(draft).
Invoke(text) ==
    /\ CallModel
    /\ draft' = text
    /\ all_held' = (text # Empty)
    /\ pc' = "run"
    /\ UNCHANGED <<bound, pending, receipts, released, raised>>

\* It raises, returns something else than text, or text without an encoding.
InvokeFails ==
    /\ CallModel
    /\ \E exception \in {"Exception", "OutputGateError", "UnicodeEncodeError"} :
          Raise(exception)

-----------------------------------------------------------------------------
(* The loop over the claims.                                               *)

Ran(claim) ==
    Run(claim.body.matter.type, claim, verifier_id, observed_at, draft, None)

\* Mutated form of ProcedureAdmitted: the index is the caller's, not the copy.
ProcedureAdmittedNow(claim) ==
    \A entry \in Admitted(frozen_index, claim.body.matter.type, claim.body.matter.version) :
        ByProcedure(Ran(claim).body.method, entry.procedure)

\* The receipt's method is the procedure of the entry that admits the check.
ProcedureAdmitted(claim) ==
    \A entry \in Admitted(index, claim.body.matter.type, claim.body.matter.version) :
        ByProcedure(Ran(claim).body.method, entry.procedure)

\* Mutated form of RunClaim: the last result decides.
RunClaimLastDecides(claim) ==
    /\ pc = "run"
    /\ claim \in pending
    /\ MayRun(claim.body.matter.type, claim, verifier_id, observed_at, draft, None)
    /\ ProcedureAdmitted(claim)
    /\ pending' = pending \ {claim}
    /\ receipts' = receipts \cup {Ran(claim)}
    /\ all_held' = (Ran(claim).body.result = "HELD")
    /\ UNCHANGED <<records, bound, pc, invoked, draft, released, raised>>

\* Mutated form of RunClaim: the first failure ends the loop.
RunClaimUntilFailure(claim) ==
    /\ pc = "run"
    /\ claim \in pending
    /\ MayRun(claim.body.matter.type, claim, verifier_id, observed_at, draft, None)
    /\ ProcedureAdmitted(claim)
    /\ pending' = IF Ran(claim).body.result = "HELD" THEN pending \ {claim} ELSE {}
    /\ receipts' = receipts \cup {Ran(claim)}
    /\ all_held' = (all_held /\ Ran(claim).body.result = "HELD")
    /\ UNCHANGED <<records, bound, pc, invoked, draft, released, raised>>

RunClaim(claim) ==
    /\ pc = "run"
    /\ claim \in pending
    /\ MayRun(claim.body.matter.type, claim, verifier_id, observed_at, draft, None)
    /\ ProcedureAdmitted(claim)
    /\ pending' = pending \ {claim}
    /\ receipts' = receipts \cup {Ran(claim)}
    /\ all_held' = (all_held /\ Ran(claim).body.result = "HELD")
    /\ UNCHANGED <<records, bound, pc, invoked, draft, released, raised>>

\* int() cannot read an index of the claim's pointer.
IndexRaises(claim) ==
    /\ Runnable(claim, JSON_CHECK_TYPE)
    /\ UnreadableIndex(JSON_CHECK_TYPE, claim.body.matter, draft)

\* The check refuses the claim, its verifier or the moment: the conditions of
\* a receipt were no part of the preparation.
RunRaises(claim) ==
    /\ pc = "run"
    /\ claim \in pending
    /\ \/ IndexRaises(claim) /\ Raise("ValueError")
       \/ /\ ~MayRun(claim.body.matter.type, claim, verifier_id, observed_at, draft, None)
          /\ ~IndexRaises(claim)
          /\ Raise("ClaimContractError")
       \/ /\ MayRun(claim.body.matter.type, claim, verifier_id, observed_at, draft, None)
          /\ ~ProcedureAdmitted(claim)
          /\ Raise("OutputGateError")
    /\ UNCHANGED <<records, invoked>>

Decide ==
    /\ pc = "run"
    /\ pending = {}
    /\ released' = IF all_held THEN draft ELSE None
    /\ pc' = "returned"
    /\ UNCHANGED <<records, bound, invoked, pending, draft, receipts, all_held, raised>>

Next ==
    \/ Prepare
    \/ PrepareRefuses
    \/ \E text \in Outputs : Invoke(text)
    \/ InvokeFails
    \/ \E claim \in bound_claims : RunClaim(claim) \/ RunRaises(claim)
    \/ Decide

Spec == Init /\ [][Next]_vars

-----------------------------------------------------------------------------
(* Properties.                                                             *)

\* Output leaves the gate only if, for every claim the caller passed, someone
\* other than its author recorded a receipt that verifies for it, is HELD, has
\* these very bytes as evidence and follows the procedure that the index the
\* caller passed admits for that version of the check; and an empty output
\* never does.
ReleasedOnReplayedClaims ==
    released # None =>
        /\ released = draft /\ draft # Empty
        /\ \A claim \in bound_claims :
              /\ Digest(draft) = claim.body.matter.source_sha256
              /\ \E receipt \in receipts :
                    /\ VerifyReceipt(receipt, claim)
                    /\ receipt.body.result = "HELD"
                    /\ receipt.body.evidence = <<Digest(draft)>>
                    /\ receipt.body.verifier_id # claim.body.author
                    /\ \E entry \in index :
                          /\ entry.type = claim.body.matter.type
                          /\ entry.version = claim.body.matter.version
                          /\ ByProcedure(receipt.body.method, entry.procedure)

\* The gate record binds the invocation, which was written before the model ran;
\* what was replayed after it is what was bound, whatever the model did meanwhile
\* to the records the caller passed: the model was invoked once, the receipts are
\* those of exactly the claims in the invocation, and each follows the procedure
\* that the index in the invocation admits for that version of its check.
ReplayedAsInvoked ==
    pc = "returned" =>
        /\ invoked = 1
        /\ {receipt.body.claim_hash : receipt \in receipts} = invocation.claim_hashes
        /\ \A receipt \in receipts :
              LET matter == receipt.body.claim_hash.sha256.matter
              IN  \E entry \in invocation.frozen_index_hash.sha256 :
                      /\ entry.type = matter.type /\ entry.version = matter.version
                      /\ ByProcedure(receipt.body.method, entry.procedure)

\* A call that returned has one receipt for each claim it was passed, each
\* verifies for its claim, and a blocked call names a reason: an empty draft or a
\* receipt that is not HELD.
BlockedForAReason ==
    pc = "returned" =>
        /\ Cardinality(receipts) = Cardinality(bound_claims)
        /\ \A receipt \in receipts :
              \E claim \in bound_claims : VerifyReceipt(receipt, claim)
        /\ released = None =>
              draft = Empty \/ \E receipt \in receipts : receipt.body.result # "HELD"

\* The receipts of the value check that is passed or failed on the output itself.
Resolved(claim) ==
    {receipt \in receipts :
        /\ claim.body.matter.type = JSON_CHECK_TYPE
        /\ receipt.body.claim_hash = claim.hash
        /\ receipt.body.result \in {"HELD", "CONTRADICTED"}}

FollowsRfc6901(claim) ==
    \A receipt \in Resolved(claim) :
        receipt.body.result = "HELD" <=>
            claim.body.matter.expected \in Rfc6901(draft.document, claim.body.matter.pointer)

\* What the scan of the escapes and the walk of the document find for a pointer
\* in ASCII is the value RFC 6901 makes it reference: escaped slashes and tildes
\* in any order, nested keys, indices with leading zeros or past the end.
AsciiPointersFollowRfc6901 ==
    \A claim \in bound_claims :
        claim.body.matter.type = JSON_CHECK_TYPE /\ Ascii(claim.body.matter.pointer)
            => FollowsRfc6901(claim)

\* checks.py, _JSON_PROCEDURE: "resolve RFC 6901 pointer".  Every pointer the
\* check accepts is resolved as RFC 6901 has it.
PointersFollowRfc6901 ==
    \A claim \in bound_claims :
        claim.body.matter.type = JSON_CHECK_TYPE => FollowsRfc6901(claim)
=============================================================================
