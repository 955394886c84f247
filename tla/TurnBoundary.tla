---------------------------- MODULE TurnBoundary ----------------------------
(***************************************************************************)
(* free_valid_ai/turn_boundary.py: binding the bytes of a received turn,   *)
(* holding a draft, and deriving the one release decision that the checks  *)
(* on the draft permit.  The code states the contract twice, once in the   *)
(* create_ functions and once in the verify_ functions that anyone holding *)
(* the record can run; both are translated, each from its own lines.  An   *)
(* exception (TurnBoundaryError) is a predicate that does not hold.        *)
(*                                                                         *)
(* Byte strings are abstract contents; base64 and the byte count are left  *)
(* out because they are functions of the bytes.                            *)
(***************************************************************************)
EXTENDS Naturals, Sequences, HashBound

ROLES == {"SYSTEM", "TOOL", "USER"}
CHECK_RESULTS == {"PASS", "FAIL", "UNKNOWN"}
DECISIONS == {"UNCHANGED", "CORRECTED", "BLOCKED", "UNKNOWN"}

\* DEFAULT_SEMANTIC_CONTRACT["contract_hash"], the default of every function.
CONTRACT == Digest("DEFAULT_SEMANTIC_CONTRACT")

-----------------------------------------------------------------------------
(* Received turns.                                                         *)

\* A turn opens the chain without a predecessor or names the digest of one.
ChainPosition(sequence, previous) ==
    /\ sequence \in Nat
    /\ sequence = 0 => previous = None
    /\ sequence > 0 => IsDigest(previous)

MayReceive(role, sequence, previous) ==
    role \in ROLES /\ ChainPosition(sequence, previous)

ReceivedTurn(content, role, sequence, previous, contract) ==
    Seal([role |-> role,
          sequence |-> sequence,
          previous_received_turn_hash |-> previous,
          content |-> content,
          content_sha256 |-> Digest(content),
          semantic_contract_hash |-> contract])

VerifyReceivedTurn(turn, contract) ==
    /\ turn.body.role \in ROLES
    /\ ChainPosition(turn.body.sequence, turn.body.previous_received_turn_hash)
    /\ turn.body.semantic_contract_hash = contract
    /\ turn.body.content_sha256 = Digest(turn.body.content)
    /\ Intact(turn)

-----------------------------------------------------------------------------
(* Checks: sequences of [check_id, result, evidence_sha256].  check_ids    *)
(* are numbered in the order sorted() gives the strings.                   *)

ValidChecks(checks) ==
    /\ checks # <<>>
    /\ \A i \in DOMAIN checks :
          checks[i].result \in CHECK_RESULTS /\ IsDigest(checks[i].evidence_sha256)
    /\ \A i, j \in DOMAIN checks : i < j => checks[i].check_id < checks[j].check_id

Results(checks) == {checks[i].result : i \in DOMAIN checks}

-----------------------------------------------------------------------------
(* create_interception: the decision, its permissions, the record.         *)

\* "FAIL" outranks "UNKNOWN", and both outrank the presence of a release.
Decide(results, draft, released) ==
    LET clear == "FAIL" \notin results /\ "UNKNOWN" \notin results
    IN  CASE "FAIL" \in results -> "BLOCKED"
          [] "FAIL" \notin results /\ "UNKNOWN" \in results -> "UNKNOWN"
          [] clear /\ released = None -> "BLOCKED"
          [] clear /\ released # None /\ released = draft -> "UNCHANGED"
          [] clear /\ released # None /\ released # draft -> "CORRECTED"

\* Mutated form of MayRelease: an unchanged release may name a basis.
MayReleaseWithBasis(decision, released, basis) ==
    /\ decision \in {"BLOCKED", "UNKNOWN"} => released = None /\ basis = None
    /\ decision = "CORRECTED" => IsDigest(basis)

MayRelease(decision, released, basis) ==
    /\ decision \in {"BLOCKED", "UNKNOWN"} => released = None /\ basis = None
    /\ decision = "UNCHANGED" => basis = None
    /\ decision = "CORRECTED" => IsDigest(basis)

MayIntercept(turn, draft, checks, released, basis, contract) ==
    /\ VerifyReceivedTurn(turn, contract)
    /\ ValidChecks(checks)
    /\ MayRelease(Decide(Results(checks), draft, released), released, basis)

Interception(turn, draft, checks, released, basis) ==
    Seal([received_turn_hash |-> turn.hash,
          draft |-> draft,
          checks |-> checks,
          decision |-> Decide(Results(checks), draft, released),
          released |-> released,
          correction_basis_sha256 |-> basis])

-----------------------------------------------------------------------------
(* verify_interception, which repeats the decision on the stored fields.   *)

ExpectedDecision(results, draft, released) ==
    IF "FAIL" \in results THEN "BLOCKED"
    ELSE IF "UNKNOWN" \in results THEN "UNKNOWN"
    ELSE IF released = None THEN "BLOCKED"
    ELSE IF released = draft THEN "UNCHANGED" ELSE "CORRECTED"

\* Mutated form of VerifyInterception: the turn is verified, not compared.
VerifyInterceptionOfAnyTurn(item, turn, contract) ==
    LET body == item.body
        expected == ExpectedDecision(Results(body.checks), body.draft, body.released)
    IN  /\ VerifyReceivedTurn(turn, contract)
        /\ ValidChecks(body.checks)
        /\ body.decision = expected
        /\ IF expected = "CORRECTED" THEN IsDigest(body.correction_basis_sha256)
                                     ELSE body.correction_basis_sha256 = None
        /\ expected \in {"BLOCKED", "UNKNOWN"} => body.released = None
        /\ Intact(item)

VerifyInterception(item, turn, contract) ==
    LET body == item.body
        expected == ExpectedDecision(Results(body.checks), body.draft, body.released)
    IN  /\ VerifyReceivedTurn(turn, contract)
        /\ body.received_turn_hash = turn.hash
        /\ ValidChecks(body.checks)
        /\ body.decision \in DECISIONS
        /\ body.decision = expected
        /\ IF expected = "CORRECTED" THEN IsDigest(body.correction_basis_sha256)
                                     ELSE body.correction_basis_sha256 = None
        /\ expected \in {"BLOCKED", "UNKNOWN"} => body.released = None
        /\ Intact(item)
=============================================================================
