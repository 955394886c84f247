------------------------ MODULE TurnBoundary_proofs ------------------------
(***************************************************************************)
(* What holds of the records of turn_boundary.py whatever their contents:  *)
(* that the two statements of the decision agree, and that the verify_     *)
(* functions accept exactly what the create_ functions make.  No state is  *)
(* involved.                                                               *)
(***************************************************************************)
EXTENDS TurnBoundary, Foundation_proofs

\* The decision create_interception takes is the one verify_interception
\* expects, although the two functions derive it in different words.
LEMMA DecisionsAgree ==
    ASSUME NEW results, NEW draft, NEW released
    PROVE  /\ Decide(results, draft, released) = ExpectedDecision(results, draft, released)
           /\ Decide(results, draft, released) \in DECISIONS
<1>1. CASE "FAIL" \in results
    BY <1>1 DEF Decide, ExpectedDecision, DECISIONS
<1>2. CASE "FAIL" \notin results /\ "UNKNOWN" \in results
    BY <1>2 DEF Decide, ExpectedDecision, DECISIONS
<1>3. CASE "FAIL" \notin results /\ "UNKNOWN" \notin results
    BY <1>3 DEF Decide, ExpectedDecision, DECISIONS
<1>4. QED
    BY <1>1, <1>2, <1>3

\* A turn that create_received_turn made is one verify_received_turn accepts.
LEMMA ReceivedTurnVerifies ==
    ASSUME NEW content, NEW role, NEW sequence, NEW previous, NEW contract,
           MayReceive(role, sequence, previous)
    PROVE  LET turn == ReceivedTurn(content, role, sequence, previous, contract)
           IN  /\ VerifyReceivedTurn(turn, contract)
               /\ IsDigest(turn.hash)
               /\ turn # None
               /\ turn.body.content = content
BY DigestIsDigest DEF ReceivedTurn, VerifyReceivedTurn, MayReceive, Seal, Intact, None

\* A turn that verifies is present and named by a digest.
LEMMA VerifiedTurnHash ==
    ASSUME NEW turn, NEW contract, VerifyReceivedTurn(turn, contract)
    PROVE  IsDigest(turn.hash)
BY DigestIsDigest DEF VerifyReceivedTurn, Intact

\* The records verify_interception reads have all the fields of an
\* interception (its _closed() call refuses any other).
ItemShape(item) ==
    /\ item = [body |-> item.body, hash |-> item.hash]
    /\ item.body = [received_turn_hash |-> item.body.received_turn_hash,
                    draft |-> item.body.draft,
                    checks |-> item.body.checks,
                    decision |-> item.body.decision,
                    released |-> item.body.released,
                    correction_basis_sha256 |-> item.body.correction_basis_sha256]

\* An interception has that shape and holds what it was made from.
LEMMA InterceptionShape ==
    ASSUME NEW turn, NEW draft, NEW checks, NEW released, NEW basis
    PROVE  LET item == Interception(turn, draft, checks, released, basis)
           IN  /\ ItemShape(item)
               /\ Intact(item)
               /\ item.body.received_turn_hash = turn.hash
               /\ item.body.draft = draft
               /\ item.body.checks = checks
               /\ item.body.decision = Decide(Results(checks), draft, released)
               /\ item.body.released = released
               /\ item.body.correction_basis_sha256 = basis
BY DEF Interception, ItemShape, Seal, Intact

\* create_interception returns only what verify_interception accepts (the code
\* runs the second inside the first; this says that the call cannot fail).
THEOREM CreatedVerifies ==
    ASSUME NEW turn, NEW draft, NEW checks, NEW released, NEW basis, NEW contract,
           MayIntercept(turn, draft, checks, released, basis, contract)
    PROVE  VerifyInterception(Interception(turn, draft, checks, released, basis),
                              turn, contract)
<1> DEFINE item == Interception(turn, draft, checks, released, basis)
           decision == Decide(Results(checks), draft, released)
<1>1. /\ VerifyReceivedTurn(turn, contract)
      /\ ValidChecks(checks)
      /\ MayRelease(decision, released, basis)
    BY DEF MayIntercept
<1>2. decision \in DECISIONS /\ decision = ExpectedDecision(Results(checks), draft, released)
    BY DecisionsAgree
<1>3. IF decision = "CORRECTED" THEN IsDigest(basis) ELSE basis = None
    BY <1>1, <1>2 DEF MayRelease, DECISIONS
<1>4. decision \in {"BLOCKED", "UNKNOWN"} => released = None
    BY <1>1 DEF MayRelease
<1> HIDE DEF decision
<1>5. QED
    BY <1>1, <1>2, <1>3, <1>4, InterceptionShape DEF VerifyInterception, decision

\* verify_interception accepts nothing that create_interception could not have
\* made for that turn from the fields of the record.
THEOREM VerifiedIsCreatable ==
    ASSUME NEW item, NEW turn, NEW contract, ItemShape(item),
           VerifyInterception(item, turn, contract)
    PROVE  LET body == item.body
           IN  /\ MayIntercept(turn, body.draft, body.checks, body.released,
                               body.correction_basis_sha256, contract)
               /\ item = Interception(turn, body.draft, body.checks, body.released,
                                      body.correction_basis_sha256)
<1> DEFINE body == item.body
           decision == Decide(Results(body.checks), body.draft, body.released)
<1>1. body.decision = decision /\ decision \in DECISIONS
    BY DecisionsAgree DEF VerifyInterception
<1>2. /\ VerifyReceivedTurn(turn, contract)
      /\ ValidChecks(body.checks)
      /\ body.received_turn_hash = turn.hash
      /\ Intact(item)
    BY DEF VerifyInterception
<1>3. /\ IF body.decision = "CORRECTED" THEN IsDigest(body.correction_basis_sha256)
                                        ELSE body.correction_basis_sha256 = None
      /\ body.decision \in {"BLOCKED", "UNKNOWN"} => body.released = None
    BY DEF VerifyInterception
<1>4. MayRelease(decision, body.released, body.correction_basis_sha256)
    BY <1>1, <1>3 DEF MayRelease, DECISIONS
<1>5. item = Interception(turn, body.draft, body.checks, body.released,
                          body.correction_basis_sha256)
    BY <1>1, <1>2 DEF ItemShape, Interception, Seal, Intact
<1>6. QED
    BY <1>2, <1>4, <1>5 DEF MayIntercept
=============================================================================
