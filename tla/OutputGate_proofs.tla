------------------------- MODULE OutputGate_proofs -------------------------
(***************************************************************************)
(* What the output gate guarantees, for every sequence of claims, every    *)
(* index, every text the model may return and every document it decodes    *)
(* to, and whatever the model makes of the caller's records: its four      *)
(* invariants, from one invariant that says what was bound before the      *)
(* model was invoked and how far the loop over the claims has come; that a *)
(* value is found as RFC 6901 has it also from the lemmas about pointers.  *)
(***************************************************************************)
EXTENDS OutputGate, Foundation_proofs, FiniteSetTheorems

\* run_..._check for a claim of this call, and that it returns.
Runs(claim) ==
    MayRun(claim.body.matter.type, claim, verifier_id, observed_at, draft, None)

\* The claims that were run.
Done == bound_claims \ pending

Hashes == {claim.hash : claim \in bound_claims}

\* What was bound before the model was invoked: verified claims of different
\* hashes whose checks the index admits, and the invocation, which names both.
Bound ==
    /\ invocation = [claim_hashes |-> Hashes, frozen_index_hash |-> Digest(index)]
    /\ IsFiniteSet(Hashes) /\ Cardinality(Hashes) = Cardinality(bound_claims)
    /\ \A claim \in bound_claims :
          /\ VerifyClaim(claim)
          /\ Admitted(index, claim.body.matter.type, claim.body.matter.version) # {}

\* The claims are prepared before the model is invoked, and it is invoked once.
PreparedOnce ==
    /\ pc = "prepare" => IsList(arguments) /\ bound_claims = {}
    /\ pc \in {"prepare", "invoke"} => invoked = 0 /\ released = None /\ receipts = {}
    /\ pc \in {"run", "returned"} => invoked = 1
    /\ pc \in {"invoke", "run", "returned"} => Bound

\* The loop has replayed the claims that are no longer pending, and all_held
\* sums up their receipts.
Replayed ==
    /\ pc = "invoke" => pending = bound_claims
    /\ pc \in {"run", "returned"} =>
          /\ pending \subseteq bound_claims
          /\ receipts = {Ran(claim) : claim \in Done}
          /\ \A claim \in Done : Runs(claim) /\ ProcedureAdmitted(claim)
          /\ all_held <=> draft # Empty /\ \A claim \in Done : Ran(claim).body.result = "HELD"
          /\ draft # None

\* What is released is decided once, after the loop.
DecidedAfter ==
    /\ released # None => pc = "returned"
    /\ pc = "returned" => pending = {} /\ released = IF all_held THEN draft ELSE None

IInv == PreparedOnce /\ Replayed /\ DecidedAfter

-----------------------------------------------------------------------------
(* The receipt of one run.                                                 *)

\* The receipt of a run that returned verifies for its claim and names a
\* verifier who is not the claim's author.
LEMMA RunVerifies ==
    ASSUME NEW type, NEW claim, NEW verifier, NEW at, NEW observed,
           MayRun(type, claim, verifier, at, observed, None)
    PROVE  LET receipt == Run(type, claim, verifier, at, observed, None)
           IN  /\ VerifyReceipt(receipt, claim)
               /\ receipt.body.verifier_id = verifier
               /\ receipt.body.verifier_id # claim.body.author
               /\ receipt.body.claim_hash = claim.hash
               /\ receipt.body.method = Procedure(type)
               /\ receipt.body.evidence = RunEvidence(observed)
               /\ receipt.body.result = RunResult(type, claim.body.matter, observed)
BY SealIntact DEF MayRun, MayAppend, Run, Receipt, VerifyReceipt, MayReceipt, Seal, Intact

\* A run of either check is HELD only on the bytes of the claim's own source.
LEMMA HeldOnOwnBytes ==
    ASSUME NEW type, NEW matter, NEW observed, RunResult(type, matter, observed) = "HELD"
    PROVE  /\ observed # None
           /\ Digest(observed) = matter.source_sha256
           /\ RunEvidence(observed) = <<Digest(observed)>>
<1>1. CASE observed = None
    BY <1>1 DEF RunResult, SourceResult, JsonResult
<1>2. CASE observed # None /\ Digest(observed) # matter.source_sha256
    BY <1>2 DEF RunResult, SourceResult, JsonResult
<1>3. CASE observed # None /\ Digest(observed) = matter.source_sha256
    BY <1>3 DEF RunEvidence
<1>4. QED
    BY <1>1, <1>2, <1>3

\* Claims with one hash have one body, and the runs of both are one receipt.
LEMMA OneReceiptPerHash ==
    ASSUME NEW left, NEW right, VerifyClaim(left), VerifyClaim(right), left.hash = right.hash
    PROVE  Ran(left) = Ran(right)
<1>1. left.body = right.body
    BY DigestInjective DEF VerifyClaim, Intact
<1>2. QED
    BY <1>1 DEF Ran, Run, Receipt

-----------------------------------------------------------------------------
(* The invariant is inductive.                                             *)

LEMMA InitEstablishes == Init => IInv
BY GateAssumption DEF Init, IInv, PreparedOnce, Replayed, DecidedAfter

\* Claims of pairwise different hashes are as many as their hashes.
LEMMA DistinctHashes ==
    ASSUME IsList(arguments), Distinct
    PROVE  /\ IsFiniteSet({claim.hash : claim \in Claims})
           /\ Cardinality({claim.hash : claim \in Claims}) = Cardinality(Claims)
<1> DEFINE hashes == {claim.hash : claim \in Claims}
           at == [i \in DOMAIN arguments |-> arguments[i]]
           hash_of == [claim \in Claims |-> claim.hash]
<1>1. /\ Len(arguments) \in Nat /\ DOMAIN arguments = 1..Len(arguments)
    BY DEF IsList
<1>2. IsFiniteSet(DOMAIN arguments) /\ Cardinality(DOMAIN arguments) = Len(arguments)
    <2>1. /\ IsFiniteSet(1..Len(arguments))
          /\ Cardinality(1..Len(arguments)) =
                 IF 1 > Len(arguments) THEN 0 ELSE Len(arguments) - 1 + 1
        BY <1>1, FS_Interval
    <2>2. QED
        BY <1>1, <2>1
<1>3. at \in Surjection(DOMAIN arguments, Claims)
    BY DEF Surjection, Claims
<1>4. IsFiniteSet(Claims) /\ Cardinality(Claims) <= Len(arguments)
    BY <1>2, <1>3, FS_Surjection
<1>5. hash_of \in Surjection(Claims, hashes)
    BY DEF Surjection
<1>6. IsFiniteSet(hashes) /\ Cardinality(hashes) <= Cardinality(Claims)
    BY <1>4, <1>5, FS_Surjection
<1>7. Cardinality(hashes) = Len(arguments)
    BY DEF Distinct
<1>8. Cardinality(Claims) \in Nat /\ Cardinality(hashes) \in Nat
    BY <1>4, <1>6, FS_CardinalityType
<1>9. QED
    BY <1>1, <1>4, <1>6, <1>7, <1>8

\* A step that raises leaves everything the invariant speaks of as it was.
LEMMA RaiseKeeps ==
    ASSUME IInv, NEW exception, Raise(exception), pc \in {"prepare", "invoke", "run"}
    PROVE  IInv'
<1>1. released = None
    BY DEF IInv, PreparedOnce, DecidedAfter
<1>2. PreparedOnce' /\ Replayed' /\ DecidedAfter'
    BY <1>1 DEF PreparedOnce, Replayed, DecidedAfter, Raise
<1>3. QED
    BY <1>2 DEF IInv

\* What was bound stays bound.
LEMMA BoundKept ==
    ASSUME UNCHANGED bound
    PROVE  Bound' = Bound
BY DEF bound, Bound, Hashes, Admitted

LEMMA StepPreserves == IInv /\ [Next]_vars => IInv'
<1> SUFFICES ASSUME IInv, [Next]_vars PROVE IInv'
    OBVIOUS
<1> USE DEF IInv
<1>1. CASE Prepare
    <2>1. /\ pc = "prepare" /\ pc' = "invoke"
          /\ bound_claims' = Claims /\ index' = frozen_index
          /\ invocation' = [claim_hashes |-> {claim.hash : claim \in Claims},
                            frozen_index_hash |-> Digest(frozen_index)]
          /\ pending' = Claims
          /\ Distinct
          /\ \A claim \in Claims : VerifyClaim(claim) /\ Prepared(claim)
          /\ UNCHANGED <<invoked, receipts, released>>
        BY <1>1 DEF Prepare
    <2>2. Bound'
        <3>1. Hashes' = {claim.hash : claim \in Claims}
            BY <2>1 DEF Hashes
        <3>2. IsFiniteSet(Hashes') /\ Cardinality(Hashes') = Cardinality(bound_claims')
            BY <2>1, <3>1, DistinctHashes DEF PreparedOnce
        <3>3. \A claim \in bound_claims' :
                 /\ VerifyClaim(claim)
                 /\ Admitted(index', claim.body.matter.type, claim.body.matter.version) # {}
            BY <2>1 DEF Prepared
        <3>4. QED
            BY <2>1, <3>1, <3>2, <3>3 DEF Bound
    <2>3. PreparedOnce'
        BY <2>1, <2>2 DEF PreparedOnce
    <2>4. Replayed' /\ DecidedAfter'
        BY <2>1 DEF Replayed, DecidedAfter
    <2>5. QED
        BY <2>3, <2>4
<1>2. CASE PrepareRefuses
    BY <1>2, RaiseKeeps DEF PrepareRefuses
<1>3. ASSUME NEW text \in Outputs, Invoke(text) PROVE IInv'
    <2>1. /\ pc = "invoke" /\ pc' = "run" /\ invoked' = invoked + 1
          /\ draft' = text /\ (all_held' <=> text # Empty)
          /\ UNCHANGED <<bound, pending, receipts, released>>
        BY <1>3 DEF Invoke, CallModel
    <2>2. PreparedOnce'
        BY <2>1, BoundKept DEF PreparedOnce
    <2>3. draft' # None /\ Done' = {} /\ bound_claims' = bound_claims
        BY <2>1, GateAssumption DEF Replayed, bound, Done
    <2>4. Replayed'
        BY <2>1, <2>3 DEF Replayed, PreparedOnce
    <2>5. DecidedAfter'
        BY <2>1 DEF DecidedAfter
    <2>6. QED
        BY <2>2, <2>4, <2>5
<1>4. CASE InvokeFails
    BY <1>4, RaiseKeeps DEF InvokeFails, CallModel
<1>5. ASSUME NEW claim \in bound_claims, RunClaim(claim) PROVE IInv'
    <2>1. /\ pc = "run" /\ pc' = pc /\ claim \in pending
          /\ UNCHANGED <<bound, invoked, draft, released, raised>>
          /\ bound_claims' = bound_claims
          /\ Runs(claim) /\ ProcedureAdmitted(claim)
        BY <1>5 DEF RunClaim, bound, Runs
    <2>2. PreparedOnce'
        BY <2>1, BoundKept DEF PreparedOnce
    <2>3. Done' = Done \cup {claim}
        BY <1>5, <2>1 DEF RunClaim, Done, Replayed
    <2>4. \A item \in bound_claims : /\ Ran(item)' = Ran(item)
                                     /\ Runs(item)' = Runs(item)
                                     /\ ProcedureAdmitted(item)' = ProcedureAdmitted(item)
        BY <2>1 DEF Ran, Runs, ProcedureAdmitted, bound
    <2>5. /\ receipts' = {Ran(item)' : item \in Done'}
          /\ \A item \in Done' : Runs(item)' /\ ProcedureAdmitted(item)'
        <3>1. receipts' = receipts \cup {Ran(claim)}
            BY <1>5 DEF RunClaim
        <3>2. receipts = {Ran(item) : item \in Done}
              /\ \A item \in Done : Runs(item) /\ ProcedureAdmitted(item)
            BY <2>1 DEF Replayed
        <3>3. Done \subseteq bound_claims
            BY DEF Done
        <3>4. QED
            BY <2>1, <2>3, <2>4, <3>1, <3>2, <3>3
    <2>6. all_held' <=> draft' # Empty /\ \A item \in Done' : Ran(item)'.body.result = "HELD"
        <3>1. all_held' <=> all_held /\ Ran(claim).body.result = "HELD"
            BY <1>5 DEF RunClaim
        <3>2. all_held <=> draft # Empty /\ \A item \in Done : Ran(item).body.result = "HELD"
            BY <2>1 DEF Replayed
        <3>3. \A item \in Done' : Ran(item)' = Ran(item)
            BY <2>1, <2>3, <2>4 DEF Done
        <3>4. QED
            BY <2>1, <2>3, <3>1, <3>2, <3>3
    <2>7. Replayed'
        BY <1>5, <2>1, <2>5, <2>6 DEF RunClaim, Replayed
    <2>8. DecidedAfter'
        BY <2>1 DEF DecidedAfter
    <2>9. QED
        BY <2>2, <2>7, <2>8
<1>6. ASSUME NEW claim \in bound_claims, RunRaises(claim) PROVE IInv'
    BY <1>6, RaiseKeeps DEF RunRaises
<1>7. CASE Decide
    <2>1. /\ pc = "run" /\ pc' = "returned" /\ pending = {}
          /\ released' = IF all_held THEN draft ELSE None
          /\ UNCHANGED <<bound, invoked, pending, draft, receipts, all_held>>
        BY <1>7 DEF Decide
    <2>2. PreparedOnce'
        BY <2>1, BoundKept DEF PreparedOnce
    <2>3. Replayed'
        BY <2>1 DEF Replayed, Done, Ran, Runs, ProcedureAdmitted, bound
    <2>4. DecidedAfter'
        BY <2>1 DEF DecidedAfter
    <2>5. QED
        BY <2>2, <2>3, <2>4
<1>8. CASE UNCHANGED vars
    <2>1. UNCHANGED <<records, bound, pc, invoked, pending, draft, receipts, all_held, released>>
        BY <1>8 DEF vars
    <2>2. PreparedOnce'
        BY <2>1, BoundKept DEF PreparedOnce, records, bound
    <2>3. Replayed'
        BY <2>1 DEF Replayed, Done, Ran, Runs, ProcedureAdmitted, bound
    <2>4. DecidedAfter'
        BY <2>1 DEF DecidedAfter
    <2>5. QED
        BY <2>2, <2>3, <2>4
<1>9. QED
    BY <1>1, <1>2, <1>3, <1>4, <1>5, <1>6, <1>7, <1>8 DEF Next

LEMMA InvariantHolds == Spec => []IInv
<1>1. QED
    BY InitEstablishes, StepPreserves, PTL DEF Spec

-----------------------------------------------------------------------------
(* What follows.                                                           *)

\* The runs of a call that returned: one for each claim that was bound, by the
\* procedure of an entry for that version of its check.
LEMMA AllRan ==
    ASSUME IInv, pc = "returned"
    PROVE  /\ receipts = {Ran(claim) : claim \in bound_claims}
           /\ \A claim \in bound_claims :
                 /\ Runs(claim)
                 /\ VerifyClaim(claim)
                 /\ VerifyReceipt(Ran(claim), claim)
                 /\ Ran(claim).body.claim_hash = claim.hash
                 /\ Ran(claim).body.verifier_id # claim.body.author
                 /\ Ran(claim).body.evidence = RunEvidence(draft)
                 /\ Ran(claim).body.result =
                        RunResult(claim.body.matter.type, claim.body.matter, draft)
                 /\ \E entry \in index :
                       /\ entry.type = claim.body.matter.type
                       /\ entry.version = claim.body.matter.version
                       /\ ByProcedure(Ran(claim).body.method, entry.procedure)
<1>1. Done = bound_claims
    BY DEF IInv, DecidedAfter, Done
<1>2. /\ receipts = {Ran(claim) : claim \in bound_claims}
      /\ \A claim \in bound_claims : Runs(claim) /\ ProcedureAdmitted(claim)
    BY <1>1 DEF IInv, Replayed
<1>3. ASSUME NEW claim \in bound_claims
      PROVE  \E entry \in index : /\ entry.type = claim.body.matter.type
                                  /\ entry.version = claim.body.matter.version
                                  /\ ByProcedure(Ran(claim).body.method, entry.procedure)
    <2>1. PICK entry \in Admitted(index, claim.body.matter.type, claim.body.matter.version) :
             TRUE
        BY DEF IInv, PreparedOnce, Bound
    <2>2. claim.body.matter.version = 1
        BY <1>2 DEF Runs, MayRun, Runnable
    <2>3. entry \in index /\ entry.type = claim.body.matter.type /\ entry.version = 1
        BY <2>1, <2>2 DEF Admitted
    <2>4. QED
        BY <1>2, <2>1, <2>2, <2>3 DEF ProcedureAdmitted
<1>4. ASSUME NEW claim \in bound_claims
      PROVE  /\ VerifyReceipt(Ran(claim), claim)
             /\ Ran(claim).body.claim_hash = claim.hash
             /\ Ran(claim).body.verifier_id # claim.body.author
             /\ Ran(claim).body.evidence = RunEvidence(draft)
             /\ Ran(claim).body.result =
                    RunResult(claim.body.matter.type, claim.body.matter, draft)
    BY <1>2, RunVerifies DEF Runs, Ran
<1>5. \A claim \in bound_claims : VerifyClaim(claim)
    BY DEF IInv, PreparedOnce, Bound
<1>6. QED
    BY <1>2, <1>3, <1>4, <1>5

\* Output that leaves the gate was HELD by a receipt for every claim the caller
\* passed: receipts of others than the author, of these bytes, by the procedures
\* that the index admits for those versions of the checks.
THEOREM ReleasedOnReplayedClaimsAlways == Spec => []ReleasedOnReplayedClaims
<1>1. IInv => ReleasedOnReplayedClaims
    <2> SUFFICES ASSUME IInv, released # None PROVE ReleasedOnReplayedClaims
        BY DEF ReleasedOnReplayedClaims
    <2>1. /\ pc = "returned" /\ pending = {} /\ all_held /\ released = draft
          /\ Done = bound_claims
        BY DEF IInv, DecidedAfter, Done
    <2>2. /\ draft # Empty
          /\ \A claim \in bound_claims : Ran(claim).body.result = "HELD"
        BY <2>1 DEF IInv, Replayed
    <2>3. ASSUME NEW claim \in bound_claims
          PROVE  /\ Digest(draft) = claim.body.matter.source_sha256
                 /\ \E receipt \in receipts :
                       /\ VerifyReceipt(receipt, claim)
                       /\ receipt.body.result = "HELD"
                       /\ receipt.body.evidence = <<Digest(draft)>>
                       /\ receipt.body.verifier_id # claim.body.author
                       /\ \E entry \in index :
                             /\ entry.type = claim.body.matter.type
                             /\ entry.version = claim.body.matter.version
                             /\ ByProcedure(receipt.body.method, entry.procedure)
        <3>1. /\ Digest(draft) = claim.body.matter.source_sha256
              /\ Ran(claim).body.evidence = <<Digest(draft)>>
            BY <2>1, <2>2, AllRan, HeldOnOwnBytes
        <3>2. Ran(claim) \in receipts
            BY <2>1, AllRan
        <3>3. QED
            BY <2>1, <2>2, <3>1, <3>2, AllRan
    <2>4. QED
        BY <2>1, <2>2, <2>3 DEF ReleasedOnReplayedClaims
<1>2. QED
    BY <1>1, InvariantHolds, PTL

\* What was replayed after the model ran is what was bound before it, whatever
\* the model made of the caller's records: exactly the claims of the invocation,
\* under entries of the invocation's index.
THEOREM ReplayedAsInvokedAlways == Spec => []ReplayedAsInvoked
<1>1. IInv => ReplayedAsInvoked
    <2> SUFFICES ASSUME IInv, pc = "returned" PROVE ReplayedAsInvoked
        BY DEF ReplayedAsInvoked
    <2>1. invoked = 1
        BY DEF IInv, PreparedOnce
    <2>2. /\ invocation.claim_hashes = Hashes
          /\ invocation.frozen_index_hash.sha256 = index
        BY DEF IInv, PreparedOnce, Bound, Digest
    <2>3. {receipt.body.claim_hash : receipt \in receipts} = Hashes
        <3>1. ASSUME NEW receipt \in receipts PROVE receipt.body.claim_hash \in Hashes
            <4>1. PICK claim \in bound_claims : receipt = Ran(claim)
                BY AllRan
            <4>2. QED
                BY <4>1, AllRan DEF Hashes
        <3>2. ASSUME NEW hash \in Hashes
              PROVE  \E receipt \in receipts : receipt.body.claim_hash = hash
            <4>1. PICK claim \in bound_claims : hash = claim.hash
                BY DEF Hashes
            <4>2. Ran(claim) \in receipts /\ Ran(claim).body.claim_hash = hash
                BY <4>1, AllRan
            <4>3. QED
                BY <4>2
        <3>3. QED
            BY <3>1, <3>2
    <2>4. ASSUME NEW receipt \in receipts
          PROVE  \E entry \in index :
                     /\ entry.type = receipt.body.claim_hash.sha256.matter.type
                     /\ entry.version = receipt.body.claim_hash.sha256.matter.version
                     /\ ByProcedure(receipt.body.method, entry.procedure)
        <3>1. PICK claim \in bound_claims : receipt = Ran(claim)
            BY AllRan
        <3>2. receipt.body.claim_hash = Digest(claim.body)
            BY <3>1, AllRan DEF VerifyClaim, Intact
        <3>3. receipt.body.claim_hash.sha256 = claim.body
            BY <3>2 DEF Digest
        <3>4. QED
            BY <3>1, <3>3, AllRan
    <2>5. QED
        BY <2>1, <2>2, <2>3, <2>4 DEF ReplayedAsInvoked
<1>2. QED
    BY <1>1, InvariantHolds, PTL

\* A call that returned has one receipt for each claim it was passed, each
\* verifies for its claim, and a blocked one names a reason.
THEOREM BlockedForAReasonAlways == Spec => []BlockedForAReason
<1>1. IInv => BlockedForAReason
    <2> SUFFICES ASSUME IInv, pc = "returned" PROVE BlockedForAReason
        BY DEF BlockedForAReason
    <2>1. released = IF all_held THEN draft ELSE None
        BY DEF IInv, DecidedAfter
    <2>2. /\ draft # None
          /\ all_held <=>
                draft # Empty /\ \A claim \in bound_claims : Ran(claim).body.result = "HELD"
        BY DEF IInv, DecidedAfter, Replayed, Done
    <2>3. receipts = {Ran(claim) : claim \in bound_claims}
        BY AllRan
    <2>4. Cardinality(receipts) = Cardinality(bound_claims)
        <3> DEFINE claimed == [receipt \in receipts |-> receipt.body.claim_hash]
        <3>1. IsFiniteSet(Hashes) /\ Cardinality(Hashes) = Cardinality(bound_claims)
            BY DEF IInv, PreparedOnce, Bound
        <3>2. claimed \in Injection(receipts, Hashes)
            <4>1. claimed \in [receipts -> Hashes]
                BY AllRan DEF Hashes
            <4>2. ASSUME NEW left \in receipts, NEW right \in receipts,
                         claimed[left] = claimed[right]
                  PROVE  left = right
                <5>1. PICK one \in bound_claims : left = Ran(one)
                    BY <2>3
                <5>2. PICK other \in bound_claims : right = Ran(other)
                    BY <2>3
                <5>3. one.hash = other.hash
                    BY <4>2, <5>1, <5>2, AllRan
                <5>4. QED
                    BY <5>1, <5>2, <5>3, AllRan, OneReceiptPerHash
            <4>3. QED
                BY <4>1, <4>2 DEF Injection, IsInjective
        <3>3. claimed \in Surjection(receipts, Hashes)
            <4>1. claimed \in [receipts -> Hashes]
                BY AllRan DEF Hashes
            <4>2. ASSUME NEW hash \in Hashes
                  PROVE  \E receipt \in receipts : claimed[receipt] = hash
                <5>1. PICK claim \in bound_claims : hash = claim.hash
                    BY DEF Hashes
                <5>2. Ran(claim) \in receipts /\ claimed[Ran(claim)] = hash
                    BY <5>1, AllRan
                <5>3. QED
                    BY <5>2
            <4>3. QED
                BY <4>1, <4>2 DEF Surjection
        <3>4. QED
            BY <3>1, <3>2, <3>3, FS_Injection
    <2>5. \A receipt \in receipts : \E claim \in bound_claims : VerifyReceipt(receipt, claim)
        BY <2>3, AllRan
    <2>6. released = None =>
             draft = Empty \/ \E receipt \in receipts : receipt.body.result # "HELD"
        BY <2>1, <2>2, <2>3
    <2>7. QED
        BY <2>4, <2>5, <2>6 DEF BlockedForAReason
<1>2. QED
    BY <1>1, InvariantHolds, PTL

-----------------------------------------------------------------------------
(* The receipts of the value check.                                        *)

\* Every receipt, also one of a call that raised later, is that of a run of a
\* claim that verifies.
ReceiptsAreRuns ==
    /\ receipts # {} => \A claim \in bound_claims : VerifyClaim(claim)
    /\ \A receipt \in receipts : \E claim \in bound_claims : Runs(claim) /\ receipt = Ran(claim)

LEMMA ReceiptsStep == IInv /\ ReceiptsAreRuns /\ [Next]_vars => ReceiptsAreRuns'
<1> SUFFICES ASSUME IInv, ReceiptsAreRuns, [Next]_vars PROVE ReceiptsAreRuns'
    OBVIOUS
<1>1. UNCHANGED bound => bound_claims' = bound_claims
    BY DEF bound
<1>2. ASSUME UNCHANGED <<bound, draft>>, NEW claim
      PROVE  Runs(claim)' = Runs(claim) /\ Ran(claim)' = Ran(claim)
    BY <1>2 DEF bound, Runs, Ran
<1>3. ASSUME UNCHANGED <<bound, draft, receipts>> PROVE ReceiptsAreRuns'
    BY <1>1, <1>2, <1>3 DEF ReceiptsAreRuns
<1>4. ASSUME receipts' = {} PROVE ReceiptsAreRuns'
    BY <1>4 DEF ReceiptsAreRuns
<1>5. CASE Prepare
    BY <1>4, <1>5 DEF Prepare, IInv, PreparedOnce
<1>6. CASE PrepareRefuses
    BY <1>3, <1>6 DEF PrepareRefuses, Raise
<1>7. ASSUME NEW text \in Outputs, Invoke(text) PROVE ReceiptsAreRuns'
    BY <1>4, <1>7 DEF Invoke, CallModel, IInv, PreparedOnce
<1>8. CASE InvokeFails
    BY <1>3, <1>8 DEF InvokeFails, Raise
<1>9. ASSUME NEW claim \in bound_claims, RunClaim(claim) PROVE ReceiptsAreRuns'
    <2>1. /\ UNCHANGED <<bound, draft>> /\ receipts' = receipts \cup {Ran(claim)}
          /\ Runs(claim) /\ pc = "run"
        BY <1>9 DEF RunClaim, Runs
    <2>2. \A item \in bound_claims : VerifyClaim(item)
        BY <2>1 DEF IInv, PreparedOnce, Bound
    <2>3. ASSUME NEW receipt \in receipts'
          PROVE  \E item \in bound_claims : Runs(item) /\ receipt = Ran(item)
        BY <2>1, <2>3 DEF ReceiptsAreRuns
    <2>4. QED
        BY <1>1, <1>2, <2>1, <2>2, <2>3 DEF ReceiptsAreRuns
<1>10. ASSUME NEW claim \in bound_claims, RunRaises(claim) PROVE ReceiptsAreRuns'
    BY <1>3, <1>10 DEF RunRaises, Raise
<1>11. CASE Decide
    BY <1>3, <1>11 DEF Decide
<1>12. CASE UNCHANGED vars
    BY <1>3, <1>12 DEF vars
<1>13. QED
    BY <1>5, <1>6, <1>7, <1>8, <1>9, <1>10, <1>11, <1>12 DEF Next

\* Whether the value check passes or fails is what the resolved pointer says.
LEMMA JsonDecided ==
    ASSUME NEW matter, NEW observed, JsonResult(matter, observed) \in {"HELD", "CONTRADICTED"}
    PROVE  JsonResult(matter, observed) = "HELD" <=>
               matter.expected \in Resolve(observed.document, matter.pointer)
<1>1. observed # None /\ Digest(observed) = matter.source_sha256
    BY DEF JsonResult
<1>2. QED
    BY <1>1 DEF JsonResult

\* A value that was passed or failed on a pointer in ASCII is the value RFC 6901
\* makes that pointer reference: the scan of the escapes is the inverse of how
\* keys are written, and the digits the code takes for an index are those of the
\* standard.
THEOREM AsciiPointersFollowRfc6901Always == Spec => []AsciiPointersFollowRfc6901
<1>1. Init => ReceiptsAreRuns
    BY DEF Init, ReceiptsAreRuns
<1>2. ReceiptsAreRuns => AsciiPointersFollowRfc6901
    <2> SUFFICES ASSUME ReceiptsAreRuns, NEW claim \in bound_claims,
                        claim.body.matter.type = JSON_CHECK_TYPE,
                        Ascii(claim.body.matter.pointer), NEW receipt \in Resolved(claim)
                 PROVE  receipt.body.result = "HELD" <=>
                            claim.body.matter.expected \in
                                Rfc6901(draft.document, claim.body.matter.pointer)
        BY DEF AsciiPointersFollowRfc6901, FollowsRfc6901
    <2>1. /\ receipt \in receipts /\ receipt.body.claim_hash = claim.hash
          /\ receipt.body.result \in {"HELD", "CONTRADICTED"}
        BY DEF Resolved
    <2>2. PICK run \in bound_claims : Runs(run) /\ receipt = Ran(run)
        BY <2>1 DEF ReceiptsAreRuns
    <2>3. /\ receipt.body.claim_hash = run.hash
          /\ receipt.body.result = RunResult(run.body.matter.type, run.body.matter, draft)
        BY <2>2, RunVerifies DEF Runs, Ran
    <2>4. VerifyClaim(run) /\ VerifyClaim(claim)
        BY <2>1 DEF ReceiptsAreRuns
    <2>5. run.body = claim.body
        BY <2>1, <2>3, <2>4, DigestInjective DEF VerifyClaim, Intact
    <2>6. receipt.body.result = JsonResult(claim.body.matter, draft)
        BY <2>3, <2>5 DEF RunResult, JSON_CHECK_TYPE, CHECK_TYPE
    <2>7. IsPointer(claim.body.matter.pointer)
        BY <2>2, <2>5 DEF Runs, MayRun, Runnable
    <2>8. QED
        BY <2>1, <2>6, <2>7, JsonDecided, ResolveIsRfc6901
<1>3. QED
    BY <1>1, <1>2, InvariantHolds, ReceiptsStep, PTL DEF Spec
=============================================================================
