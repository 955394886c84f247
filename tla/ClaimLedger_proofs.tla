------------------------- MODULE ClaimLedger_proofs -------------------------
(***************************************************************************)
(* What holds of claims and receipts however many verifiers there are and  *)
(* whatever they are presented: the checks never contradict each other     *)
(* about a claim, a chain of receipts is determined by its last one, and   *)
(* an assessment rests on the evidence that was there at its moment.       *)
(***************************************************************************)
EXTENDS ClaimLedger, Foundation_proofs, FiniteSetTheorems

CheckTypes == {CHECK_TYPE, JSON_CHECK_TYPE}

\* The receipt states what a check of the claim found in some bytes.
ComputedFor(receipt, claim) ==
    /\ receipt.body.claim_hash = claim.hash
    /\ \E type \in CheckTypes : \E observed :
          /\ claim.body.matter.type = type
          /\ receipt.body.result = RunResult(type, claim.body.matter, observed)

\* Claims and receipts are sealed and their moments are instants, and every
\* receipt that was not written by hand is one a check computed for a claim of
\* the ledger.
IInv ==
    /\ \A claim \in claims :
          /\ Intact(claim)
          /\ claim.body.valid_until \subseteq Nat
    /\ IsFiniteSet(receipts)
    /\ \A receipt \in receipts :
          /\ receipt = Seal(receipt.body)
          /\ receipt.body.observed_at \in Nat
          /\ receipt.body.method # BY_HAND =>
                \E claim \in claims : ComputedFor(receipt, claim)

-----------------------------------------------------------------------------
LEMMA InitEstablishes == Init => IInv
BY FS_EmptySet DEF Init, IInv

\* A receipt that is added to the ledger keeps the invariant.
LEMMA AddingKeeps ==
    ASSUME IInv, NEW body, UNCHANGED claims, receipts' = receipts \cup {Seal(body)},
           body.observed_at \in Nat,
           body.method # BY_HAND =>
               \E claim \in claims : ComputedFor(Seal(body), claim)
    PROVE  IInv'
<1>1. IsFiniteSet(receipts')
    BY FS_AddElement DEF IInv
<1>2. Seal(body).body = body /\ Seal(body) = Seal(Seal(body).body)
    BY SealIntact
<1>3. QED
    BY <1>1, <1>2 DEF IInv

LEMMA StepPreserves == IInv /\ [Next]_vars => IInv'
<1> SUFFICES ASSUME IInv, [Next]_vars PROVE IInv'
    OBVIOUS
<1>0. Moments \subseteq Nat
    BY LedgerAssumption DEF Moments
<1>1. ASSUME NEW matter, NEW author, NEW observed_at, NEW supersedes,
             NEW valid_until \in {{}} \cup {{until} : until \in Moments},
             CreateClaim(matter, author, observed_at, valid_until, supersedes)
      PROVE  IInv'
    <2>1. UNCHANGED receipts
        BY <1>1 DEF CreateClaim
    <2>2. PICK body : claims' = claims \cup {Seal(body)} /\ body.valid_until = valid_until
        BY <1>1 DEF CreateClaim, Claim
    <2>3. valid_until \subseteq Nat
        BY <1>0
    <2>4. Seal(body).body.valid_until \subseteq Nat /\ Intact(Seal(body))
        BY <2>2, <2>3, SealIntact
    <2>5. QED
        BY <2>1, <2>2, <2>4 DEF IInv
<1>2. ASSUME NEW claim, NEW verifier_id, NEW observed_at \in Moments, NEW evidence, NEW result,
             NEW previous_receipt,
             AppendByHand(claim, verifier_id, observed_at, evidence, result, previous_receipt)
      PROVE  IInv'
    <2>1. PICK body : /\ body.method = BY_HAND /\ body.observed_at = observed_at
                      /\ receipts' = receipts \cup {Seal(body)}
        BY <1>2 DEF AppendByHand, Receipt
    <2>2. UNCHANGED claims
        BY <1>2 DEF AppendByHand
    <2>3. QED
        BY <1>0, <2>1, <2>2, AddingKeeps
<1>3. ASSUME NEW claim \in claims, NEW verifier_id, NEW observed_at \in Moments, NEW observed,
             NEW previous_receipt,
             RunCheck(claim, verifier_id, observed_at, observed, previous_receipt)
      PROVE  IInv'
    <2>1. PICK type \in CheckTypes :
              /\ MayRun(type, claim, verifier_id, observed_at, observed, previous_receipt)
              /\ receipts' = receipts \cup
                    {Run(type, claim, verifier_id, observed_at, observed, previous_receipt)}
        BY <1>3 DEF RunCheck, CheckTypes
    <2>2. claim.body.matter.type = type
        BY <2>1 DEF MayRun, Runnable
    <2>3. PICK body :
              /\ Seal(body) = Run(type, claim, verifier_id, observed_at, observed,
                                  previous_receipt)
              /\ body.observed_at = observed_at
              /\ body.claim_hash = claim.hash
              /\ body.result = RunResult(type, claim.body.matter, observed)
        BY DEF Run, Receipt
    <2>4. ComputedFor(Seal(body), claim)
        BY <2>2, <2>3, SealIntact DEF ComputedFor
    <2>5. UNCHANGED claims
        BY <1>3 DEF RunCheck
    <2>6. QED
        BY <1>0, <2>1, <2>3, <2>4, <2>5, AddingKeeps
<1>4. CASE UNCHANGED vars
    BY <1>4 DEF vars, IInv, ComputedFor
<1>5. QED
    BY <1>1, <1>2, <1>3, <1>4 DEF Next

LEMMA InvariantHolds == Spec => []IInv
<1>1. QED
    BY InitEstablishes, StepPreserves, PTL DEF Spec

-----------------------------------------------------------------------------
\* Two runs of one check on a claim are not HELD and CONTRADICTED: either
\* needs the bytes of the claim's own source, and they are the same bytes.
LEMMA RunsAgree ==
    ASSUME NEW type, NEW matter, NEW left, NEW right,
           RunResult(type, matter, left) = "HELD"
    PROVE  RunResult(type, matter, right) # "CONTRADICTED"
<1> SUFFICES ASSUME RunResult(type, matter, right) = "CONTRADICTED" PROVE FALSE
    OBVIOUS
<1>1. left # None /\ Digest(left) = matter.source_sha256
    <2>1. CASE left = None
        BY <2>1 DEF RunResult, SourceResult, JsonResult
    <2>2. CASE left # None /\ Digest(left) # matter.source_sha256
        BY <2>2 DEF RunResult, SourceResult, JsonResult
    <2>3. QED
        BY <2>1, <2>2
<1>2. right # None /\ Digest(right) = matter.source_sha256
    <2>1. CASE right = None
        BY <2>1 DEF RunResult, SourceResult, JsonResult
    <2>2. CASE right # None /\ Digest(right) # matter.source_sha256
        BY <2>2 DEF RunResult, SourceResult, JsonResult
    <2>3. QED
        BY <2>1, <2>2
<1>3. left = right
    BY <1>1, <1>2, DigestInjective
<1>4. QED
    BY <1>3

\* However the ledger grew, no claim has one computed receipt that is HELD and
\* another that is CONTRADICTED.
THEOREM ComputedResultsAgreeAlways == Spec => []ComputedResultsAgree
<1>1. IInv => ComputedResultsAgree
    <2> SUFFICES ASSUME IInv, NEW left \in receipts, NEW right \in receipts,
                        left.body.claim_hash = right.body.claim_hash,
                        left.body.method # BY_HAND, right.body.method # BY_HAND,
                        left.body.result = "HELD"
                 PROVE  right.body.result # "CONTRADICTED"
        BY DEF ComputedResultsAgree
    <2>1. PICK one \in claims : ComputedFor(left, one)
        BY DEF IInv
    <2>2. PICK other \in claims : ComputedFor(right, other)
        BY DEF IInv
    <2>3. one.body = other.body
        <3>1. one.hash = other.hash
            BY <2>1, <2>2 DEF ComputedFor
        <3>2. Digest(one.body) = Digest(other.body)
            BY <3>1 DEF IInv, Intact
        <3>3. QED
            BY <3>2, DigestInjective
    <2>4. QED
        BY <2>1, <2>2, <2>3, RunsAgree DEF ComputedFor
<1>2. QED
    BY <1>1, InvariantHolds, PTL

-----------------------------------------------------------------------------
\* Two accepted chains of one length that agree at the end agree everywhere: a
\* receipt names its predecessor by a hash that no other receipt has.
LEMMA AgreeFromTheEnd ==
    ASSUME NEW set, \A receipt \in set : receipt = Seal(receipt.body),
           NEW length \in Nat \ {0},
           NEW left \in [1..length -> set], NEW right \in [1..length -> set],
           NEW claim, AcceptedChain(claim, left), AcceptedChain(claim, right),
           left[length] = right[length]
    PROVE  left = right
<1> DEFINE Differ == {k \in Nat : k < length /\ left[length - k] # right[length - k]}
<1>1. CASE Differ = {}
    <2>1. ASSUME NEW i \in 1..length PROVE left[i] = right[i]
        <3>1. length - i \in Nat /\ length - i < length /\ length - (length - i) = i
            OBVIOUS
        <3>2. QED
            BY <1>1, <3>1
    <2>2. QED
        BY <2>1
<1>2. CASE Differ # {}
    <2>1. PICK k \in Differ : \A j \in Differ : k <= j
        BY <1>2, LeastMember
    <2>2. k \in Nat /\ k # 0
        OBVIOUS
    <2>3. k - 1 \notin Differ
        <3> HIDE DEF Differ
        <3>1. k - 1 \in Differ => k <= k - 1
            BY <2>1
        <3>2. QED
            BY <2>2, <3>1
    <2>4. left[length - (k - 1)] = right[length - (k - 1)]
        <3>1. k - 1 \in Nat /\ k - 1 < length
            BY <2>2
        <3>2. QED
            BY <2>3, <3>1
    <2>5. /\ length - k \in 1..length /\ length - (k - 1) \in 1..length
          /\ length - (k - 1) # 1 /\ (length - (k - 1)) - 1 = length - k
        BY <2>2
    <2>6. left[length - k].hash = right[length - k].hash
        BY <2>4, <2>5 DEF AcceptedChain
    <2>7. left[length - k] = right[length - k]
        BY <2>5, <2>6, SealIntact, DigestInjective
    <2>8. QED
        BY <2>7
<1>3. QED
    BY <1>1, <1>2

\* However verifiers fork them, no two chains that assess_claim accepts for a
\* claim end in the same receipt.
THEOREM TipDeterminesChainAlways == Spec => []TipDeterminesChain
<1>1. IInv => TipDeterminesChain
    <2> SUFFICES ASSUME IInv, NEW claim \in claims,
                        NEW left \in Chains(claim), NEW right \in Chains(claim),
                        left # <<>>, right # <<>>, Last(left) = Last(right)
                 PROVE  left = right
        BY DEF TipDeterminesChain
    <2>1. Cardinality(receipts) \in Nat
        BY FS_CardinalityType DEF IInv
    <2>2. PICK m \in Nat : left \in [1..m -> receipts]
        BY <2>1 DEF Chains, SeqOf
    <2>3. PICK n \in Nat : right \in [1..n -> receipts]
        BY <2>1 DEF Chains, SeqOf
    <2>4. Len(left) = m /\ Len(right) = n /\ m # 0 /\ n # 0
        BY <2>2, <2>3
    <2>5. left[m].body.sequence = m /\ right[n].body.sequence = n
        BY <2>2, <2>3, <2>4 DEF Chains, AcceptedChain
    <2>6. m = n /\ left[m] = right[m]
        BY <2>4, <2>5 DEF Last
    <2>7. QED
        BY <2>2, <2>3, <2>4, <2>6, AgreeFromTheEnd DEF Chains, IInv
<1>2. QED
    BY <1>1, InvariantHolds, PTL

-----------------------------------------------------------------------------
\* A chain that assess_claim can be given is a sequence of the receipts.
LEMMA ChainIsSequence ==
    ASSUME IInv, NEW claim, NEW chain \in Chains(claim)
    PROVE  /\ chain \in Seq(receipts) /\ Len(chain) \in Nat
           /\ DOMAIN chain = 1..Len(chain)
           /\ AcceptedChain(claim, chain)
<1>1. Cardinality(receipts) \in Nat
    BY FS_CardinalityType DEF IInv
<1>2. PICK m \in Nat : chain \in [1..m -> receipts]
    BY <1>1 DEF Chains, SeqOf
<1>3. QED
    BY <1>2 DEF Chains

\* The last eligible receipt is one of the eligible receipts.
LEMMA LastOfIsMember ==
    ASSUME NEW length \in Nat, NEW eligible, eligible \subseteq 1..length, eligible # {}
    PROVE  LastOf(eligible) \in eligible
<1> DEFINE Distances == {k \in Nat : length - k \in eligible}
<1>1. PICK i \in eligible : i \in 1..length
    OBVIOUS
<1>2. length - i \in Nat /\ length - (length - i) = i
    BY <1>1
<1>3. Distances # {}
    BY <1>1, <1>2
<1>4. PICK k \in Distances : \A other \in Distances : k <= other
    <2> HIDE DEF Distances
    <2>1. Distances \subseteq Nat
        BY DEF Distances
    <2>2. QED
        BY <1>3, <2>1, LeastMember
<1>5. \A j \in eligible : j <= length - k
    <2> SUFFICES ASSUME NEW j \in eligible PROVE j <= length - k
        OBVIOUS
    <2>1. j \in 1..length
        OBVIOUS
    <2>2. length - j \in Nat /\ length - (length - j) = j
        BY <2>1
    <2>3. length - j \in Distances
        BY <2>2
    <2>4. k <= length - j
        BY <1>4, <2>3
    <2>5. QED
        BY <2>1, <2>4
<1>6. \E last \in eligible : \A j \in eligible : j <= last
    BY <1>4, <1>5
<1>7. QED
    BY <1>6 DEF LastOf

\* A claim is assessed as HELD only on timely evidence by somebody else,
\* whatever was recorded and at whichever moment it is assessed.
THEOREM HeldOnTimelyEvidenceAlways == Spec => []HeldOnTimelyEvidence
<1>1. IInv => HeldOnTimelyEvidence
    <2> SUFFICES ASSUME IInv, NEW claim \in claims, NEW chain \in Chains(claim),
                        NEW as_of \in Assessable(claim),
                        AssessClaim(claim, chain, as_of).status = "HELD"
                 PROVE  /\ \A until \in claim.body.valid_until : as_of <= until
                        /\ \E i \in DOMAIN chain :
                              LET body == chain[i].body
                              IN  /\ body.result = "HELD" /\ body.evidence # <<>>
                                  /\ body.verifier_id # claim.body.author
                                  /\ claim.body.observed_at <= body.observed_at
                                  /\ body.observed_at <= as_of
        BY DEF HeldOnTimelyEvidence
    <2> DEFINE eligible == Eligible(chain, as_of)
               last == LastOf(eligible)
    <2>1. as_of \in Nat
        BY LedgerAssumption DEF Assessable, Moments
    <2>2. ~Stale(claim, as_of) /\ eligible # {} /\ chain[last].body.result = "HELD"
        BY DEF AssessClaim
    <2>3. \A until \in claim.body.valid_until : as_of <= until
        BY <2>1, <2>2 DEF Stale, IInv
    <2>4. last \in eligible
        <3>1. eligible \subseteq 1..Len(chain)
            BY ChainIsSequence DEF Eligible
        <3>2. QED
            BY <2>2, <3>1, ChainIsSequence, LastOfIsMember
    <2>5. last \in DOMAIN chain /\ chain[last].body.observed_at <= as_of
        BY <2>4 DEF Eligible
    <2>6. VerifyReceipt(chain[last], claim)
        BY <2>5, ChainIsSequence DEF AcceptedChain
    <2>7. /\ chain[last].body.evidence # <<>>
          /\ chain[last].body.verifier_id # claim.body.author
          /\ claim.body.observed_at <= chain[last].body.observed_at
        BY <2>2, <2>6 DEF VerifyReceipt, MayReceipt
    <2>8. QED
        BY <2>2, <2>3, <2>5, <2>7
<1>2. QED
    BY <1>1, InvariantHolds, PTL

\* An assessment depends on the eligible positions and on the last of them.
LEMMA SameEvidenceSameAssessment ==
    ASSUME NEW claim, NEW left, NEW right, NEW as_of,
           Eligible(left, as_of) = Eligible(right, as_of),
           Eligible(right, as_of) # {} =>
               left[LastOf(Eligible(right, as_of))] = right[LastOf(Eligible(right, as_of))]
    PROVE  AssessClaim(claim, left, as_of) = AssessClaim(claim, right, as_of)
<1>1. CASE Eligible(right, as_of) # {}
    BY <1>1 DEF AssessClaim
<1>2. CASE Eligible(right, as_of) = {}
    BY <1>2 DEF AssessClaim
<1>3. QED
    BY <1>1, <1>2

\* Receipts of later observations that are appended to a chain leave every
\* earlier assessment as it was, down to the receipt it names.
THEOREM LaterEvidenceIgnoredAlways == Spec => []LaterEvidenceIgnored
<1>1. IInv => LaterEvidenceIgnored
    <2> SUFFICES ASSUME IInv, NEW claim \in claims, NEW chain \in Chains(claim),
                        NEW as_of \in Assessable(claim), NEW kept \in 0..Len(chain),
                        \A i \in (kept + 1)..Len(chain) : chain[i].body.observed_at > as_of
                 PROVE  AssessClaim(claim, SubSeq(chain, 1, kept), as_of)
                            = AssessClaim(claim, chain, as_of)
        BY DEF LaterEvidenceIgnored
    <2> DEFINE first == SubSeq(chain, 1, kept)
               eligible == Eligible(chain, as_of)
    <2>1. as_of \in Nat
        BY LedgerAssumption DEF Assessable, Moments
    <2>2. chain \in Seq(receipts) /\ Len(chain) \in Nat /\ DOMAIN chain = 1..Len(chain)
        BY ChainIsSequence
    <2>3. /\ DOMAIN first = 1..kept
          /\ \A i \in 1..kept : first[i] = chain[i]
        BY <2>2
    <2>4. \A i \in 1..Len(chain) : chain[i].body.observed_at \in Nat
        BY <2>2 DEF IInv
    <2>5. eligible \subseteq 1..kept
        BY <2>1, <2>2, <2>4 DEF Eligible
    <2>6. Eligible(first, as_of) = eligible
        BY <2>2, <2>3, <2>5 DEF Eligible
    <2>7. eligible # {} => first[LastOf(eligible)] = chain[LastOf(eligible)]
        <3>1. eligible # {} => LastOf(eligible) \in eligible
            BY <2>5, LastOfIsMember
        <3>2. QED
            BY <2>3, <2>5, <3>1
    <2>8. QED
        BY <2>6, <2>7, SameEvidenceSameAssessment
<1>2. QED
    BY <1>1, InvariantHolds, PTL
=============================================================================
