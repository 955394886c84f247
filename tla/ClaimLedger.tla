---------------------------- MODULE ClaimLedger ----------------------------
(***************************************************************************)
(* The claims and receipts that several verifiers make with claims.py and  *)
(* checks.py.  Nothing in the program stores or orders them: each verifier *)
(* appends to the receipt it happens to hold, so two may append to the     *)
(* same one, and a receipt carries whatever moment its maker states.  An   *)
(* assessment is computed from a list of receipts that the caller chooses. *)
(***************************************************************************)
EXTENDS Checks, SequencesExt

CONSTANTS
    Matters,      \* what claims say, with their check
    People,       \* authors and verifiers
    Documents,    \* the bytes presented to the checks
    Declared,     \* the results that receipts written by hand declare
    LastMoment,   \* bound: moments are 0..LastMoment
    MaxClaims,    \* bound: claims made
    MaxRecords    \* bound: claims and receipts made

ASSUME LedgerAssumption ==
    /\ None \notin Documents
    /\ Declared \subseteq RESULTS
    /\ {LastMoment, MaxClaims, MaxRecords} \subseteq Nat

VARIABLES claims, receipts

vars == <<claims, receipts>>

Moments == 0..LastMoment

\* The method a receipt written by hand names.
BY_HAND == [id |-> "by_hand", sha256 |-> Digest("by_hand")]

Init == claims = {} /\ receipts = {}

Room == Cardinality(claims) + Cardinality(receipts) < MaxRecords

-----------------------------------------------------------------------------
\* create_claim, where a correction names the claim it supersedes.
CreateClaim(matter, author, observed_at, valid_until, supersedes) ==
    /\ Room /\ Cardinality(claims) < MaxClaims
    /\ supersedes # None => VerifyClaim(supersedes)
    /\ LET superseded == IF supersedes = None THEN None ELSE supersedes.hash
       IN  /\ MayClaim(observed_at, valid_until, superseded)
           /\ claims' = claims \cup
                 {Claim(matter, author, observed_at, valid_until, superseded)}
    /\ UNCHANGED receipts

\* create_verification_receipt with a result the verifier declares.
AppendByHand(claim, verifier_id, observed_at, evidence, result, previous_receipt) ==
    /\ Room
    /\ MayAppend(claim, verifier_id, observed_at, evidence, result, previous_receipt)
    /\ receipts' = receipts \cup
          {Receipt(claim, verifier_id, BY_HAND, observed_at, evidence, result,
                   NextSequence(previous_receipt), PreviousHash(previous_receipt))}
    /\ UNCHANGED claims

\* A check that computes the result from the bytes it is presented.
RunCheck(claim, verifier_id, observed_at, observed, previous_receipt) ==
    /\ Room
    /\ \E type \in {CHECK_TYPE, JSON_CHECK_TYPE} :
          /\ MayRun(type, claim, verifier_id, observed_at, observed, previous_receipt)
          /\ receipts' = receipts \cup
                {Run(type, claim, verifier_id, observed_at, observed, previous_receipt)}
    /\ UNCHANGED claims

Next ==
    \/ \E matter \in Matters, author \in People, observed_at \in Moments,
          valid_until \in {{}} \cup {{until} : until \in Moments},
          supersedes \in claims \cup {None} :
          CreateClaim(matter, author, observed_at, valid_until, supersedes)
    \/ \E claim \in claims, verifier_id \in People, observed_at \in Moments,
          previous_receipt \in receipts \cup {None} :
          \/ \E evidence \in {<<>>, <<claim.body.matter.source_sha256>>}, result \in Declared :
                AppendByHand(claim, verifier_id, observed_at, evidence, result, previous_receipt)
          \/ \E observed \in Documents \cup {None} :
                RunCheck(claim, verifier_id, observed_at, observed, previous_receipt)

Spec == Init /\ [][Next]_vars

-----------------------------------------------------------------------------
(* Properties.                                                             *)

\* Every list of receipts that assess_claim accepts for a claim.
Chains(claim) == {chain \in SeqOf(receipts, Cardinality(receipts)) : AcceptedChain(claim, chain)}

\* The moments at which a claim can be assessed.
Assessable(claim) == {moment \in Moments : moment >= claim.body.observed_at}

\* Verifiers may fork a chain, but an assessment that names its latest receipt
\* names its evidence: no two lists that assess_claim accepts end in the same
\* receipt, so nothing can be left out, repeated or reordered before it.
TipDeterminesChain ==
    \A claim \in claims : \A left, right \in Chains(claim) :
        left # <<>> /\ right # <<>> /\ Last(left) = Last(right) => left = right

\* An assessment for a moment does not depend on evidence observed after it:
\* appending such receipts to the chain later leaves it as it was.
LaterEvidenceIgnored ==
    \A claim \in claims : \A chain \in Chains(claim), as_of \in Assessable(claim) :
        \A kept \in 0..Len(chain) :
            (\A i \in (kept + 1)..Len(chain) : chain[i].body.observed_at > as_of)
            => AssessClaim(claim, SubSeq(chain, 1, kept), as_of)
                  = AssessClaim(claim, chain, as_of)

\* A claim is HELD at a moment only on evidence that somebody other than its
\* author recorded between the claim and that moment, within its validity.
HeldOnTimelyEvidence ==
    \A claim \in claims : \A chain \in Chains(claim), as_of \in Assessable(claim) :
        AssessClaim(claim, chain, as_of).status = "HELD" =>
            /\ \A until \in claim.body.valid_until : as_of <= until
            /\ \E i \in DOMAIN chain :
                  LET body == chain[i].body
                  IN  /\ body.result = "HELD" /\ body.evidence # <<>>
                      /\ body.verifier_id # claim.body.author
                      /\ claim.body.observed_at <= body.observed_at
                      /\ body.observed_at <= as_of

\* The checks never contradict each other about a claim, whoever runs them,
\* whenever, and whatever bytes they are presented: no claim has one computed
\* receipt that is HELD and another that is CONTRADICTED.
ComputedResultsAgree ==
    \A left, right \in receipts :
        /\ left.body.claim_hash = right.body.claim_hash
        /\ left.body.method # BY_HAND /\ right.body.method # BY_HAND
        /\ left.body.result = "HELD"
        => right.body.result # "CONTRADICTED"
=============================================================================
