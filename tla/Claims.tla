------------------------------- MODULE Claims -------------------------------
(***************************************************************************)
(* free_valid_ai/claims.py: claims, verification receipts, and the         *)
(* assessment of a claim from a chain of receipts.  ClaimContractError is  *)
(* a predicate that does not hold.                                         *)
(*                                                                         *)
(* A moment is a natural number (the code compares instants of aware       *)
(* datetimes).  valid_until is a set of at most one moment.  What a claim  *)
(* says (statement, scope, conditions, sources and their usage terms) is   *)
(* its matter, supplied by the caller and only bound by the hash.          *)
(***************************************************************************)
EXTENDS Naturals, Sequences, FiniteSets, HashBound

RESULTS == {"HELD", "CONTRADICTED", "UNKNOWN", "BLOCKED"}

-----------------------------------------------------------------------------
(* Claims.                                                                 *)

MayClaim(observed_at, valid_until, supersedes_claim_hash) ==
    /\ \A until \in valid_until : until > observed_at
    /\ supersedes_claim_hash = None \/ IsDigest(supersedes_claim_hash)

Claim(matter, author, observed_at, valid_until, supersedes_claim_hash) ==
    Seal([matter |-> matter,
          author |-> author,
          observed_at |-> observed_at,
          valid_until |-> valid_until,
          supersedes_claim_hash |-> supersedes_claim_hash])

VerifyClaim(claim) ==
    /\ MayClaim(claim.body.observed_at, claim.body.valid_until,
                claim.body.supersedes_claim_hash)
    /\ Intact(claim)

-----------------------------------------------------------------------------
(* Receipts.                                                               *)

MayReceipt(claim, verifier_id, observed_at, evidence, result, sequence, previous) ==
    /\ VerifyClaim(claim)
    /\ verifier_id # claim.body.author
    /\ observed_at >= claim.body.observed_at
    /\ result \in RESULTS
    /\ evidence = <<>> => result = "BLOCKED"
    /\ sequence >= 1
    /\ previous = None \/ IsDigest(previous)

Receipt(claim, verifier_id, method, observed_at, evidence, result, sequence, previous) ==
    Seal([claim_hash |-> claim.hash,
          verifier_id |-> verifier_id,
          method |-> method,
          observed_at |-> observed_at,
          evidence |-> evidence,
          result |-> result,
          sequence |-> sequence,
          previous_receipt_hash |-> previous])

VerifyReceipt(receipt, claim) ==
    /\ MayReceipt(claim, receipt.body.verifier_id, receipt.body.observed_at,
                  receipt.body.evidence, receipt.body.result,
                  receipt.body.sequence, receipt.body.previous_receipt_hash)
    /\ receipt.body.claim_hash = claim.hash
    /\ Intact(receipt)

\* create_verification_receipt: where a receipt comes after previous_receipt,
\* which is verified for the claim but not asked for its own predecessors.
NextSequence(previous_receipt) ==
    IF previous_receipt = None THEN 1 ELSE previous_receipt.body.sequence + 1
PreviousHash(previous_receipt) ==
    IF previous_receipt = None THEN None ELSE previous_receipt.hash

MayAppend(claim, verifier_id, observed_at, evidence, result, previous_receipt) ==
    /\ previous_receipt # None => VerifyReceipt(previous_receipt, claim)
    /\ MayReceipt(claim, verifier_id, observed_at, evidence, result,
                  NextSequence(previous_receipt), PreviousHash(previous_receipt))

-----------------------------------------------------------------------------
(* Assessment.                                                             *)

\* Mutated form of AcceptedChain: the predecessors are not compared.
AcceptedUnlinked(claim, chain) ==
    \A i \in DOMAIN chain :
        VerifyReceipt(chain[i], claim) /\ chain[i].body.sequence = i

AcceptedChain(claim, chain) ==
    \A i \in DOMAIN chain :
        /\ VerifyReceipt(chain[i], claim)
        /\ chain[i].body.sequence = i
        /\ chain[i].body.previous_receipt_hash = IF i = 1 THEN None ELSE chain[i - 1].hash

MayAssess(claim, chain, as_of) ==
    /\ VerifyClaim(claim)
    /\ as_of >= claim.body.observed_at
    /\ AcceptedChain(claim, chain)

\* Mutated form of Eligible: every receipt of the chain counts.
EligibleAtAnyTime(chain, as_of) == DOMAIN chain

\* The positions of the receipts that were observed by the moment.
Eligible(chain, as_of) == {i \in DOMAIN chain : chain[i].body.observed_at <= as_of}

\* eligible[-1]
LastOf(eligible) == CHOOSE i \in eligible : \A j \in eligible : j <= i

\* Mutated form of Stale: one moment late.
StaleLate(claim, as_of) == \E until \in claim.body.valid_until : as_of > until + 1

Stale(claim, as_of) == \E until \in claim.body.valid_until : as_of > until

\* The claim's status at a moment, from the last eligible receipt of its chain.
AssessClaim(claim, chain, as_of) ==
    LET eligible == Eligible(chain, as_of)
        latest == chain[LastOf(eligible)]
    IN  [claim_hash |-> claim.hash,
         as_of |-> as_of,
         status |-> CASE Stale(claim, as_of) -> "STALE"
                      [] ~Stale(claim, as_of) /\ eligible = {} -> "UNVERIFIED"
                      [] ~Stale(claim, as_of) /\ eligible # {} -> latest.body.result,
         latest_receipt_hash |-> IF eligible = {} THEN None ELSE latest.hash,
         receipt_count |-> Cardinality(eligible)]
=============================================================================
