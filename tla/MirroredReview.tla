--------------------------- MODULE MirroredReview ---------------------------
(***************************************************************************)
(* free_valid_ai/mirrored_review.py: parsing what the same model carrier   *)
(* answered when it was asked to review its own draft.  A raw answer is    *)
(* abstracted to what parsing tells apart:                                 *)
(*   encodable   whether the text has a UTF-8 encoding (a lone surrogate   *)
(*               reaches the program as a JSON escape of the transport)    *)
(*   object      valid JSON, an object with exactly the two fields         *)
(*   assessment  one of the three, another scalar, or a list or object,    *)
(*               which Python cannot look up in a set                      *)
(*   issues      an empty list, a list of non-blank strings that have an   *)
(*               encoding, or anything else                                *)
(***************************************************************************)
EXTENDS HashBound

ASSESSMENTS == {"CLEAN", "CORRECTION_REQUIRED", "UNKNOWN"}

RawReviews ==
    [encodable : BOOLEAN,
     object : BOOLEAN,
     assessment : ASSESSMENTS \cup {"INVALID", "UNHASHABLE"},
     issues : {"NONE", "SOME", "INVALID"}]

Unhashable(raw) == raw.object /\ raw.assessment = "UNHASHABLE"

\* Mutated form of Malformed: a correction may be required without an issue.
MalformedWithoutIssueRule(raw) ==
    \/ ~raw.object
    \/ raw.assessment \notin ASSESSMENTS
    \/ raw.issues = "INVALID"
    \/ raw.assessment = "CLEAN" /\ raw.issues # "NONE"

\* The conditions parse_mirrored_review answers with MirroredReviewError.
Malformed(raw) ==
    \/ ~raw.object
    \/ raw.assessment \notin ASSESSMENTS
    \/ raw.issues = "INVALID"
    \/ raw.assessment = "CLEAN" /\ raw.issues # "NONE"
    \/ raw.assessment = "CORRECTION_REQUIRED" /\ raw.issues = "NONE"

\* How parse_mirrored_review ends: with a review or with the exception named.
\* `assessment not in ASSESSMENTS` raises TypeError for a list or an object
\* before the other fields are looked at, and raw.encode() comes last.
ParseResult(raw) ==
    CASE Unhashable(raw) -> "TypeError"
      [] ~Unhashable(raw) /\ Malformed(raw) -> "MirroredReviewError"
      [] ~Malformed(raw) /\ ~raw.encodable -> "UnicodeEncodeError"
      [] OTHER -> "REVIEW"

\* The receipt of a parsed review, bound to the turn and to the draft.
Review(raw, received_turn_hash, draft_sha256) ==
    Seal([assessment |-> raw.assessment,
          issues |-> raw.issues,
          received_turn_hash |-> received_turn_hash,
          draft_sha256 |-> draft_sha256,
          raw_review_sha256 |-> Digest(raw)])

VerifyMirroredReview(review) ==
    /\ review.body.assessment \in ASSESSMENTS
    /\ review.body.assessment = "CLEAN" => review.body.issues = "NONE"
    /\ review.body.assessment = "CORRECTION_REQUIRED" => review.body.issues # "NONE"
    /\ \A digest \in {review.body.received_turn_hash, review.body.draft_sha256,
                      review.body.raw_review_sha256} : IsDigest(digest)
    /\ Intact(review)
=============================================================================
