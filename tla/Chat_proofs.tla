------------------------- MODULE Chat_proofs -------------------------
(***************************************************************************)
(* For every set of texts, replies and raw reviews and for conversations   *)
(* of any length, with interruptions anywhere unless a theorem assumes     *)
(* none.                                                                   *)
(* ChatSession is type correct; the records of its audit agree; a reviewed *)
(* history holds nothing but what a verifiable interception released; the  *)
(* audit of a call that returned is that of its answer; the chain never    *)
(* runs ahead of the history; without interruptions the chain unrolls to   *)
(* the history and the session can always be asked again; and it           *)
(* implements HeldRelease.                                                 *)
(* CommandLine, the program around the session, for any arguments: what it *)
(* shows is the history; it prompts on a whole session only; an error is   *)
(* the last thing it shows; and it starts on its arguments alone.          *)
(***************************************************************************)
EXTENDS CommandLine, ChatRefinement, TurnBoundary_proofs, SequenceTheorems

\* What the locals of ask() hold while it is under way.
InCall ==
    /\ pc # "idle" => received # None /\ received.body.content \in Texts
    /\ pc \in {"review", "correct"} => mirrored_review /\ draft \in Replies
    /\ pc = "correct" =>
          /\ review # None
          /\ review.body.received_turn_hash = received.hash
          /\ review.body.draft_sha256 = Digest(draft)
          /\ review.body.assessment = "CORRECTION_REQUIRED"
    /\ pc = "extend" => answer \in Replies

\* A reviewed answer about to be committed is what the audit released.
Cleared ==
    pc = "extend" /\ mirrored_review =>
        /\ last_turn_audit # None
        /\ last_turn_audit.received = received
        /\ last_turn_audit.interception.body.released = answer

\* The inductive invariant.
IInv == TypeOK /\ InCall /\ Cleared /\ AuditBindsReview

-----------------------------------------------------------------------------
(* The values actions store.                                               *)

\* A review that parsed verifies, for whatever turn and draft it is bound to.
LEMMA ParsedReviewVerifies ==
    ASSUME NEW raw \in RawReviews, ParseResult(raw) = "REVIEW",
           NEW turnHash, IsDigest(turnHash), NEW held
    PROVE  LET rev == Review(raw, turnHash, Digest(held))
           IN  /\ VerifyMirroredReview(rev)
               /\ rev # None
               /\ rev.hash = Digest(rev.body)
               /\ rev.body.assessment = raw.assessment
               /\ rev.body.received_turn_hash = turnHash
               /\ rev.body.draft_sha256 = Digest(held)
<1>1. ~Malformed(raw)
    BY DEF ParseResult
<1>2. /\ raw.assessment \in ASSESSMENTS
      /\ raw.assessment = "CLEAN" => raw.issues = "NONE"
      /\ raw.assessment = "CORRECTION_REQUIRED" => raw.issues # "NONE"
    BY <1>1 DEF Malformed, RawReviews, ASSESSMENTS
<1>3. IsDigest(Digest(held)) /\ IsDigest(Digest(raw))
    BY DigestIsDigest
<1>4. QED
    BY <1>2, <1>3 DEF Review, VerifyMirroredReview, Seal, Intact, None

\* The one-element and the two-element lists of checks that _review passes.
LEMMA OneCheck ==
    ASSUME NEW check_id, NEW result \in CHECK_RESULTS, NEW evidence
    PROVE  LET checks == <<Check(check_id, result, evidence)>>
           IN  ValidChecks(checks) /\ Results(checks) = {result}
<1> DEFINE checks == <<Check(check_id, result, evidence)>>
<1>1. DOMAIN checks = {1} /\ checks # <<>>
    OBVIOUS
<1>2. checks[1].result = result /\ checks[1].evidence_sha256 = Digest(evidence)
    BY DEF Check
<1>3. QED
    BY <1>1, <1>2, DigestIsDigest DEF ValidChecks, Results

LEMMA FailedCheck ==
    ASSUME NEW evidence, NEW receipt
    PROVE  LET checks == <<Check(CORRECTION_CHECK, "FAIL", evidence),
                           Check(MIRROR_CHECK, "PASS", receipt)>>
           IN  ValidChecks(checks) /\ "FAIL" \in Results(checks)
<1> DEFINE checks == <<Check(CORRECTION_CHECK, "FAIL", evidence),
                       Check(MIRROR_CHECK, "PASS", receipt)>>
<1>1. DOMAIN checks = {1, 2} /\ checks # <<>>
    OBVIOUS
<1>2. /\ checks[1].check_id = 1 /\ checks[2].check_id = 2
      /\ checks[1].result = "FAIL" /\ checks[2].result = "PASS"
      /\ checks[1].evidence_sha256 = Digest(evidence)
      /\ checks[2].evidence_sha256 = Digest(receipt)
    BY DEF Check, CORRECTION_CHECK, MIRROR_CHECK
<1>3. QED
    BY <1>1, <1>2, DigestIsDigest DEF ValidChecks, Results, CHECK_RESULTS

\* An audit that a step may store: none, or three records that agree.
Storable(audit) ==
    \/ audit = None
    \/ /\ audit = Audit(audit.received, audit.review, audit.interception)
       /\ Consistent(audit)

\* An audit whose interception releases nothing agrees if its review does.
LEMMA UnreleasedAudit ==
    ASSUME NEW turn, NEW rev, NEW held, NEW checks,
           VerifyReceivedTurn(turn, CONTRACT), ValidChecks(checks),
           "FAIL" \in Results(checks) \/ "UNKNOWN" \in Results(checks),
           rev # None =>
               /\ VerifyMirroredReview(rev)
               /\ rev.body.received_turn_hash = turn.hash
               /\ rev.body.draft_sha256 = Digest(held)
    PROVE  Storable(Audit(turn, rev, Interception(turn, held, checks, None, None)))
<1> DEFINE item == Interception(turn, held, checks, None, None)
           decision == Decide(Results(checks), held, None)
<1>1. decision \in {"BLOCKED", "UNKNOWN"}
    BY DecisionsAgree DEF ExpectedDecision
<1>2. MayIntercept(turn, held, checks, None, None, CONTRACT)
    BY <1>1 DEF MayIntercept, MayRelease
<1>3. VerifyInterception(item, turn, CONTRACT)
    BY <1>2, CreatedVerifies
<1>4. item.body.decision = decision /\ item.body.draft = held
    BY InterceptionShape
<1> DEFINE audit == Audit(turn, rev, item)
<1> HIDE DEF item, decision
<1>5. audit.received = turn /\ audit.review = rev /\ audit.interception = item
    BY DEF Audit
<1>6. Consistent(audit)
    BY <1>1, <1>3, <1>4, <1>5 DEF Consistent
<1>7. QED
    BY <1>5, <1>6 DEF Storable, item

\* An audit that releases the draft after a clean review, and one that releases
\* a correction of it on the basis of the review that required it.
LEMMA CleanAudit ==
    ASSUME NEW turn, NEW rev, NEW held, NEW evidence,
           VerifyReceivedTurn(turn, CONTRACT), held # None, rev # None,
           VerifyMirroredReview(rev),
           rev.body.received_turn_hash = turn.hash,
           rev.body.draft_sha256 = Digest(held),
           rev.body.assessment = "CLEAN"
    PROVE  LET item == Interception(turn, held, <<Check(MIRROR_CHECK, "PASS", evidence)>>,
                                    held, None)
           IN  Storable(Audit(turn, rev, item)) /\ item.body.released = held
<1> DEFINE checks == <<Check(MIRROR_CHECK, "PASS", evidence)>>
           item == Interception(turn, held, checks, held, None)
           decision == Decide(Results(checks), held, held)
           audit == Audit(turn, rev, item)
<1>1. ValidChecks(checks) /\ Results(checks) = {"PASS"}
    BY OneCheck DEF CHECK_RESULTS
<1> HIDE DEF checks
<1>2. decision = "UNCHANGED"
    BY <1>1, DecisionsAgree DEF ExpectedDecision
<1>3. VerifyInterception(item, turn, CONTRACT)
    BY <1>1, <1>2, CreatedVerifies DEF MayIntercept, MayRelease
<1>4. item.body.decision = decision /\ item.body.draft = held /\ item.body.released = held
    BY InterceptionShape
<1> HIDE DEF item, decision
<1>5. audit.received = turn /\ audit.review = rev /\ audit.interception = item
    BY DEF Audit
<1>6. Consistent(audit)
    BY <1>2, <1>3, <1>4, <1>5 DEF Consistent
<1>7. QED
    BY <1>4, <1>5, <1>6 DEF Storable, item, checks

LEMMA CorrectedAudit ==
    ASSUME NEW turn, NEW rev, NEW held, NEW reply,
           VerifyReceivedTurn(turn, CONTRACT), rev # None,
           reply # None, reply # held, reply \notin Blank,
           VerifyMirroredReview(rev),
           rev.body.received_turn_hash = turn.hash,
           rev.body.draft_sha256 = Digest(held),
           rev.body.assessment = "CORRECTION_REQUIRED"
    PROVE  LET item == Interception(turn, held, <<Check(MIRROR_CHECK, "PASS", rev.body)>>,
                                    reply, rev.hash)
           IN  Storable(Audit(turn, rev, item)) /\ item.body.released = reply
<1> DEFINE checks == <<Check(MIRROR_CHECK, "PASS", rev.body)>>
           item == Interception(turn, held, checks, reply, rev.hash)
           decision == Decide(Results(checks), held, reply)
           audit == Audit(turn, rev, item)
<1>1. ValidChecks(checks) /\ Results(checks) = {"PASS"}
    BY OneCheck DEF CHECK_RESULTS
<1> HIDE DEF checks
<1>2. decision = "CORRECTED"
    BY <1>1, DecisionsAgree DEF ExpectedDecision
<1>3. IsDigest(rev.hash)
    BY DigestIsDigest DEF VerifyMirroredReview, Intact
<1>4. VerifyInterception(item, turn, CONTRACT)
    BY <1>1, <1>2, <1>3, CreatedVerifies DEF MayIntercept, MayRelease
<1>5. /\ item.body.decision = decision /\ item.body.draft = held
      /\ item.body.released = reply /\ item.body.correction_basis_sha256 = rev.hash
    BY InterceptionShape
<1> HIDE DEF item, decision
<1>6. audit.received = turn /\ audit.review = rev /\ audit.interception = item
    BY DEF Audit
<1>7. Consistent(audit)
    BY <1>2, <1>4, <1>5, <1>6 DEF Consistent
<1>8. QED
    BY <1>5, <1>6, <1>7 DEF Storable, item, checks

-----------------------------------------------------------------------------
(* The invariant is inductive.                                             *)

LEMMA IInvInit == Init => IInv
BY DEF Init, IInv, TypeOK, InCall, Cleared, AuditBindsReview, Conversation

\* A call may end with any exception, leaving the audit as it was or a new one
\* that is storable.
LEMMA RaisePreserves ==
    ASSUME IInv, NEW exception \in Exceptions, Raise(exception), Storable(last_turn_audit')
    PROVE  IInv'
<1>1. TypeOK'
    BY DEF Raise, IInv, TypeOK, Storable
<1>2. InCall' /\ Cleared'
    BY DEF Raise, InCall, Cleared
<1>3. AuditBindsReview'
    BY DEF AuditBindsReview, Storable
<1>4. QED
    BY <1>1, <1>2, <1>3 DEF IInv

LEMMA AuditStorable == IInv => Storable(last_turn_audit)
BY DEF IInv, TypeOK, AuditBindsReview, Storable

\* As RaisePreserves, for the steps that leave the audit alone.
LEMMA RaiseKeepsAudit ==
    ASSUME IInv, NEW exception \in Exceptions, Raise(exception), UNCHANGED last_turn_audit
    PROVE  IInv'
<1>1. Storable(last_turn_audit')
    BY AuditStorable
<1>2. QED
    BY <1>1, RaisePreserves

LEMMA AskPreserves ==
    ASSUME IInv, NEW text \in Texts, Ask(text)
    PROVE  IInv'
<1>1. /\ VerifyReceivedTurn(received', CONTRACT)
      /\ received' # None /\ received'.body.content = text
    BY ReceivedTurnVerifies DEF Ask, MayAsk
<1>2. TypeOK'
    BY <1>1 DEF Ask, session, IInv, TypeOK, Exceptions
<1>3. InCall' /\ Cleared'
    BY <1>1 DEF Ask, InCall, Cleared
<1>4. AuditBindsReview'
    BY DEF Ask, session, IInv, AuditBindsReview
<1>5. QED
    BY <1>2, <1>3, <1>4 DEF IInv

LEMMA ReceiveDraftPreserves ==
    ASSUME IInv, NEW reply \in Replies, ReceiveDraft(reply)
    PROVE  IInv'
<1>1. CASE ReleaseUnreviewed(reply)
    BY <1>1 DEF ReceiveDraft, ReleaseUnreviewed, IInv, TypeOK, InCall, Cleared, AuditBindsReview
<1>2. CASE HoldDraft(reply)
    BY <1>2 DEF ReceiveDraft, HoldDraft, session, IInv, TypeOK, InCall, Cleared, AuditBindsReview
<1>3. CASE DraftUnencodable(reply)
    BY <1>3, RaiseKeepsAudit DEF DraftUnencodable, Exceptions
<1>4. QED
    BY <1>1, <1>2, <1>3 DEF ReceiveDraft

LEMMA ReceiveReviewPreserves ==
    ASSUME IInv, NEW raw \in Reviews, ReceiveReview(raw)
    PROVE  IInv'
<1>1. /\ raw \in RawReviews /\ pc = "review"
      /\ VerifyReceivedTurn(received, CONTRACT) /\ IsDigest(received.hash)
      /\ received # None /\ received.body.content \in Texts
      /\ mirrored_review /\ draft \in Replies /\ draft # None
    <2>1. raw \in RawReviews /\ pc = "review"
        BY ReviewAssumption DEF ReceiveReview
    <2>2. received # None /\ received.body.content \in Texts /\ VerifyReceivedTurn(received, CONTRACT)
        BY <2>1 DEF IInv, TypeOK, InCall
    <2>3. mirrored_review /\ draft \in Replies /\ draft # None
        BY <2>1, ContentAssumption DEF IInv, InCall
    <2>4. QED
        BY <2>1, <2>2, <2>3, VerifiedTurnHash
<1>2. ASSUME ParseResult(raw) = "REVIEW"
      PROVE  /\ VerifyMirroredReview(ReviewOf(raw)) /\ ReviewOf(raw) # None
             /\ ReviewOf(raw).hash = Digest(ReviewOf(raw).body)
             /\ ReviewOf(raw).body.assessment = raw.assessment
             /\ ReviewOf(raw).body.received_turn_hash = received.hash
             /\ ReviewOf(raw).body.draft_sha256 = Digest(draft)
    BY <1>1, <1>2, ParsedReviewVerifies DEF ReviewOf
<1>3. CASE ReviewRaises(raw)
    BY <1>3, RaiseKeepsAudit DEF ReviewRaises, Exceptions
<1>4. CASE ReviewMalformed(raw)
    <2>1. Storable(last_turn_audit')
        BY <1>1, <1>4, OneCheck, UnreleasedAudit DEF ReviewMalformed, CHECK_RESULTS
    <2>2. QED
        BY <1>4, <2>1, RaisePreserves DEF ReviewMalformed, Exceptions
<1>5. CASE ReviewUnknown(raw)
    <2>1. Storable(last_turn_audit')
        BY <1>1, <1>2, <1>5, OneCheck, UnreleasedAudit DEF ReviewUnknown, CHECK_RESULTS
    <2>2. QED
        BY <1>5, <2>1, RaisePreserves DEF ReviewUnknown, Exceptions
<1>6. CASE ReviewClean(raw)
    <2> DEFINE item == Interception(received, draft,
                           <<Check(MIRROR_CHECK, "PASS", ReviewOf(raw).body)>>, draft, None)
    <2>1. last_turn_audit' = Audit(received, ReviewOf(raw), item)
        BY <1>6 DEF ReviewClean
    <2>2. Storable(last_turn_audit') /\ item.body.released = draft
        BY <1>1, <1>2, <1>6, <2>1, CleanAudit DEF ReviewClean
    <2>3. /\ last_turn_audit' # None
          /\ last_turn_audit'.received = received
          /\ last_turn_audit'.interception.body.released = draft
        BY <2>1, <2>2 DEF Audit, None
    <2> HIDE DEF item
    <2>4. TypeOK'
        BY <1>1, <1>6, <2>2 DEF ReviewClean, IInv, TypeOK, Storable
    <2>5. InCall' /\ Cleared'
        BY <1>1, <1>6, <2>3 DEF ReviewClean, InCall, Cleared
    <2>6. AuditBindsReview'
        BY <2>2 DEF AuditBindsReview, Storable
    <2>7. QED
        BY <2>4, <2>5, <2>6 DEF IInv
<1>7. CASE ReviewRequiresCorrection(raw)
    <2>1. TypeOK'
        BY <1>2, <1>7 DEF ReviewRequiresCorrection, session, IInv, TypeOK
    <2>2. InCall' /\ Cleared'
        BY <1>1, <1>2, <1>7 DEF ReviewRequiresCorrection, session, InCall, Cleared
    <2>3. AuditBindsReview'
        BY <1>7 DEF ReviewRequiresCorrection, session, IInv, AuditBindsReview
    <2>4. QED
        BY <2>1, <2>2, <2>3 DEF IInv
<1>8. QED
    BY <1>3, <1>4, <1>5, <1>6, <1>7 DEF ReceiveReview

LEMMA ReceiveCorrectionPreserves ==
    ASSUME IInv, NEW reply \in Replies, ReceiveCorrection(reply)
    PROVE  IInv'
<1>1. /\ pc = "correct" /\ reply # None
      /\ VerifyReceivedTurn(received, CONTRACT)
      /\ received # None /\ received.body.content \in Texts
      /\ mirrored_review
      /\ review # None /\ VerifyMirroredReview(review)
      /\ review.body.received_turn_hash = received.hash
      /\ review.body.draft_sha256 = Digest(draft)
      /\ review.body.assessment = "CORRECTION_REQUIRED"
    BY ContentAssumption DEF ReceiveCorrection, IInv, TypeOK, InCall
<1>2. CASE CorrectionRejected(reply)
    <2>1. Storable(last_turn_audit')
        BY <1>1, <1>2, FailedCheck, UnreleasedAudit DEF CorrectionRejected
    <2>2. QED
        BY <1>2, <2>1, RaisePreserves DEF CorrectionRejected, Exceptions
<1>3. CASE CorrectionUnencodable(reply)
    BY <1>3, RaiseKeepsAudit DEF CorrectionUnencodable, Exceptions
<1>4. CASE CorrectionApplied(reply)
    <2> DEFINE item == Interception(received, draft,
                           <<Check(MIRROR_CHECK, "PASS", review.body)>>, reply, review.hash)
    <2>1. last_turn_audit' = Audit(received, review, item)
        BY <1>4 DEF CorrectionApplied
    <2>2. Storable(last_turn_audit') /\ item.body.released = reply
        BY <1>1, <1>4, <2>1, CorrectedAudit DEF CorrectionApplied
    <2>3. /\ last_turn_audit' # None
          /\ last_turn_audit'.received = received
          /\ last_turn_audit'.interception.body.released = reply
        BY <2>1, <2>2 DEF Audit, None
    <2> HIDE DEF item
    <2>4. TypeOK'
        BY <1>1, <1>4, <2>2 DEF CorrectionApplied, IInv, TypeOK, Storable
    <2>5. InCall' /\ Cleared'
        BY <1>1, <1>4, <2>3 DEF CorrectionApplied, InCall, Cleared
    <2>6. AuditBindsReview'
        BY <2>2 DEF AuditBindsReview, Storable
    <2>7. QED
        BY <2>4, <2>5, <2>6 DEF IInv
<1>5. QED
    BY <1>2, <1>3, <1>4 DEF ReceiveCorrection

LEMMA CommitPreserves ==
    ASSUME IInv, Commit
    PROVE  IInv'
<1>1. CASE ExtendMessages
    <2> DEFINE question == Message("user", received.body.content)
               reply == Message("assistant", answer)
               Entries == [role : {"user", "assistant"}, content : Texts \cup Replies]
    <2>1. question \in Entries /\ reply \in Entries
        BY <1>1 DEF ExtendMessages, IInv, InCall, Message
    <2>2. messages \in Seq(Entries) /\ messages' = messages \o <<question, reply>>
        BY <1>1 DEF ExtendMessages, IInv, TypeOK, Conversation
    <2> HIDE DEF question, reply, Entries
    <2>3. messages' \in Seq(Entries)
        BY <2>1, <2>2
    <2>4. messages' \in Conversation
        BY <2>3 DEF Conversation, Entries
    <2>5. TypeOK'
        BY <1>1, <2>4 DEF ExtendMessages, locals, IInv, TypeOK
    <2>6. InCall' /\ Cleared'
        BY <1>1 DEF ExtendMessages, locals, IInv, InCall, Cleared
    <2>7. AuditBindsReview'
        BY <1>1 DEF ExtendMessages, IInv, AuditBindsReview
    <2>8. QED
        BY <2>5, <2>6, <2>7 DEF IInv
<1>2. CASE LinkTurn
    <2>1. IsDigest(received.hash)
        BY <1>2, VerifiedTurnHash DEF LinkTurn, IInv, TypeOK, InCall
    <2>2. QED
        BY <1>2, <2>1 DEF LinkTurn, locals, IInv, TypeOK, InCall, Cleared, AuditBindsReview
<1>3. CASE CountTurn
    BY <1>3 DEF CountTurn, locals, IInv, TypeOK, InCall, Cleared, AuditBindsReview
<1>4. QED
    BY <1>1, <1>2, <1>3 DEF Commit

LEMMA IInvNext == IInv /\ [Next]_vars => IInv'
<1> SUFFICES ASSUME IInv, [Next]_vars PROVE IInv'
    OBVIOUS
<1>1. ASSUME NEW text \in Texts, Ask(text) PROVE IInv'
    BY <1>1, AskPreserves
<1>2. ASSUME NEW text \in Texts, AskRefused(text) PROVE IInv'
    BY <1>2, RaiseKeepsAudit DEF AskRefused, Exceptions
<1>3. CASE Answered
    <2>1. ASSUME NEW reply \in Replies, ReceiveDraft(reply) \/ ReceiveCorrection(reply)
          PROVE  IInv'
        BY <2>1, ReceiveDraftPreserves, ReceiveCorrectionPreserves
    <2>2. ASSUME NEW raw \in Reviews, ReceiveReview(raw) PROVE IInv'
        BY <2>2, ReceiveReviewPreserves
    <2>3. CASE RequestUnencodable
        BY <2>3, RaiseKeepsAudit DEF RequestUnencodable, Exceptions
    <2>4. CASE TransportFails
        BY <2>4, RaiseKeepsAudit DEF TransportFails, Exceptions
    <2>5. QED
        BY <1>3, <2>1, <2>2, <2>3, <2>4 DEF Answered
<1>4. CASE Commit
    BY <1>4, CommitPreserves
<1>5. CASE Interrupt
    BY <1>5, RaiseKeepsAudit DEF Interrupt, Exceptions
<1>6. CASE UNCHANGED vars
    BY <1>6 DEF vars, session, locals, IInv, TypeOK, InCall, Cleared, AuditBindsReview
<1>7. QED
    BY <1>1, <1>2, <1>3, <1>4, <1>5, <1>6 DEF Next

LEMMA IInvAlways == Spec => []IInv
BY IInvInit, IInvNext, PTL DEF Spec

-----------------------------------------------------------------------------
(* The theorems.                                                           *)

\* The attributes of a session and the locals of ask() keep their types.
THEOREM TypeCorrect == Spec => []TypeOK
BY IInvAlways, PTL DEF IInv

\* The audit of a session is always one whose turn, review and interception
\* agree, whatever the carrier answers and wherever a call is interrupted.
THEOREM AuditBindsReviewAlways == Spec => []AuditBindsReview
BY IInvAlways, PTL DEF IInv

\* Only ExtendMessages writes the history, and with Cleared and
\* AuditBindsReview what it writes was released by a verifiable interception.
THEOREM OnlyReleasedIsCommitted == Spec => OnlyReleasedCommitted
<1> DEFINE Released ==
        mirrored_review /\ messages' # messages =>
            /\ last_turn_audit # None
            /\ last_turn_audit.received = received
            /\ VerifyInterception(last_turn_audit.interception, received, CONTRACT)
            /\ last_turn_audit.interception.body.released # None
            /\ messages' = messages \o
                  <<Message("user", received.body.content),
                    Message("assistant", last_turn_audit.interception.body.released)>>
<1>1. IInv /\ [Next]_vars => [Released]_vars
    <2> SUFFICES ASSUME IInv, Next, mirrored_review, messages' # messages
                 PROVE  Released
        BY DEF vars
    <2>1. ExtendMessages
        BY DEF Next, Answered, Commit, Ask, AskRefused, ReceiveDraft, ReleaseUnreviewed,
               HoldDraft, DraftUnencodable, ReceiveReview, ReviewRaises, ReviewMalformed,
               ReviewUnknown, ReviewClean, ReviewRequiresCorrection, ReceiveCorrection,
               CorrectionRejected, CorrectionUnencodable, CorrectionApplied,
               RequestUnencodable, TransportFails, LinkTurn, CountTurn, Interrupt, Raise,
               session
    <2>2. /\ last_turn_audit # None
          /\ last_turn_audit.received = received
          /\ last_turn_audit.interception.body.released = answer
        BY <2>1 DEF ExtendMessages, IInv, Cleared
    <2>3. VerifyInterception(last_turn_audit.interception, received, CONTRACT)
        BY <2>2 DEF IInv, AuditBindsReview, Consistent
    <2>4. answer # None
        BY <2>1, ContentAssumption DEF ExtendMessages, IInv, InCall
    <2>5. QED
        BY <2>1, <2>2, <2>3, <2>4 DEF ExtendMessages
<1>2. QED
    BY <1>1, IInvAlways, PTL DEF Spec, OnlyReleasedCommitted
-----------------------------------------------------------------------------
(* Commits that went through, and commits that were cut short.             *)

\* What ties the tail of ask() to the history it has just extended.
InCommit ==
    /\ pc = "extend" => 2 * turn_sequence <= Len(messages)
    /\ pc \in {"link", "count"} =>
          /\ 2 * (turn_sequence + 1) <= Len(messages)
          /\ \E i \in DOMAIN messages : messages[i] = Message("user", received.body.content)
          /\ mirrored_review =>
                /\ last_turn_audit # None
                /\ last_turn_audit.received = received
                /\ last_turn_audit.interception.body.released = messages[Len(messages)].content
    /\ pc = "count" => previous_received_turn_hash = received.hash

\* Inductive together with IInv.
CommitInv == InCommit /\ LastAnswerAudited /\ ChainBehindHistory

LEMMA CommitInvInit == Init => CommitInv
BY DEF Init, CommitInv, InCommit, LastAnswerAudited, ChainBehindHistory

\* A step that ends the call with an exception, or that neither commits nor
\* returns, keeps what was committed.
LEMMA HistoryKept ==
    ASSUME IInv, CommitInv,
           UNCHANGED <<messages, previous_received_turn_hash, turn_sequence>>,
           pc' = "idle" => raised' # "NOTHING",
           pc' \notin {"link", "count"}
    PROVE  CommitInv'
BY DEF CommitInv, InCommit, LastAnswerAudited, ChainBehindHistory

LEMMA CommitInvCommits ==
    ASSUME IInv, CommitInv, Commit
    PROVE  CommitInv'
<1> DEFINE question == Message("user", received.body.content)
           reply == Message("assistant", answer)
<1>1. messages \in Seq([role : {"user", "assistant"}, content : Texts \cup Replies]) /\ turn_sequence \in Nat
    BY DEF IInv, TypeOK, Conversation
<1>2. CASE ExtendMessages
    <2>1. messages' = messages \o <<question, reply>>
        BY <1>2 DEF ExtendMessages
    <2>2. reply.content = answer
        BY DEF Message
    <2> HIDE DEF question, reply
    <2>3. /\ Len(messages') = Len(messages) + 2
          /\ \A i \in DOMAIN messages : i \in DOMAIN messages' /\ messages'[i] = messages[i]
          /\ Len(messages) + 1 \in DOMAIN messages'
          /\ messages'[Len(messages) + 1] = question
          /\ messages'[Len(messages')] = reply
        BY <1>1, <2>1
    <2>4. /\ UNCHANGED <<mirrored_review, previous_received_turn_hash, turn_sequence,
                         last_turn_audit, received>>
          /\ pc = "extend" /\ pc' = "link"
        BY <1>2 DEF ExtendMessages, locals
    <2>5. mirrored_review =>
            /\ last_turn_audit # None
            /\ last_turn_audit.received = received
            /\ last_turn_audit.interception.body.released = answer
        BY <2>4 DEF IInv, Cleared
    <2>6. InCommit'
        BY <1>1, <2>2, <2>3, <2>4, <2>5 DEF CommitInv, InCommit, question
    <2>7. ChainBehindHistory'
        BY <1>1, <2>3, <2>4 DEF CommitInv, ChainBehindHistory
    <2>8. QED
        BY <2>4, <2>6, <2>7 DEF CommitInv, LastAnswerAudited
<1>3. CASE LinkTurn
    <2>1. /\ UNCHANGED <<mirrored_review, messages, turn_sequence, last_turn_audit, received>>
          /\ pc = "link" /\ pc' = "count"
          /\ previous_received_turn_hash' = received.hash
        BY <1>3 DEF LinkTurn, locals
    <2>2. received.hash.sha256 = received.body
        BY <2>1 DEF IInv, TypeOK, InCall, VerifyReceivedTurn, Intact, Digest
    <2>3. QED
        BY <2>1, <2>2 DEF CommitInv, InCommit, LastAnswerAudited, ChainBehindHistory
<1>4. CASE CountTurn
    BY <1>1, <1>4 DEF CountTurn, locals, CommitInv, InCommit, LastAnswerAudited, ChainBehindHistory
<1>5. QED
    BY <1>2, <1>3, <1>4 DEF Commit

LEMMA CommitInvNext == IInv /\ CommitInv /\ [Next]_vars => CommitInv'
<1> SUFFICES ASSUME IInv, CommitInv, [Next]_vars PROVE CommitInv'
    OBVIOUS
<1>1. CASE Commit
    BY <1>1, CommitInvCommits
<1>2. CASE UNCHANGED vars
    BY <1>2 DEF vars, session, locals, CommitInv, InCommit, LastAnswerAudited, ChainBehindHistory
<1>3. CASE Next /\ ~Commit
    <2>1. /\ UNCHANGED <<messages, previous_received_turn_hash, turn_sequence>>
          /\ pc' = "idle" => raised' # "NOTHING"
          /\ pc' \notin {"link", "count"}
        BY <1>3 DEF Next, Answered, Ask, AskRefused, ReceiveDraft, ReleaseUnreviewed,
               HoldDraft, DraftUnencodable, ReceiveReview, ReviewRaises, ReviewMalformed,
               ReviewUnknown, ReviewClean, ReviewRequiresCorrection, ReceiveCorrection,
               CorrectionRejected, CorrectionUnencodable, CorrectionApplied,
               RequestUnencodable, TransportFails, Interrupt, Raise, session
    <2>2. QED
        BY <2>1, HistoryKept
<1>4. QED
    BY <1>1, <1>2, <1>3

LEMMA CommitInvAlways == Spec => []CommitInv
BY IInvAlways, CommitInvInit, CommitInvNext, PTL DEF Spec

\* After a reviewed call that returned, the audit shown is that of the turn the
\* chain ends in and of the answer the history ends in.
THEOREM LastAnswerAuditedAlways == Spec => []LastAnswerAudited
BY CommitInvAlways, PTL DEF CommitInv

\* However a commit is interrupted, the chain never counts or links a turn
\* whose question the history lacks.
THEOREM ChainBehindHistoryAlways == Spec => []ChainBehindHistory
BY CommitInvAlways, PTL DEF CommitInv
-----------------------------------------------------------------------------
(* Sessions whose commits are not cut short.                               *)

\* The chain position is one create_received_turn takes, but for the moment
\* between the link and the count; a reviewed text that is in the history or on
\* its way into it can be encoded; a draft only comes for a history that could be
\* sent, so no text but the last in the history cannot.
Extensible ==
    /\ IF pc = "count" THEN IsDigest(previous_received_turn_hash)
                       ELSE MayReceive("USER", turn_sequence, previous_received_turn_hash)
    /\ pc # "idle" => received.body.content \notin Unencodable
    /\ mirrored_review =>
          /\ Sendable(messages)
          /\ pc \in {"review", "correct"} => draft \notin Unencodable
          /\ pc = "extend" => answer \notin Unencodable
    /\ pc \in {"review", "correct", "extend"} => Sendable(messages)
    /\ SendableBefore(messages)

LEMMA ExtensibleInit == Init => Extensible
BY DEF Init, Extensible, MayReceive, ROLES, ChainPosition, Sendable, SendableBefore

\* Only an interruption can leave a session that is not extensible.
LEMMA ExtensibleNext ==
    ASSUME ~Interrupt, IInv, Extensible, [Next]_vars
    PROVE  Extensible'
<1>1. ASSUME NEW text \in Texts, Ask(text) PROVE Extensible'
    <2>1. received'.body.content = text /\ text \notin Unencodable
        BY <1>1, ReceivedTurnVerifies DEF Ask, MayAsk
    <2>2. QED
        BY <1>1, <2>1 DEF Ask, session, Extensible, Sendable, SendableBefore
<1>2. ASSUME NEW text \in Texts, AskRefused(text) PROVE Extensible'
    BY <1>2 DEF AskRefused, Raise, Extensible, Sendable, SendableBefore
<1>3. ASSUME NEW reply \in Replies, ReceiveDraft(reply) PROVE Extensible'
    BY <1>3 DEF ReceiveDraft, ReleaseUnreviewed, HoldDraft, DraftUnencodable, Raise, session,
                Extensible, Sendable, SendableBefore
<1>4. ASSUME NEW reply \in Replies, ReceiveCorrection(reply) PROVE Extensible'
    BY <1>4 DEF ReceiveCorrection, CorrectionRejected, CorrectionUnencodable,
                CorrectionApplied, Raise, Extensible, Sendable, SendableBefore
<1>5. ASSUME NEW raw \in Reviews, ReceiveReview(raw) PROVE Extensible'
    BY <1>5 DEF ReceiveReview, ReviewRaises, ReviewMalformed, ReviewUnknown, ReviewClean,
                ReviewRequiresCorrection, Raise, session, Extensible, Sendable, SendableBefore
<1>6. CASE RequestUnencodable \/ TransportFails
    BY <1>6 DEF RequestUnencodable, TransportFails, Raise, Extensible, Sendable, SendableBefore
<1>7. CASE ExtendMessages
    <2> DEFINE question == Message("user", received.body.content)
               reply == Message("assistant", answer)
    <2>1. messages \in Seq([role : {"user", "assistant"}, content : Texts \cup Replies])
        BY DEF IInv, TypeOK, Conversation
    <2>2. messages' = messages \o <<question, reply>> /\ pc = "extend"
        BY <1>7 DEF ExtendMessages
    <2>3. question.content = received.body.content /\ reply.content = answer
        BY DEF Message
    <2> HIDE DEF question, reply
    <2>4. \A i \in DOMAIN messages' :
             \/ i \in DOMAIN messages /\ messages'[i] = messages[i]
             \/ messages'[i] \in {question, reply}
        BY <2>1, <2>2
    <2>5. mirrored_review => Sendable(messages')
        BY <2>2, <2>3, <2>4 DEF Extensible, Sendable
    <2>6. SendableBefore(messages')
        <3>1. \A i \in 1..(Len(messages') - 1) :
                 \/ i \in DOMAIN messages /\ messages'[i] = messages[i]
                 \/ messages'[i] = question
            BY <2>1, <2>2
        <3>2. Sendable(messages) /\ received.body.content \notin Unencodable
            BY <2>2 DEF Extensible
        <3>3. QED
            BY <2>3, <3>1, <3>2 DEF Sendable, SendableBefore
    <2>7. QED
        BY <1>7, <2>5, <2>6 DEF ExtendMessages, locals, Extensible
<1>8. CASE LinkTurn
    <2>1. IsDigest(received.hash)
        BY <1>8, VerifiedTurnHash DEF LinkTurn, IInv, TypeOK, InCall
    <2>2. QED
        BY <1>8, <2>1 DEF LinkTurn, locals, Extensible, Sendable, SendableBefore
<1>9. CASE CountTurn
    BY <1>9 DEF CountTurn, locals, IInv, TypeOK, Extensible, Sendable, SendableBefore, MayReceive,
                ChainPosition, ROLES
<1>10. CASE UNCHANGED vars
    BY <1>10 DEF vars, session, locals, Extensible, Sendable, SendableBefore
<1>11. QED
    BY <1>1, <1>2, <1>3, <1>4, <1>5, <1>6, <1>7, <1>8, <1>9, <1>10
       DEF Next, Answered, Commit

\* Unless a call is interrupted, the next question is accepted and a reviewed
\* history can be sent, however the calls before it ended; an answer that cannot
\* be sent, without review, is the last of its session.
THEOREM ContinuableAlways ==
    ASSUME ~Interruptible
    PROVE  Spec => []Continuable
<1>1. IInv /\ Extensible /\ [Next]_vars => Extensible'
    BY ExtensibleNext DEF Interrupt
<1>2. Extensible => Continuable
    BY DEF Extensible, Continuable
<1>3. QED
    BY <1>1, <1>2, ExtensibleInit, IInvAlways, PTL DEF Spec
-----------------------------------------------------------------------------
(* ChatSession implements HeldRelease.                                     *)

\* Every question in the history is followed by its answer.
Paired == \E n \in Nat : Len(messages) = 2 * n

\* What appending an exchange does to the history.
LEMMA TwoAppended ==
    ASSUME NEW S, NEW s \in Seq(S), NEW a, NEW b, NEW n \in Nat, Len(s) = 2 * n
    PROVE  LET t == s \o <<a, b>>
           IN  /\ Len(t) = 2 * (n + 1)
               /\ \A i \in 1..(2 * n) : t[i] = s[i]
               /\ t[2 * (n + 1) - 1] = a
               /\ t[2 * (n + 1)] = b
<1> DEFINE t == s \o <<a, b>>
<1>1. Len(t) = Len(s) + 2 /\ \A i \in 1..Len(s) : t[i] = s[i]
    OBVIOUS
<1>2. t[Len(s) + 1] = a /\ t[Len(s) + 2] = b
    OBVIOUS
<1>3. /\ 2 * (n + 1) = Len(s) + 2
      /\ 2 * (n + 1) - 1 = Len(s) + 1
      /\ 1..(2 * n) = 1..Len(s)
    OBVIOUS
<1> HIDE DEF t
<1>4. Len(t) = 2 * (n + 1) /\ \A i \in 1..(2 * n) : t[i] = s[i]
    BY <1>1, <1>3
<1>5. t[2 * (n + 1) - 1] = a /\ t[2 * (n + 1)] = b
    BY <1>2, <1>3
<1>6. QED
    BY <1>4, <1>5 DEF t

\* A sequence extended by one is the longer function.
LEMMA AppendAsFunction ==
    ASSUME NEW T, NEW s \in Seq(T), NEW e \in T
    PROVE  Append(s, e) = [i \in 1..(Len(s) + 1) |-> IF i = Len(s) + 1 THEN e ELSE s[i]]
<1> DEFINE t == Append(s, e)
           f == [i \in 1..(Len(s) + 1) |-> IF i = Len(s) + 1 THEN e ELSE s[i]]
<1>1. t \in Seq(T) /\ Len(t) = Len(s) + 1
    OBVIOUS
<1>2. t \in [1..Len(t) -> T]
    BY <1>1, LenProperties
<1>3. \A i \in 1..Len(t) : t[i] = f[i]
    BY <1>1
<1>4. t = [i \in 1..Len(t) |-> t[i]]
    BY <1>2
<1>5. f = [i \in 1..(Len(s) + 1) |-> f[i]]
    OBVIOUS
<1> HIDE DEF t, f
<1>6. t = f
    BY <1>1, <1>3, <1>4, <1>5
<1>7. QED
    BY <1>6 DEF t, f

\* A function on 1..n is a sequence of length n.
LEMMA FunctionIsSeq ==
    ASSUME NEW T, NEW n \in Nat, NEW f \in [1..n -> T]
    PROVE  f \in Seq(T) /\ Len(f) = n
OBVIOUS

LEMMA ExchangesExtended ==
    ASSUME IInv, Paired, ExtendMessages
    PROVE  /\ Paired'
           /\ Exchanges' = Append(Exchanges, <<received.body.content, answer>>)
<1> DEFINE question == Message("user", received.body.content)
           reply == Message("assistant", answer)
           Entries == [role : {"user", "assistant"}, content : Texts \cup Replies]
           Exchange == (Texts \cup Replies) \X (Texts \cup Replies)
           new == <<received.body.content, answer>>
<1>1. messages \in Seq(Entries) /\ messages' = messages \o <<question, reply>>
    BY DEF ExtendMessages, IInv, TypeOK, Conversation
<1>2. PICK n \in Nat : Len(messages) = 2 * n
    BY DEF Paired
<1>3. question.content = received.body.content /\ reply.content = answer
    BY DEF Message
<1>4. new \in Exchange
    BY DEF ExtendMessages, IInv, InCall
<1>5. \A i \in 1..(2 * n) : messages[i].content \in Texts \cup Replies
    <2>1. \A entry \in Entries : entry.content \in Texts \cup Replies
        OBVIOUS
    <2> HIDE DEF question, reply, Entries
    <2>2. \A i \in 1..(2 * n) : messages[i] \in Entries
        BY <1>1, <1>2, ElementOfSeq
    <2>3. QED
        BY <2>1, <2>2
<1> HIDE DEF question, reply, Entries
<1>6. /\ Len(messages') = 2 * (n + 1)
      /\ \A i \in 1..(2 * n) : messages'[i] = messages[i]
      /\ messages'[2 * (n + 1) - 1] = question
      /\ messages'[2 * (n + 1)] = reply
    BY <1>1, <1>2, TwoAppended
<1>7. Exchanges = [i \in 1..n |-> <<messages[2 * i - 1].content, messages[2 * i].content>>]
    <2>1. Len(messages) \div 2 = n
        BY <1>2
    <2>2. QED
        BY <2>1 DEF Exchanges
<1>8. Exchanges' = [i \in 1..(n + 1) |-> <<messages'[2 * i - 1].content, messages'[2 * i].content>>]
    <2>1. Len(messages') \div 2 = n + 1
        BY <1>6
    <2>2. QED
        BY <2>1 DEF Exchanges
<1>9. Exchanges \in Seq(Exchange) /\ Len(Exchanges) = n
    <2>1. \A i \in 1..n : 2 * i - 1 \in 1..(2 * n) /\ 2 * i \in 1..(2 * n)
        OBVIOUS
    <2>2. \A i \in 1..n : <<messages[2 * i - 1].content, messages[2 * i].content>> \in Exchange
        BY <1>5, <2>1
    <2> HIDE DEF Exchange
    <2>3. Exchanges \in [1..n -> Exchange]
        BY <1>7, <2>2
    <2>4. QED
        BY <2>3, FunctionIsSeq
<1> HIDE DEF Exchange
<1> DEFINE longer == [i \in 1..(n + 1) |-> IF i = n + 1 THEN new ELSE Exchanges[i]]
<1>10. Append(Exchanges, new) = longer
    <2> HIDE DEF new
    <2>1. QED
        BY <1>4, <1>9, AppendAsFunction
<1>11. ASSUME NEW i \in 1..(n + 1)
       PROVE  <<messages'[2 * i - 1].content, messages'[2 * i].content>> = longer[i]
    <2>1. CASE i = n + 1
        BY <1>3, <1>6, <2>1
    <2>2. CASE i # n + 1
        <3>1. i \in 1..n /\ 2 * i - 1 \in 1..(2 * n) /\ 2 * i \in 1..(2 * n)
            BY <2>2
        <3>2. QED
            BY <1>6, <1>7, <2>2, <3>1
    <2>3. QED
        BY <2>1, <2>2
<1>12. Exchanges' = longer
    BY <1>8, <1>11
<1>13. n + 1 \in Nat /\ Paired'
    BY <1>6 DEF Paired
<1> HIDE DEF longer
<1>14. QED
    BY <1>10, <1>12, <1>13
\* A question under way is not blank, and the draft it was asked about is held.
Underway ==
    /\ pc # "idle" => received.body.content \notin Blank
    /\ pc = "extend" => draft # None

\* Inductive together with IInv.
PairedInv == Paired /\ Underway

LEMMA PairedInvInit == Init => PairedInv
<1>1. ASSUME Init PROVE Len(messages) = 2 * 0
    BY <1>1 DEF Init
<1>2. QED
    BY <1>1 DEF Init, PairedInv, Paired, Underway

\* A step that leaves the history alone keeps the exchanges.
LEMMA ExchangesKept ==
    ASSUME Paired, UNCHANGED messages
    PROVE  Paired' /\ UNCHANGED Exchanges
BY DEF Paired, Exchanges

\* Both modules extend HashBound: they mean the same absent value.
LEMMA SameNone == Abstract!None = None
BY DEF Abstract!None, None

LEMMA InitImplements == Init => Abstract!Init
<1> SUFFICES ASSUME Init PROVE Abstract!Init
    OBVIOUS
<1>1. Len(messages) \div 2 = 0
    BY DEF Init
<1>2. Exchanges = <<>>
    BY <1>1 DEF Exchanges
<1>3. QED
    BY <1>2, SameNone DEF Init, Abstract!Init, InFlight

\* The end of a call by an exception: a question in flight is abandoned, and
\* after the publication there is none any more.
LEMMA RaiseImplements ==
    ASSUME IInv, Paired, NEW exception, Raise(exception)
    PROVE  [Abstract!Next]_(Abstract!vars) /\ PairedInv'
<1>1. UNCHANGED <<messages, mirrored_review>> /\ pc' = "idle"
    BY DEF Raise
<1>2. Paired' /\ UNCHANGED Exchanges
    BY <1>1, ExchangesKept
<1>3. ~InFlight'
    BY <1>1 DEF InFlight
<1>4. CASE InFlight
    <2>1. received.body.content # None
        BY <1>4, ContentAssumption DEF InFlight, IInv, InCall
    <2>2. Abstract!Abandon
        BY <1>1, <1>2, <1>3, <1>4, <2>1, SameNone DEF Abstract!Abandon, InFlight
    <2>3. QED
        BY <1>1, <1>2, <2>2 DEF Abstract!Next, PairedInv, Underway
<1>5. CASE ~InFlight
    <2>1. UNCHANGED Abstract!vars
        BY <1>1, <1>2, <1>3, <1>5 DEF Abstract!vars, Abstract!turn, InFlight
    <2>2. QED
        BY <1>1, <1>2, <2>1 DEF PairedInv, Underway
<1>6. QED
    BY <1>4, <1>5

LEMMA AskImplements ==
    ASSUME IInv, PairedInv, NEW text \in Texts, Ask(text)
    PROVE  Abstract!Next /\ PairedInv'
<1>1. received'.body.content = text /\ text \notin Blank
    BY ReceivedTurnVerifies DEF Ask, MayAsk
<1>2. UNCHANGED <<messages, mirrored_review>> /\ pc = "idle" /\ pc' = "draft"
    BY DEF Ask, session
<1>3. Paired' /\ UNCHANGED Exchanges
    BY <1>2, ExchangesKept DEF PairedInv
<1>4. text \in Texts \ Blank /\ Abstract!Receive(text)
    BY <1>1, <1>2, <1>3, SameNone DEF Abstract!Receive, InFlight
<1>5. QED
    BY <1>1, <1>2, <1>3, <1>4 DEF Abstract!Next, PairedInv, Underway

LEMMA ReceiveDraftImplements ==
    ASSUME IInv, PairedInv, NEW reply \in Replies, ReceiveDraft(reply)
    PROVE  [Abstract!Next]_(Abstract!vars) /\ PairedInv'
<1>1. pc = "draft" /\ received.body.content # None /\ reply # None
    BY ContentAssumption DEF ReceiveDraft, IInv, InCall
<1>2. CASE ReleaseUnreviewed(reply)
    <2>1. UNCHANGED <<messages, mirrored_review, received>> /\ ~mirrored_review
          /\ pc' = "extend" /\ draft' = reply /\ answer' = reply
        BY <1>2 DEF ReleaseUnreviewed
    <2>2. Paired' /\ UNCHANGED Exchanges
        BY <2>1, ExchangesKept DEF PairedInv
    <2>3. Abstract!PassThrough(reply)
        BY <1>1, <2>1, <2>2, SameNone DEF Abstract!PassThrough, InFlight
    <2>4. QED
        BY <1>1, <2>1, <2>2, <2>3 DEF Abstract!Next, PairedInv, Underway
<1>3. CASE HoldDraft(reply)
    <2>1. UNCHANGED <<messages, mirrored_review, received>> /\ mirrored_review
          /\ pc' = "review" /\ draft' = reply
        BY <1>3 DEF HoldDraft, session
    <2>2. Paired' /\ UNCHANGED Exchanges
        BY <2>1, ExchangesKept DEF PairedInv
    <2>3. Abstract!Hold(reply)
        BY <1>1, <2>1, <2>2, SameNone DEF Abstract!Hold, InFlight
    <2>4. QED
        BY <1>1, <2>1, <2>2, <2>3 DEF Abstract!Next, PairedInv, Underway
<1>4. CASE DraftUnencodable(reply)
    BY <1>4, RaiseImplements DEF DraftUnencodable, PairedInv
<1>5. QED
    BY <1>2, <1>3, <1>4 DEF ReceiveDraft

LEMMA ReceiveReviewImplements ==
    ASSUME IInv, PairedInv, NEW raw \in Reviews, ReceiveReview(raw)
    PROVE  [Abstract!Next]_(Abstract!vars) /\ PairedInv'
<1>1. pc = "review" /\ received.body.content # None /\ draft # None
    BY ContentAssumption DEF ReceiveReview, IInv, InCall
<1>2. CASE ReviewClean(raw)
    <2>1. UNCHANGED <<messages, mirrored_review, received, draft>>
          /\ pc' = "extend" /\ answer' = draft
        BY <1>2 DEF ReviewClean
    <2>2. Paired' /\ UNCHANGED Exchanges
        BY <2>1, ExchangesKept DEF PairedInv
    <2>3. Abstract!ClearDraft
        BY <1>1, <2>1, <2>2, SameNone DEF Abstract!ClearDraft, InFlight
    <2>4. QED
        BY <1>1, <2>1, <2>2, <2>3 DEF Abstract!Next, PairedInv, Underway
<1>3. CASE ReviewRequiresCorrection(raw)
    <2>1. UNCHANGED <<messages, mirrored_review, received, draft>> /\ pc' = "correct"
        BY <1>3 DEF ReviewRequiresCorrection, session
    <2>2. Paired' /\ UNCHANGED Exchanges
        BY <2>1, ExchangesKept DEF PairedInv
    <2>3. UNCHANGED Abstract!vars
        BY <1>1, <2>1, <2>2 DEF Abstract!vars, Abstract!turn, InFlight
    <2>4. QED
        BY <1>1, <2>1, <2>2, <2>3 DEF PairedInv, Underway
<1>4. CASE ReviewRaises(raw) \/ ReviewMalformed(raw) \/ ReviewUnknown(raw)
    BY <1>4, RaiseImplements DEF ReviewRaises, ReviewMalformed, ReviewUnknown, PairedInv
<1>5. QED
    BY <1>2, <1>3, <1>4 DEF ReceiveReview

LEMMA ReceiveCorrectionImplements ==
    ASSUME IInv, PairedInv, NEW reply \in Replies, ReceiveCorrection(reply)
    PROVE  [Abstract!Next]_(Abstract!vars) /\ PairedInv'
<1>1. pc = "correct" /\ received.body.content # None /\ draft # None
    BY ContentAssumption DEF ReceiveCorrection, IInv, InCall
<1>2. CASE CorrectionApplied(reply)
    <2>1. UNCHANGED <<messages, mirrored_review, received, draft>>
          /\ pc' = "extend" /\ answer' = reply /\ reply \notin Blank \cup {draft}
        BY <1>2 DEF CorrectionApplied
    <2>2. Paired' /\ UNCHANGED Exchanges
        BY <2>1, ExchangesKept DEF PairedInv
    <2>3. Abstract!ClearReplacement(reply)
        BY <1>1, <2>1, <2>2, SameNone DEF Abstract!ClearReplacement, InFlight
    <2>4. QED
        BY <1>1, <2>1, <2>2, <2>3 DEF Abstract!Next, PairedInv, Underway
<1>3. CASE CorrectionRejected(reply) \/ CorrectionUnencodable(reply)
    BY <1>3, RaiseImplements DEF CorrectionRejected, CorrectionUnencodable, PairedInv
<1>4. QED
    BY <1>2, <1>3 DEF ReceiveCorrection

LEMMA CommitImplements ==
    ASSUME IInv, PairedInv, Commit
    PROVE  [Abstract!Next]_(Abstract!vars) /\ PairedInv'
<1>1. CASE ExtendMessages
    <2>1. /\ UNCHANGED <<mirrored_review, received, draft, answer>>
          /\ pc = "extend" /\ pc' = "link"
        BY <1>1 DEF ExtendMessages, locals
    <2>2. answer # None
        BY <2>1, ContentAssumption DEF IInv, InCall
    <2>3. Paired' /\ Exchanges' = Append(Exchanges, <<received.body.content, answer>>)
        BY <1>1, ExchangesExtended DEF PairedInv
    <2>4. Abstract!Publish
        BY <2>1, <2>2, <2>3, SameNone DEF Abstract!Publish, InFlight
    <2>5. QED
        BY <2>1, <2>3, <2>4 DEF Abstract!Next, PairedInv, Underway
<1>2. CASE LinkTurn \/ CountTurn
    <2>1. /\ UNCHANGED <<messages, mirrored_review, received, draft>>
          /\ pc \in {"link", "count"} /\ pc' \in {"count", "idle"}
        BY <1>2 DEF LinkTurn, CountTurn, locals
    <2>2. Paired' /\ UNCHANGED Exchanges
        BY <2>1, ExchangesKept DEF PairedInv
    <2>3. UNCHANGED Abstract!vars
        BY <2>1, <2>2 DEF Abstract!vars, Abstract!turn, InFlight
    <2>4. QED
        BY <2>1, <2>2, <2>3 DEF PairedInv, Underway
<1>3. QED
    BY <1>1, <1>2 DEF Commit

LEMMA StepImplements ==
    ASSUME IInv, PairedInv, [Next]_vars
    PROVE  [Abstract!Next]_(Abstract!vars) /\ PairedInv'
<1>1. ASSUME NEW text \in Texts, Ask(text) \/ AskRefused(text)
      PROVE  [Abstract!Next]_(Abstract!vars) /\ PairedInv'
    BY <1>1, AskImplements, RaiseImplements DEF AskRefused, PairedInv
<1>2. CASE Answered
    <2>1. ASSUME NEW reply \in Replies, ReceiveDraft(reply) \/ ReceiveCorrection(reply)
          PROVE  [Abstract!Next]_(Abstract!vars) /\ PairedInv'
        BY <2>1, ReceiveDraftImplements, ReceiveCorrectionImplements
    <2>2. ASSUME NEW raw \in Reviews, ReceiveReview(raw)
          PROVE  [Abstract!Next]_(Abstract!vars) /\ PairedInv'
        BY <2>2, ReceiveReviewImplements
    <2>3. CASE RequestUnencodable \/ TransportFails
        BY <2>3, RaiseImplements DEF RequestUnencodable, TransportFails, PairedInv
    <2>4. QED
        BY <1>2, <2>1, <2>2, <2>3 DEF Answered
<1>3. CASE Commit
    BY <1>3, CommitImplements
<1>4. CASE Interrupt
    BY <1>4, RaiseImplements DEF Interrupt, PairedInv
<1>5. CASE UNCHANGED vars
    <2>1. UNCHANGED <<messages, mirrored_review, received, draft, answer, pc>>
        BY <1>5 DEF vars, session, locals
    <2>2. Paired' /\ UNCHANGED Exchanges
        BY <2>1, ExchangesKept DEF PairedInv
    <2>3. UNCHANGED Abstract!vars
        BY <2>1, <2>2 DEF Abstract!vars, Abstract!turn, InFlight
    <2>4. QED
        BY <2>1, <2>2, <2>3 DEF PairedInv, Underway
<1>6. QED
    BY <1>1, <1>2, <1>3, <1>4, <1>5 DEF Next

\* A session implements the abstract conversation, however its calls fail and
\* wherever they are interrupted: what it publishes is the held draft or its
\* one replacement, and a question that is abandoned leaves no exchange.
THEOREM ImplementsHeldReleaseAlways == Spec => ImplementsHeldRelease
<1>1. Init => Abstract!Init
    BY InitImplements
<1>2. IInv /\ PairedInv /\ [Next]_vars => [Abstract!Next]_(Abstract!vars) /\ PairedInv'
    BY StepImplements
<1>3. QED
    BY <1>1, <1>2, PairedInvInit, IInvAlways, PTL DEF Spec, ImplementsHeldRelease, Abstract!Spec
-----------------------------------------------------------------------------
(* The chain of received turns, unrolled.                                  *)

\* f unrolls the chain from a digest, n turns back.
Unrolls(f, digest, n) ==
    f = [k \in 0..n |-> IF k = 0 THEN digest ELSE f[k - 1].sha256.previous_received_turn_hash]

\* What the chain of n turns is to say of the history.
Matches(f, n) ==
    /\ \A k \in 0..(n - 1) :
          /\ f[k].sha256.sequence = n - 1 - k
          /\ f[k].sha256.content = messages[2 * (n - k) - 1].content
    /\ f[n] = None

\* The chain of n turns that ends in a digest matches the history.
Chained(digest, n) ==
    /\ \E f : Unrolls(f, digest, n)
    /\ \A f : Unrolls(f, digest, n) => Matches(f, n)

LEMMA UnrolledValues ==
    ASSUME NEW f, NEW digest, NEW n \in Nat, Unrolls(f, digest, n)
    PROVE  /\ f[0] = digest
           /\ \A k \in 0..(n - 1) : f[k + 1] = f[k].sha256.previous_received_turn_hash
<1>1. f[0] = digest
    <2>1. 0 \in 0..n
        OBVIOUS
    <2>2. QED
        BY <2>1 DEF Unrolls
<1>2. ASSUME NEW k \in 0..(n - 1) PROVE f[k + 1] = f[k].sha256.previous_received_turn_hash
    <2>1. k + 1 \in 0..n /\ k + 1 # 0 /\ (k + 1) - 1 = k
        OBVIOUS
    <2>2. f[k + 1] = f[(k + 1) - 1].sha256.previous_received_turn_hash
        BY <2>1 DEF Unrolls
    <2>3. QED
        BY <2>1, <2>2
<1>3. QED
    BY <1>1, <1>2

\* The chain of one turn more unrolls to its last digest and the chain before.
LEMMA UnrolledFurther ==
    ASSUME NEW f, NEW digest, NEW n \in Nat, Unrolls(f, digest.sha256.previous_received_turn_hash, n)
    PROVE  Unrolls([k \in 0..(n + 1) |-> IF k = 0 THEN digest ELSE f[k - 1]], digest, n + 1)
<1> DEFINE g == [k \in 0..(n + 1) |-> IF k = 0 THEN digest ELSE f[k - 1]]
           previous(k) == g[k - 1].sha256.previous_received_turn_hash
<1>1. ASSUME NEW k \in 0..(n + 1), k # 0 PROVE f[k - 1] = previous(k)
    <2>1. k - 1 \in 0..n /\ k - 1 \in 0..(n + 1)
        BY <1>1
    <2>2. CASE k = 1
        BY <2>2, UnrolledValues
    <2>3. CASE k # 1
        <3>1. k - 2 \in 0..(n - 1) /\ (k - 2) + 1 = k - 1 /\ (k - 1) - 1 = k - 2 /\ k - 1 # 0
            BY <1>1, <2>3
        <3>2. f[k - 1] = f[k - 2].sha256.previous_received_turn_hash
            BY <3>1, UnrolledValues
        <3>3. g[k - 1] = f[k - 2]
            BY <2>1, <3>1
        <3>4. QED
            BY <3>2, <3>3
    <2>4. QED
        BY <2>2, <2>3
<1>2. g = [k \in 0..(n + 1) |-> IF k = 0 THEN digest ELSE previous(k)]
    BY <1>1
<1>3. QED
    BY <1>2 DEF Unrolls

LEMMA UnrolledBefore ==
    ASSUME NEW g, NEW digest, NEW n \in Nat, Unrolls(g, digest, n + 1)
    PROVE  Unrolls([k \in 0..n |-> g[k + 1]], digest.sha256.previous_received_turn_hash, n)
<1> DEFINE previous == digest.sha256.previous_received_turn_hash
           f == [k \in 0..n |-> g[k + 1]]
           before(k) == f[k - 1].sha256.previous_received_turn_hash
<1>1. ASSUME NEW k \in 0..n PROVE g[k + 1] = IF k = 0 THEN previous ELSE before(k)
    <2>1. k \in 0..((n + 1) - 1)
        OBVIOUS
    <2>2. g[k + 1] = g[k].sha256.previous_received_turn_hash /\ g[0] = digest
        <3> HIDE DEF f
        <3>1. QED
            BY <2>1, UnrolledValues
    <2>3. CASE k = 0
        BY <2>2, <2>3
    <2>4. CASE k # 0
        <3>1. k - 1 \in 0..n /\ (k - 1) + 1 = k
            BY <2>4
        <3>2. f[k - 1] = g[k]
            BY <3>1
        <3>3. QED
            BY <2>2, <2>4, <3>2
    <2>5. QED
        BY <2>3, <2>4
<1>2. f = [k \in 0..n |-> IF k = 0 THEN previous ELSE before(k)]
    BY <1>1
<1>3. QED
    BY <1>2 DEF Unrolls

\* A turn that continues a chain that matches, and whose question is the next
\* of the history, is the end of one that matches.
LEMMA ChainedFurther ==
    ASSUME NEW digest, NEW n \in Nat,
           Chained(digest.sha256.previous_received_turn_hash, n),
           digest.sha256.sequence = n,
           digest.sha256.content = messages[2 * (n + 1) - 1].content
    PROVE  Chained(digest, n + 1)
<1> DEFINE previous == digest.sha256.previous_received_turn_hash
<1>1. \E g : Unrolls(g, digest, n + 1)
    BY UnrolledFurther DEF Chained
<1>2. ASSUME NEW g, Unrolls(g, digest, n + 1) PROVE Matches(g, n + 1)
    <2> DEFINE f == [k \in 0..n |-> g[k + 1]]
    <2>1. Matches(f, n)
        BY <1>2, UnrolledBefore DEF Chained
    <2>2. g[0] = digest
        BY <1>2, UnrolledValues
    <2>3. ASSUME NEW k \in 0..((n + 1) - 1)
          PROVE  /\ g[k].sha256.sequence = (n + 1) - 1 - k
                 /\ g[k].sha256.content = messages[2 * ((n + 1) - k) - 1].content
        <3>1. CASE k = 0
            BY <2>2, <3>1
        <3>2. CASE k # 0
            <4> DEFINE j == k - 1
            <4>1. j \in 0..(n - 1) /\ j \in 0..n /\ j + 1 = k /\ (n + 1) - 1 - k = n - 1 - j /\ (n + 1) - k = n - j
                BY <3>2
            <4>2. f[j] = g[k]
                BY <4>1
            <4>3. f[j].sha256.sequence = n - 1 - j /\ f[j].sha256.content = messages[2 * (n - j) - 1].content
                BY <2>1, <4>1 DEF Matches
            <4> HIDE DEF f, j
            <4>4. QED
                BY <4>1, <4>2, <4>3
        <3>3. QED
            BY <3>1, <3>2
    <2>4. g[n + 1] = None
        <3>1. n \in 0..n /\ f[n] = g[n + 1]
            OBVIOUS
        <3>2. QED
            BY <2>1, <3>1 DEF Matches
    <2>5. QED
        BY <2>3, <2>4 DEF Matches
<1>3. QED
    BY <1>1, <1>2 DEF Chained

\* The chain and the history of a session no call of which was interrupted:
\* they match up to the assignments of the commit that are still to come.
ChainInv ==
    /\ Len(messages) = 2 * (turn_sequence + IF pc \in {"link", "count"} THEN 1 ELSE 0)
    /\ Chained(previous_received_turn_hash, turn_sequence + IF pc = "count" THEN 1 ELSE 0)
    /\ pc \notin {"idle", "count"} =>
          /\ received.body.sequence = turn_sequence
          /\ received.body.previous_received_turn_hash = previous_received_turn_hash
    /\ pc = "link" => messages[Len(messages) - 1].content = received.body.content

LEMMA ChainInvInit == Init => ChainInv
<1> SUFFICES ASSUME Init PROVE ChainInv
    OBVIOUS
<1>1. messages = <<>> /\ Len(messages) = 0 /\ turn_sequence = 0 /\ pc = "idle"
      /\ previous_received_turn_hash = None
    BY DEF Init
<1> DEFINE f == [k \in 0..0 |-> None]
<1>2. Unrolls(f, None, 0)
    BY DEF Unrolls
<1>3. \A g : Unrolls(g, None, 0) => Matches(g, 0)
    BY UnrolledValues DEF Matches
<1>4. Chained(None, 0)
    BY <1>2, <1>3 DEF Chained
<1>5. QED
    BY <1>1, <1>4 DEF ChainInv

LEMMA ChainInvNext ==
    ASSUME ~Interrupt, IInv, ChainInv, [Next]_vars
    PROVE  ChainInv'
<1> DEFINE n == turn_sequence
<1>1. /\ messages \in Seq([role : {"user", "assistant"}, content : Texts \cup Replies])
      /\ n \in Nat
    BY DEF IInv, TypeOK, Conversation
<1>2. CASE ExtendMessages
    <2> DEFINE question == Message("user", received.body.content)
               reply == Message("assistant", answer)
    <2>1. messages' = messages \o <<question, reply>> /\ pc = "extend" /\ pc' = "link"
          /\ UNCHANGED <<previous_received_turn_hash, turn_sequence, received>>
        BY <1>2 DEF ExtendMessages, locals
    <2>2. question.content = received.body.content
        BY DEF Message
    <2>3. Len(messages) = 2 * n
        BY <1>1, <2>1 DEF ChainInv
    <2> HIDE DEF question, reply
    <2>4. /\ Len(messages') = 2 * (n + 1)
          /\ \A i \in 1..(2 * n) : messages'[i] = messages[i]
          /\ messages'[2 * (n + 1) - 1] = question
        BY <1>1, <2>1, <2>3, TwoAppended
    <2>5. ASSUME NEW f, Matches(f, n) PROVE Matches(f, n)'
        <3>1. \A k \in 0..(n - 1) : 2 * (n - k) - 1 \in 1..(2 * n)
            BY <1>1
        <3>2. QED
            BY <2>1, <2>4, <2>5, <3>1 DEF Matches
    <2>6. Chained(previous_received_turn_hash, n) /\ UNCHANGED n
        BY <1>1, <2>1 DEF ChainInv
    <2>7. Chained(previous_received_turn_hash, n)'
        BY <2>1, <2>5, <2>6 DEF Chained, Unrolls
    <2>8. QED
        BY <1>1, <2>1, <2>2, <2>4, <2>7 DEF ChainInv
<1>3. CASE LinkTurn
    <2>1. /\ pc = "link" /\ pc' = "count" /\ previous_received_turn_hash' = received.hash
          /\ UNCHANGED <<messages, turn_sequence, received>>
        BY <1>3 DEF LinkTurn, locals
    <2>2. received.hash.sha256 = received.body
        BY <2>1 DEF IInv, TypeOK, InCall, VerifyReceivedTurn, Intact, Digest
    <2>3. Len(messages) = 2 * (n + 1) /\ Chained(previous_received_turn_hash, n)
          /\ received.body.sequence = n
          /\ received.body.previous_received_turn_hash = previous_received_turn_hash
          /\ messages[2 * (n + 1) - 1].content = received.body.content
        BY <1>1, <2>1 DEF ChainInv
    <2>4. Chained(received.hash, n + 1)
        BY <1>1, <2>2, <2>3, ChainedFurther
    <2>5. UNCHANGED n /\ Chained(received.hash, n + 1)'
        BY <2>1, <2>4 DEF Chained, Unrolls, Matches
    <2>6. QED
        BY <2>1, <2>3, <2>5 DEF ChainInv
<1>4. CASE CountTurn
    <2>1. /\ pc = "count" /\ pc' = "idle" /\ turn_sequence' = n + 1
          /\ UNCHANGED <<messages, previous_received_turn_hash>>
        BY <1>4 DEF CountTurn
    <2>2. Chained(previous_received_turn_hash, n + 1) /\ Len(messages) = 2 * (n + 1)
        BY <2>1 DEF ChainInv
    <2>3. Chained(previous_received_turn_hash, turn_sequence)'
        BY <2>1, <2>2 DEF Chained, Unrolls, Matches
    <2>4. QED
        BY <1>1, <2>1, <2>2, <2>3 DEF ChainInv
<1>5. CASE ~Commit
    <2>1. UNCHANGED <<messages, previous_received_turn_hash, turn_sequence>>
          /\ (pc' = pc \/ pc' \notin {"link", "count"})
          /\ (pc = "link" => pc' = pc /\ received' = received) /\ (pc = "count" => pc' = pc)
          /\ (pc' # "idle" => pc = "idle" \/ received' = received)
          /\ (pc' # "idle" /\ pc = "idle" => \E text \in Texts : Ask(text))
        BY <1>5 DEF Next, vars, locals, Answered, Ask, AskRefused, ReceiveDraft,
               ReleaseUnreviewed, HoldDraft, DraftUnencodable, ReceiveReview, ReviewRaises,
               ReviewMalformed, ReviewUnknown, ReviewClean, ReviewRequiresCorrection,
               ReceiveCorrection, CorrectionRejected, CorrectionUnencodable,
               CorrectionApplied, RequestUnencodable, TransportFails, Interrupt, Raise, session
    <2> DEFINE counted == turn_sequence + IF pc = "count" THEN 1 ELSE 0
               entered == turn_sequence + IF pc \in {"link", "count"} THEN 1 ELSE 0
    <2>2. UNCHANGED counted /\ UNCHANGED entered
        BY <2>1 DEF ChainInv
    <2>3. ASSUME NEW text \in Texts, Ask(text)
          PROVE  /\ received'.body.sequence = turn_sequence
                 /\ received'.body.previous_received_turn_hash = previous_received_turn_hash
                 /\ pc' = "draft"
        BY <2>3 DEF Ask, ReceivedTurn, Seal
    <2>4. pc' \notin {"idle", "count"} =>
             /\ received'.body.sequence = turn_sequence'
             /\ received'.body.previous_received_turn_hash = previous_received_turn_hash'
        BY <2>1, <2>3 DEF ChainInv
    <2> HIDE DEF counted, entered
    <2>5. Chained(previous_received_turn_hash, counted) =>
             Chained(previous_received_turn_hash, counted)'
        BY <2>1, <2>2 DEF Chained, Unrolls, Matches
    <2>6. pc' = "link" => messages'[Len(messages') - 1].content = received'.body.content
        BY <2>1 DEF ChainInv
    <2>7. Len(messages) = 2 * entered /\ Chained(previous_received_turn_hash, counted)
        BY DEF ChainInv, counted, entered
    <2>8. Len(messages') = 2 * entered' /\ Chained(previous_received_turn_hash, counted)'
        BY <2>1, <2>2, <2>5, <2>7
    <2>9. QED
        BY <2>4, <2>6, <2>8 DEF ChainInv, counted, entered
<1>6. QED
    BY <1>2, <1>3, <1>4, <1>5 DEF Commit

\* What the invariant says between two calls, in the words of the property.
LEMMA ChainInvMatches ==
    ASSUME IInv, ChainInv, pc = "idle"
    PROVE  ChainMatchesHistory
<1> DEFINE link == CHOOSE f : Unrolls(f, previous_received_turn_hash, turn_sequence)
<1>1. turn_sequence \in Nat
    BY DEF IInv, TypeOK
<1>2. Len(messages) = 2 * turn_sequence /\ Chained(previous_received_turn_hash, turn_sequence)
    BY <1>1 DEF ChainInv
<1>3. Unrolls(link, previous_received_turn_hash, turn_sequence)
    BY <1>2 DEF Chained
<1>4. Matches(link, turn_sequence)
    BY <1>2, <1>3 DEF Chained
<1>5. QED
    BY <1>2, <1>4 DEF ChainMatchesHistory, Unrolls, Matches

\* Between the calls of a session none of which was interrupted, the chain of
\* received turns is the list of questions in the history.
THEOREM ChainMatchesHistoryAlways ==
    ASSUME ~Interruptible
    PROVE  Spec => []ChainMatchesHistory
<1>1. IInv /\ ChainInv /\ [Next]_vars => ChainInv'
    BY ChainInvNext DEF Interrupt
<1>2. IInv /\ ChainInv => ChainMatchesHistory
    BY ChainInvMatches DEF ChainMatchesHistory
<1>3. QED
    BY <1>1, <1>2, ChainInvInit, IInvAlways, PTL DEF Spec

-----------------------------------------------------------------------------
(* The program is a session with a terminal around it: every step of main()*)
(* and of run_chat() is one of the session or leaves it alone.             *)

LEMMA MainStep == [MainNext]_programVars => [Next]_vars
<1> SUFFICES ASSUME [MainNext]_programVars PROVE [Next]_vars
    OBVIOUS
<1>1. CASE MakeTransport \/ MakeEnvelope \/ StartSession \/ Refused
    BY <1>1 DEF MakeTransport, MakeEnvelope, StartSession, Refused, allVars
<1>2. CASE Converse
    BY <1>2 DEF Converse, TerminalNext, ReadLine, Leave, Work, Present, ShowAnswer,
                AnswerUnprintable, ShowError, Crash, ReportError, Next
<1>3. CASE UNCHANGED programVars
    BY <1>3 DEF programVars, allVars
<1>4. QED
    BY <1>1, <1>2, <1>3 DEF MainNext

LEMMA MainIsSession == MainSpec => Spec
<1>1. MainInit => Init
    BY DEF MainInit, TerminalInit
<1>2. QED
    BY <1>1, MainStep, PTL DEF MainSpec, Spec

LEMMA MainIInvAlways == MainSpec => []IInv
BY MainIsSession, IInvAlways, PTL

\* The whole program, from the command line of main() to the last line of
\* run_chat(), keeps what the abstract conversation promises: the history grows
\* only by the pair of one question and the answer released for it.
THEOREM ProgramImplementsHeldRelease == MainSpec => ImplementsHeldRelease
BY MainIsSession, ImplementsHeldReleaseAlways, PTL

-----------------------------------------------------------------------------
(* The start of the program.                                               *)

\* The runtime contract every envelope names verifies.
LEMMA DefaultContractVerifies == VerifySemanticContract(DEFAULT_SEMANTIC_CONTRACT)
<1> DEFINE terms == {[term_id |-> id, definition |-> "declared", interpretation_policy |-> "EXACT",
                      not_equivalent_to |-> DISTINCT \ {id}] : id \in DISTINCT}
<1>1. MayContract(terms)
    <2>1. \A term \in terms :
             /\ term.term_id \in DISTINCT /\ term.definition = "declared"
             /\ term.interpretation_policy = "EXACT"
             /\ term.not_equivalent_to = DISTINCT \ {term.term_id}
        OBVIOUS
    <2>2. ASSUME NEW id \in DISTINCT PROVE \E term \in terms : term.term_id = id
        <3> DEFINE term == [term_id |-> id, definition |-> "declared",
                            interpretation_policy |-> "EXACT",
                            not_equivalent_to |-> DISTINCT \ {id}]
        <3>1. term \in terms /\ term.term_id = id
            BY <2>2
        <3>2. QED
            BY <3>1
    <2>3. \A left, right \in terms : left.term_id = right.term_id => left = right
        OBVIOUS
    <2> HIDE DEF terms
    <2>4. \A term \in terms : IsTerm(term)
        BY <2>1 DEF IsTerm, INTERPRETATION_POLICIES, DISTINCT
    <2>5. \A term \in terms : \A other \in term.not_equivalent_to :
             \E item \in terms : item.term_id = other /\ term.term_id \in item.not_equivalent_to
        BY <2>1, <2>2
    <2>6. terms # {}
        BY <2>2 DEF DISTINCT
    <2>7. QED
        BY <2>3, <2>4, <2>5, <2>6 DEF MayContract
<1>2. DEFAULT_SEMANTIC_CONTRACT = SemanticContract(terms)
    BY DEF DEFAULT_SEMANTIC_CONTRACT
<1>3. SemanticContract(terms).body.terms = terms
    BY DEF SemanticContract, Seal
<1> HIDE DEF terms
<1>4. QED
    BY <1>1, <1>2, <1>3 DEF VerifySemanticContract

\* What verify_runtime_envelope accepts of what build_runtime_envelope made.
LEMMA BuiltVerifies ==
    ASSUME NEW model, NEW endpoint, NEW num_gpu \in Int,
           MayBuild(model, endpoint, num_gpu)
    PROVE  VerifyEnvelope(Built(model, endpoint, num_gpu), model)
<1> DEFINE envelope == Built(model, endpoint, num_gpu)
<1>1. /\ Intact(envelope)
      /\ envelope.body.fixed = Fixed
      /\ envelope.body.model_carrier = model
      /\ envelope.body.execution_selection = Execution(num_gpu)
    BY SealIntact DEF Built
<1> HIDE DEF envelope
<1>2. envelope.body.execution_selection.cpu_only \/ envelope.body.execution_selection.gpu_layers > 0
    <2>1. CASE num_gpu = 0
        <3>1. envelope.body.execution_selection.cpu_only = (num_gpu = 0)
            BY <1>1 DEF Execution
        <3>2. QED
            BY <2>1, <3>1
    <2>2. CASE num_gpu # 0
        <3>1. envelope.body.execution_selection.gpu_layers = num_gpu
            BY <1>1 DEF Execution
        <3>2. num_gpu > 0
            BY <2>2 DEF MayBuild
        <3>3. QED
            BY <3>1, <3>2
    <2>3. QED
        BY <2>1, <2>2
<1>3. QED
    BY <1>1, <1>2 DEF MayBuild, VerifyEnvelope, envelope

\* Before the conversation nothing was said, and what the constructors made is
\* what the arguments say.
SetupInv ==
    /\ arguments \in Arguments
    /\ stage \in {"parsed", "connected", "described", "chat", "refused"}
    /\ stage \in {"connected", "described", "chat"} =>
          /\ MayTransport(arguments.endpoint, arguments.num_gpu)
          /\ transport = OllamaTransport(arguments.endpoint, arguments.num_gpu)
    /\ stage \in {"described", "chat"} =>
          /\ MayBuild(arguments.model, arguments.endpoint, arguments.num_gpu)
          /\ runtime_envelope = Built(arguments.model, arguments.endpoint, arguments.num_gpu)
    /\ stage \in {"parsed", "connected", "described"} => loop = "prompt" /\ code = "NONE"
    /\ RefusedForItsArguments

LEMMA SetupInvInit == MainInit => SetupInv
BY DEF MainInit, TerminalInit, Init, SetupInv, RefusedForItsArguments

LEMMA SetupInvNext ==
    ASSUME SetupInv, [MainNext]_programVars
    PROVE  SetupInv'
<1>1. arguments.num_gpu \in Int
    BY ArgumentAssumption DEF SetupInv
<1>2. CASE MakeTransport
    BY <1>2 DEF MakeTransport, Returns, SetupInv, RefusedForItsArguments, allVars, vars,
                session, terminal
<1>3. CASE MakeEnvelope
    BY <1>3 DEF MakeEnvelope, Returns, SetupInv, RefusedForItsArguments, allVars, vars,
                session, terminal
<1>4. CASE StartSession
    <2>1. Suitable(arguments)
        <3>1. /\ MayTransport(arguments.endpoint, arguments.num_gpu)
              /\ MayBuild(arguments.model, arguments.endpoint, arguments.num_gpu)
            BY <1>4 DEF StartSession, SetupInv
        <3>2. arguments.num_gpu >= 0 => arguments.num_gpu \in Nat
            BY <1>1
        <3>3. QED
            BY <3>1, <3>2, Zenon DEF Suitable, MayTransport, MayBuild
    <2>2. QED
        BY <1>4, <2>1 DEF StartSession, Returns, SetupInv, RefusedForItsArguments, allVars, vars,
                          session, terminal
<1>5. CASE Refused
    <2>1. \/ ~MayTransport(arguments.endpoint, arguments.num_gpu)
          \/ ~MayBuild(arguments.model, arguments.endpoint, arguments.num_gpu)
        BY <1>1, <1>5, BuiltVerifies DEF Refused, Returns, SetupInv
    <2>2. ~Suitable(arguments)
        <3>1. arguments.num_gpu \in Nat => arguments.num_gpu >= 0
            BY <1>1
        <3>2. QED
            BY <2>1, <3>1, DefaultContractVerifies, Zenon DEF Suitable, MayTransport, MayBuild
    <2>3. QED
        BY <1>5, <2>2 DEF Refused, End, SetupInv, RefusedForItsArguments, vars, session
<1>6. CASE Converse
    BY <1>6 DEF Converse, main, SetupInv, RefusedForItsArguments
<1>7. CASE UNCHANGED programVars
    BY <1>7 DEF programVars, main, allVars, vars, session, terminal, SetupInv, RefusedForItsArguments
<1>8. QED
    BY <1>2, <1>3, <1>4, <1>5, <1>6, <1>7 DEF MainNext

LEMMA SetupInvAlways == MainSpec => []SetupInv
BY SetupInvInit, SetupInvNext, PTL DEF MainSpec

-----------------------------------------------------------------------------
(* The loop, the screen and the session.                                   *)

\* The session works only while the loop waits for it, and the user is prompted
\* only after a call that returned or before the first one.
Control ==
    /\ loop \in {"prompt", "asking", "ended"}
    /\ loop = "prompt" => pc = "idle" /\ raised = "NOTHING"
    /\ pc # "idle" => loop = "asking" /\ raised = "NOTHING"
    /\ loop = "ended" <=> code # "NONE"

\* The last call returned and its answer has not been shown.
Returned == loop = "asking" /\ pc = "idle" /\ raised = "NOTHING"

\* The exchange in progress has entered the history.
Entered == pc \in {"link", "count"} \/ Returned

\* How many answers were shown.
Answers == IF code = "1" THEN Len(screen) - 1 ELSE Len(screen)

ScreenLines == [kind : {"AI", "ERROR"}, content : Replies \cup Exceptions]

\* The answers shown are the first answers of the history, and all of them but
\* for one that has just entered it.
Shows ==
    /\ screen \in Seq(ScreenLines)
    /\ ErrorEndsConversation
    /\ \A i \in 1..Answers :
          2 * i <= Len(messages) /\ messages[2 * i] = Message("assistant", screen[i].content)
    /\ Len(messages) \in {2 * Answers, 2 * Answers + 2}
    /\ Entered => Len(messages) = 2 * Answers + 2
    /\ loop = "prompt" \/ pc \notin {"idle", "link", "count"} => Len(messages) = 2 * Answers

\* What entered the history is the answer, and in a reviewed session the one
\* the audit of this turn released; behind the link it is linked.
Owed ==
    Entered =>
        /\ answer \in Replies
        /\ messages # <<>> /\ messages[Len(messages)] = Message("assistant", answer)
        /\ mirrored_review =>
              /\ last_turn_audit.received = received
              /\ last_turn_audit.interception.body.released = answer
        /\ pc # "link" => received.hash = previous_received_turn_hash

\* Unless the last call raised, history, count and chain agree up to the
\* assignments that are still to come, and the next question can be asked.
Whole ==
    raised = "NOTHING" => Extensible /\ ChainInv

\* Inductive together with IInv.
ProgramInv == Control /\ Shows /\ Owed /\ Whole

LEMMA ProgramInvInit == MainInit => ProgramInv
<1> SUFFICES ASSUME MainInit PROVE ProgramInv
    OBVIOUS
<1>1. /\ Init /\ loop = "prompt" /\ screen = <<>> /\ code = "NONE"
      /\ pc = "idle" /\ raised = "NOTHING" /\ messages = <<>> /\ turn_sequence = 0
    BY DEF MainInit, TerminalInit, Init
<1>2. Answers = 0 /\ screen \in Seq(ScreenLines) /\ Len(messages) = 0
    BY <1>1 DEF Answers
<1>3. Control /\ Shows /\ Owed
    BY <1>1, <1>2 DEF Control, Shows, Owed, Entered, Returned, ErrorEndsConversation
<1>4. Whole
    BY <1>1, ExtensibleInit, ChainInvInit DEF Whole
<1>5. QED
    BY <1>3, <1>4 DEF ProgramInv

\* A step of the session that leaves the history, the chain and the count
\* alone: it ends the call with an exception or has not come to the commit.
Quiet ==
    /\ UNCHANGED <<messages, previous_received_turn_hash, turn_sequence>>
    /\ \/ pc' = "idle" /\ raised' # "NOTHING"
       \/ /\ pc \notin {"link", "count"}
          /\ pc' \notin {"idle", "link", "count"}
          /\ raised' = "NOTHING"

LEMMA QuietSteps ==
    ASSUME Control,
           \/ loop = "prompt" /\ \E text \in Texts : Ask(text) \/ AskRefused(text)
           \/ loop = "asking" /\ (Answered \/ Interrupt)
    PROVE  Quiet
<1>1. CASE \E text \in Texts : Ask(text) \/ AskRefused(text)
    BY <1>1 DEF Ask, AskRefused, Raise, session, Quiet, Control
<1>2. CASE Interrupt
    BY <1>2 DEF Interrupt, Raise, Quiet
<1>3. CASE Answered
    BY <1>3 DEF Answered, ReceiveDraft, ReleaseUnreviewed, HoldDraft, DraftUnencodable,
                ReceiveReview, ReviewRaises, ReviewMalformed, ReviewUnknown, ReviewClean,
                ReviewRequiresCorrection, ReceiveCorrection, CorrectionRejected,
                CorrectionUnencodable, CorrectionApplied, RequestUnencodable,
                TransportFails, Raise, session, Quiet, Control
<1>4. QED
    BY <1>1, <1>2, <1>3

LEMMA QuietKeeps ==
    ASSUME IInv, ProgramInv, [Next]_vars, Quiet,
           loop # "ended", pc = "idle" => loop = "prompt", loop' = "asking",
           UNCHANGED <<screen, code>>
    PROVE  ProgramInv'
<1>1. Control'
    BY DEF ProgramInv, Control, Quiet
<1>2. ~Entered' /\ UNCHANGED Answers
    BY DEF Quiet, Entered, Returned, Answers
<1>3. Shows'
    BY <1>2 DEF ProgramInv, Control, Shows, Quiet, ErrorEndsConversation
<1>4. Owed'
    BY <1>2 DEF Owed
<1>5. Whole'
    BY ExtensibleNext, ChainInvNext DEF ProgramInv, Control, Whole, Quiet, Interrupt, Raise
<1>6. QED
    BY <1>1, <1>3, <1>4, <1>5 DEF ProgramInv

\* As long as the session stands still, it stays whole.
LEMMA WholeKept ==
    ASSUME Whole,
           UNCHANGED <<messages, turn_sequence, previous_received_turn_hash, mirrored_review, pc,
                       received, draft, answer, raised>>
    PROVE  Whole'
<1>1. Extensible => Extensible'
    BY DEF Extensible, Sendable, SendableBefore
<1>2. ASSUME ChainInv PROVE ChainInv'
    <2> DEFINE counted == turn_sequence + IF pc = "count" THEN 1 ELSE 0
    <2>1. UNCHANGED counted
        OBVIOUS
    <2> HIDE DEF counted
    <2>2. Chained(previous_received_turn_hash, counted)
        BY <1>2 DEF ChainInv, counted
    <2>3. Chained(previous_received_turn_hash, counted)'
        BY <2>1, <2>2 DEF Chained, Unrolls, Matches
    <2>4. QED
        BY <1>2, <2>3 DEF ChainInv, counted
<1>3. QED
    BY <1>1, <1>2 DEF Whole

LEMMA CommitKeeps ==
    ASSUME IInv, ProgramInv, [Next]_vars, Commit, loop = "asking", UNCHANGED terminal
    PROVE  ProgramInv'
<1> DEFINE question == Message("user", received.body.content)
           reply == Message("assistant", answer)
           Entries == [role : {"user", "assistant"}, content : Texts \cup Replies]
<1>1. /\ messages \in Seq(Entries) /\ turn_sequence \in Nat
      /\ screen \in Seq(ScreenLines) /\ Answers \in Nat
      /\ code = "NONE" /\ raised = "NOTHING" /\ code' = code /\ screen' = screen
      /\ loop' = loop /\ Answers' = Answers /\ raised' = raised
    <2>1. messages \in Seq(Entries) /\ turn_sequence \in Nat
        BY DEF IInv, TypeOK, Conversation
    <2>2. UNCHANGED <<loop, screen, code, Answers>>
        BY DEF terminal, Answers
    <2>3. pc # "idle" /\ UNCHANGED raised
        BY DEF Commit, ExtendMessages, LinkTurn, CountTurn
    <2>4. code = "NONE" /\ raised = "NOTHING" /\ screen \in Seq(ScreenLines)
        BY <2>3 DEF ProgramInv, Control, Shows
    <2>5. QED
        BY <2>1, <2>2, <2>3, <2>4 DEF Answers
<1>2. Control'
    BY <1>1 DEF ProgramInv, Control, Commit, ExtendMessages, LinkTurn, CountTurn
<1>3. ErrorEndsConversation'
    BY <1>1 DEF ProgramInv, Shows, ErrorEndsConversation
<1>4. Whole'
    BY <1>1, ExtensibleNext, ChainInvNext DEF ProgramInv, Whole, Interrupt, Raise, Commit,
       ExtendMessages, LinkTurn, CountTurn
<1>5. CASE ExtendMessages
    <2>1. /\ messages' = messages \o <<question, reply>>
          /\ pc = "extend" /\ pc' = "link"
          /\ UNCHANGED <<mirrored_review, turn_sequence, last_turn_audit, received, answer>>
        BY <1>5 DEF ExtendMessages, locals
    <2>2. Len(messages) = 2 * Answers /\ Len(messages) = 2 * turn_sequence
        BY <1>1, <2>1 DEF ProgramInv, Shows, Whole, ChainInv
    <2>3. answer \in Replies
        BY <2>1 DEF IInv, InCall
    <2> HIDE DEF question
    <2>4. /\ Len(messages') = Len(messages) + 2 /\ messages' # <<>>
          /\ \A i \in 1..Len(messages) : messages'[i] = messages[i]
          /\ messages'[Len(messages')] = reply
        <3> HIDE DEF reply
        <3>1. QED
            BY <1>1, <2>1
    <2>5. \A i \in 1..Answers : 2 * i <= Len(messages') /\ messages'[2 * i] = messages[2 * i]
        <3>1. \A i \in 1..Answers : 2 * i \in 1..Len(messages) /\ 2 * i <= Len(messages) + 2
            BY <1>1, <2>2
        <3>2. QED
            BY <2>4, <3>1
    <2>6. Shows'
        BY <1>1, <1>3, <2>1, <2>2, <2>4, <2>5 DEF ProgramInv, Shows
    <2>7. Owed'
        BY <2>1, <2>3, <2>4 DEF IInv, Cleared, Owed
    <2>8. QED
        BY <1>2, <1>4, <2>6, <2>7 DEF ProgramInv
<1>6. CASE LinkTurn \/ CountTurn
    <2>1. /\ Entered /\ UNCHANGED <<messages, mirrored_review, last_turn_audit, received, answer>>
          /\ pc' \in {"count", "idle"}
        BY <1>6 DEF LinkTurn, CountTurn, locals, Entered
    <2>2. pc' # "link" => received'.hash = previous_received_turn_hash'
        BY <1>6, <2>1 DEF LinkTurn, CountTurn, ProgramInv, Owed
    <2>3. Shows'
        BY <1>1, <1>3, <2>1 DEF ProgramInv, Shows
    <2>4. Owed'
        BY <2>1, <2>2 DEF ProgramInv, Owed
    <2>5. QED
        BY <1>2, <1>4, <2>3, <2>4 DEF ProgramInv
<1>7. QED
    BY <1>5, <1>6 DEF Commit

\* A line added to the screen.
LEMMA LineAdded ==
    ASSUME screen \in Seq(ScreenLines), NEW line \in ScreenLines, screen' = Append(screen, line)
    PROVE  /\ screen' \in Seq(ScreenLines) /\ screen' # <<>>
           /\ Len(screen') = Len(screen) + 1 /\ Len(screen) \in Nat
           /\ screen'[Len(screen) + 1] = line
           /\ \A i \in 1..Len(screen) : screen'[i] = screen[i]
BY DEF ScreenLines

\* While the loop runs every line is an answer.
LEMMA OnlyAnswers ==
    ASSUME ProgramInv, loop # "ended"
    PROVE  /\ code = "NONE" /\ Answers = Len(screen)
           /\ screen \in Seq(ScreenLines) /\ Len(screen) \in Nat
           /\ \A i \in 1..Len(screen) : screen[i].kind = "AI"
<1>1. code = "NONE" /\ screen \in Seq(ScreenLines) /\ ErrorEndsConversation
    BY DEF ProgramInv, Control, Shows
<1>2. \A i \in 1..Len(screen) : screen[i].kind \in {"AI", "ERROR"}
    <2>1. \A line \in ScreenLines : line.kind \in {"AI", "ERROR"}
        BY DEF ScreenLines
    <2> HIDE DEF ScreenLines
    <2>2. QED
        BY <1>1, <2>1
<1>3. QED
    BY <1>1, <1>2 DEF ErrorEndsConversation, Answers

\* The end of the program without another line on the screen.
LEMMA EndKeeps ==
    ASSUME ProgramInv, UNCHANGED <<vars, screen>>, loop # "ended", pc = "idle",
           loop' = "ended", code' \in {"0", "TRACEBACK"}
    PROVE  ProgramInv'
<1>1. UNCHANGED <<messages, turn_sequence, previous_received_turn_hash, mirrored_review, pc,
                  received, draft, answer, raised, screen>>
    BY DEF vars, session, locals
<1>2. code = "NONE" /\ UNCHANGED Answers
    BY <1>1, OnlyAnswers DEF Answers
<1>3. ErrorEndsConversation'
    BY <1>1, <1>2 DEF ProgramInv, Shows, ErrorEndsConversation
<1>4. Control' /\ Owed' /\ Shows'
    BY <1>1, <1>2, <1>3 DEF ProgramInv, Control, Owed, Shows, Entered, Returned
<1>5. Whole'
    BY <1>1, WholeKept DEF ProgramInv
<1>6. QED
    BY <1>4, <1>5 DEF ProgramInv

LEMMA ReportKeeps ==
    ASSUME ProgramInv, NEW exception \in Exceptions, ReportError(exception),
           loop = "asking", pc = "idle"
    PROVE  ProgramInv'
<1> DEFINE line == Line("ERROR", exception)
<1>1. UNCHANGED <<messages, turn_sequence, previous_received_turn_hash, mirrored_review, pc,
                  received, draft, answer, raised>>
    BY DEF ReportError, vars, session, locals
<1>2. line \in ScreenLines /\ line.kind = "ERROR"
    BY DEF Line, ScreenLines
<1>3. screen' = Append(screen, line) /\ loop' = "ended" /\ code' = "1"
    BY DEF ReportError, End
<1> HIDE DEF line
<1>4. /\ screen' \in Seq(ScreenLines) /\ screen' # <<>>
      /\ Len(screen') = Len(screen) + 1 /\ Len(screen) \in Nat
      /\ screen'[Len(screen) + 1] = line
      /\ \A i \in 1..Len(screen) : screen'[i] = screen[i]
    BY <1>2, <1>3, LineAdded DEF ProgramInv, Shows
<1>5. Answers = Len(screen) /\ Answers' = Len(screen)
    BY <1>3, <1>4, OnlyAnswers DEF Answers
<1>6. ErrorEndsConversation'
    <2>1. \A i \in 1..Len(screen) : screen'[i].kind = "AI"
        BY <1>4, OnlyAnswers
    <2>2. QED
        BY <1>2, <1>3, <1>4, <2>1 DEF ErrorEndsConversation
<1>7. Shows'
    BY <1>1, <1>3, <1>4, <1>5, <1>6 DEF ProgramInv, Shows, Entered, Returned
<1>8. Control' /\ Owed'
    BY <1>1, <1>3 DEF ProgramInv, Control, Owed, Entered, Returned
<1>9. Whole'
    BY <1>1, WholeKept DEF ProgramInv
<1>10. QED
    BY <1>7, <1>8, <1>9 DEF ProgramInv

LEMMA ShowKeeps ==
    ASSUME IInv, ProgramInv, ShowAnswer
    PROVE  ProgramInv'
<1> DEFINE line == Line("AI", answer)
<1>1. UNCHANGED <<messages, turn_sequence, previous_received_turn_hash, mirrored_review, pc,
                  received, draft, answer, raised, code>>
    BY DEF ShowAnswer, vars, session, locals
<1>2. /\ Entered /\ answer \in Replies /\ Len(messages) = 2 * Answers + 2
      /\ messages[Len(messages)] = Message("assistant", answer)
    BY DEF ShowAnswer, Entered, Returned, ProgramInv, Owed, Shows
<1>3. line \in ScreenLines /\ line.kind = "AI" /\ line.content = answer
    BY <1>2 DEF Line, ScreenLines
<1>4. screen' = Append(screen, line) /\ loop = "asking" /\ loop' = "prompt" /\ pc = "idle"
      /\ raised = "NOTHING"
    BY DEF ShowAnswer
<1> HIDE DEF line
<1>5. /\ screen' \in Seq(ScreenLines) /\ screen' # <<>>
      /\ Len(screen') = Len(screen) + 1 /\ Len(screen) \in Nat
      /\ screen'[Len(screen) + 1] = line
      /\ \A i \in 1..Len(screen) : screen'[i] = screen[i]
    BY <1>3, <1>4, LineAdded DEF ProgramInv, Shows
<1>6. code = "NONE" /\ Answers = Len(screen) /\ Answers' = Len(screen) + 1
    BY <1>1, <1>4, <1>5, OnlyAnswers DEF Answers
<1>7. ErrorEndsConversation'
    <2>1. \A i \in 1..Len(screen) : screen'[i].kind = "AI"
        BY <1>4, <1>5, OnlyAnswers
    <2>2. QED
        BY <1>1, <1>3, <1>5, <1>6, <2>1 DEF ErrorEndsConversation
<1>8. ASSUME NEW i \in 1..(Len(screen) + 1)
      PROVE  2 * i <= Len(messages) /\ messages[2 * i] = Message("assistant", screen'[i].content)
    <2>1. CASE i = Len(screen) + 1
        <3>1. 2 * i = Len(messages)
            BY <1>2, <1>5, <1>6, <2>1
        <3>2. QED
            BY <1>2, <1>3, <1>5, <2>1, <3>1
    <2>2. CASE i # Len(screen) + 1
        <3>1. i \in 1..Answers /\ i \in 1..Len(screen)
            BY <1>5, <1>6, <2>2
        <3>2. QED
            BY <1>5, <3>1 DEF ProgramInv, Shows
    <2>3. QED
        BY <2>1, <2>2
<1>9. Shows'
    <2>1. Len(messages) = 2 * Answers' /\ ~Entered'
        BY <1>1, <1>2, <1>4, <1>5, <1>6 DEF Entered, Returned
    <2>2. QED
        BY <1>1, <1>5, <1>6, <1>7, <1>8, <2>1 DEF Shows
<1>10. Control' /\ Owed'
    BY <1>1, <1>4 DEF ProgramInv, Control, Owed, Entered, Returned
<1>11. Whole'
    BY <1>1, WholeKept DEF ProgramInv
<1>12. QED
    BY <1>9, <1>10, <1>11 DEF ProgramInv

LEMMA ProgramInvNext ==
    ASSUME IInv, SetupInv, ProgramInv, [MainNext]_programVars
    PROVE  ProgramInv'
<1>1. [Next]_vars
    BY MainStep
<1>2. ASSUME NEW text \in Texts, ReadLine(text) PROVE ProgramInv'
    <2>1. Quiet
        BY <1>2, QuietSteps DEF ReadLine, ProgramInv
    <2>2. QED
        BY <1>1, <1>2, <2>1, QuietKeeps DEF ReadLine
<1>3. CASE Leave
    <2>1. pc = "idle"
        BY <1>3 DEF Leave, ProgramInv, Control
    <2>2. QED
        BY <1>3, <2>1, EndKeeps DEF Leave, End
<1>4. CASE Work
    <2>1. CASE Commit
        BY <1>1, <1>4, <2>1, CommitKeeps DEF Work
    <2>2. CASE Answered \/ Interrupt
        <3>1. Quiet
            BY <1>4, <2>2, QuietSteps DEF Work, ProgramInv
        <3>2. pc # "idle"
            BY <2>2 DEF Answered, Interrupt, ReceiveDraft, ReceiveReview, ReceiveCorrection,
                        RequestUnencodable, TransportFails
        <3>3. QED
            BY <1>1, <1>4, <3>1, <3>2, QuietKeeps DEF Work, terminal
    <2>3. QED
        BY <1>4, <2>1, <2>2 DEF Work
<1>5. CASE Present
    <2>1. CASE ShowAnswer
        BY <2>1, ShowKeeps
    <2>2. CASE AnswerUnprintable
        BY <2>2, ReportKeeps DEF AnswerUnprintable, Exceptions
    <2>3. CASE ShowError
        BY <2>3, ReportKeeps DEF ShowError, Reported, Exceptions
    <2>4. CASE Crash
        BY <2>4, EndKeeps DEF Crash, End
    <2>5. QED
        BY <1>5, <2>1, <2>2, <2>3, <2>4 DEF Present
<1>6. CASE UNCHANGED allVars
    <2>1. UNCHANGED <<messages, turn_sequence, previous_received_turn_hash, mirrored_review, pc,
                      received, draft, answer, raised, last_turn_audit, loop, screen, code>>
        BY <1>6 DEF allVars, vars, session, locals, terminal
    <2>2. UNCHANGED <<Answers, Entered, ErrorEndsConversation>>
        BY <2>1 DEF Answers, Entered, Returned, ErrorEndsConversation
    <2>3. Control' /\ Owed' /\ Shows'
        BY <2>1, <2>2 DEF ProgramInv, Control, Owed, Shows
    <2>4. Whole'
        BY <2>1, WholeKept DEF ProgramInv
    <2>5. QED
        BY <2>3, <2>4 DEF ProgramInv
<1>7. CASE Refused
    <2>1. loop = "prompt" /\ pc = "idle"
        BY <1>7 DEF Refused, SetupInv, ProgramInv, Control
    <2>2. QED
        BY <1>7, <2>1, EndKeeps DEF Refused, End
<1>8. QED
    BY <1>2, <1>3, <1>4, <1>5, <1>6, <1>7
       DEF MainNext, Converse, TerminalNext, MakeTransport, MakeEnvelope, StartSession, programVars

LEMMA ProgramInvAlways == MainSpec => []ProgramInv
BY MainIInvAlways, SetupInvAlways, ProgramInvInit, ProgramInvNext, PTL DEF MainSpec

-----------------------------------------------------------------------------
(* The theorems.                                                           *)

\* What the session and the transport were made from is what the model is told.
THEOREM EnvelopeSpeaksOfTransportAlways == MainSpec => []EnvelopeSpeaksOfTransport
<1>1. SetupInv => EnvelopeSpeaksOfTransport
    <2> SUFFICES ASSUME SetupInv, stage = "chat" PROVE EnvelopeSpeaksOfTransport
        BY DEF EnvelopeSpeaksOfTransport
    <2>1. /\ runtime_envelope.body.model_carrier = arguments.model
          /\ runtime_envelope.body.transport_endpoint = arguments.endpoint
          /\ runtime_envelope.body.execution_selection = Execution(arguments.num_gpu)
        BY SealIntact DEF SetupInv, Built
    <2>2. /\ transport.endpoint = arguments.endpoint
          /\ transport.num_gpu = arguments.num_gpu
          /\ arguments.endpoint.hostname \in LOOPBACK
        <3>1. /\ MayTransport(arguments.endpoint, arguments.num_gpu)
              /\ transport = OllamaTransport(arguments.endpoint, arguments.num_gpu)
            BY DEF SetupInv
        <3>2. QED
            BY <3>1, Zenon DEF OllamaTransport, MayTransport
    <2>3. /\ Execution(arguments.num_gpu).cpu_only = (arguments.num_gpu = 0)
          /\ Execution(arguments.num_gpu).gpu_layers = arguments.num_gpu
        BY DEF Execution
    <2>4. QED
        BY <2>1, <2>2, <2>3, Zenon DEF EnvelopeSpeaksOfTransport
<1>2. QED
    BY <1>1, SetupInvAlways, PTL

\* The program refuses to start exactly for arguments that are not suitable, and
\* silently; a conversation is one for suitable arguments.
THEOREM RefusedForItsArgumentsAlways == MainSpec => []RefusedForItsArguments
BY SetupInvAlways, PTL DEF SetupInv

\* The screen and the history tell the same conversation.
THEOREM ShownMatchesHistoryAlways == MainSpec => []ShownMatchesHistory
<1>1. ProgramInv => ShownMatchesHistory
    <2> SUFFICES ASSUME ProgramInv PROVE ShownMatchesHistory
        OBVIOUS
    <2>1. /\ screen \in Seq(ScreenLines) /\ Len(screen) \in Nat /\ ErrorEndsConversation
          /\ DOMAIN screen = 1..Len(screen)
        BY DEF ProgramInv, Shows
    <2>2. \A i \in 1..Len(screen) : screen[i].kind \in {"AI", "ERROR"}
        <3>1. \A line \in ScreenLines : line.kind \in {"AI", "ERROR"}
            BY DEF ScreenLines
        <3> HIDE DEF ScreenLines
        <3>2. QED
            BY <2>1, <3>1
    <2>3. Answers \in Nat /\ AnswerLines = 1..Answers
        <3>1. CASE code = "1"
            <4>1. screen # <<>> /\ Answers = Len(screen) - 1 /\ screen[Len(screen)].kind = "ERROR"
                BY <2>1, <3>1 DEF ErrorEndsConversation, Answers
            <4>2. Len(screen) > 0
                BY <2>1, <4>1
            <4>3. QED
                BY <2>1, <4>1, <4>2 DEF ErrorEndsConversation, AnswerLines
        <3>2. CASE code # "1"
            <4>1. Answers = Len(screen)
                BY <3>2 DEF Answers
            <4>2. \A i \in 1..Len(screen) : screen[i].kind = "AI"
                BY <2>1, <2>2, <3>2 DEF ErrorEndsConversation
            <4>3. QED
                BY <2>1, <4>1, <4>2 DEF AnswerLines
        <3>3. QED
            BY <3>1, <3>2
    <2>4. Len(messages) \div 2 = Answers \/ Len(messages) \div 2 = Answers + 1
        BY <2>3 DEF ProgramInv, Shows
    <2>5. ASSUME NEW i \in (1..(Len(messages) \div 2)) \ AnswerLines
          PROVE  2 * i = Len(messages) /\ loop # "prompt"
        <3>1. i = Answers + 1 /\ Len(messages) \div 2 = Answers + 1
            BY <2>3, <2>4, <2>5
        <3>2. Len(messages) = 2 * Answers + 2
            BY <2>3, <3>1 DEF ProgramInv, Shows
        <3>3. QED
            BY <2>3, <3>1, <3>2 DEF ProgramInv, Shows
    <2>6. QED
        BY <2>3, <2>4, <2>5 DEF ShownMatchesHistory, ProgramInv, Shows
<1>2. QED
    BY <1>1, ProgramInvAlways, PTL

\* Whatever was interrupted before, the user is prompted on a whole session.
THEOREM PromptOnWholeSessionAlways == MainSpec => []PromptOnWholeSession
<1>1. IInv /\ ProgramInv => PromptOnWholeSession
    <2> SUFFICES ASSUME IInv, ProgramInv, loop = "prompt" PROVE PromptOnWholeSession
        BY DEF PromptOnWholeSession
    <2>1. pc = "idle" /\ raised = "NOTHING"
        BY DEF ProgramInv, Control
    <2>2. Extensible /\ ChainInv
        BY <2>1 DEF ProgramInv, Whole
    <2>3. ChainMatchesHistory
        BY <2>1, <2>2, ChainInvMatches
    <2>4. Continuable
        BY <2>1, <2>2 DEF Extensible, Continuable
    <2>5. QED
        BY <2>1, <2>3, <2>4 DEF PromptOnWholeSession
<1>2. QED
    BY <1>1, MainIInvAlways, ProgramInvAlways, PTL

\* An error line is the last line, and the exit code says whether there is one.
THEOREM ErrorEndsConversationAlways == MainSpec => []ErrorEndsConversation
BY ProgramInvAlways, PTL DEF ProgramInv, Shows

\* Every answer put on the screen of a reviewed session is the one the audit
\* released for the turn the chain ends in.
THEOREM ShownWasReleasedAlways == MainSpec => ShownWasReleased
<1> DEFINE Released ==
        LET line == screen'[Len(screen')]
        IN  mirrored_review /\ screen' # screen /\ line.kind = "AI" =>
              /\ last_turn_audit.received = received
              /\ received.hash = previous_received_turn_hash
              /\ line.content = last_turn_audit.interception.body.released
<1>1. IInv /\ ProgramInv /\ [MainNext]_programVars => [Released]_allVars
    <2> SUFFICES ASSUME ProgramInv, MainNext, mirrored_review, screen' # screen,
                        screen'[Len(screen')].kind = "AI"
                 PROVE  Released
        BY DEF programVars, allVars, terminal
    <2>1. ShowAnswer \/ \E exception \in Exceptions : ReportError(exception)
        BY DEF MainNext, Converse, TerminalNext, ReadLine, Leave, Work, Present,
               AnswerUnprintable, ShowError, Crash, MakeTransport, MakeEnvelope, StartSession,
               Refused, allVars, terminal, Reported, Exceptions
    <2>2. screen \in Seq(ScreenLines)
        BY DEF ProgramInv, Shows
    <2>3. ~\E exception \in Exceptions : ReportError(exception)
        <3>1. SUFFICES ASSUME NEW exception \in Exceptions, ReportError(exception) PROVE FALSE
            OBVIOUS
        <3>2. Line("ERROR", exception) \in ScreenLines /\ Line("ERROR", exception).kind = "ERROR"
            BY DEF Line, ScreenLines
        <3>3. QED
            BY <2>2, <3>1, <3>2, LineAdded DEF ReportError
    <2>4. pc = "idle" /\ Entered /\ screen' = Append(screen, Line("AI", answer))
        BY <2>1, <2>3 DEF ShowAnswer, Entered, Returned
    <2>5. /\ answer \in Replies /\ last_turn_audit.received = received
          /\ last_turn_audit.interception.body.released = answer
          /\ received.hash = previous_received_turn_hash
        BY <2>4 DEF ProgramInv, Owed
    <2>6. Line("AI", answer) \in ScreenLines /\ Line("AI", answer).content = answer
        BY <2>5 DEF Line, ScreenLines
    <2>7. screen'[Len(screen')] = Line("AI", answer)
        BY <2>2, <2>4, <2>6, LineAdded
    <2>8. QED
        BY <2>5, <2>6, <2>7
<1>2. QED
    BY <1>1, MainIInvAlways, ProgramInvAlways, PTL DEF MainSpec, ShownWasReleased
=============================================================================
