---------------------------- MODULE ChatSession ----------------------------
(***************************************************************************)
(* free_valid_ai/chat.py, class ChatSession: one conversation with a local *)
(* model.  ask() binds the received text, asks the carrier for a draft,    *)
(* optionally has the same carrier review it and correct it once, and only *)
(* then commits the exchange to the in-memory history.                     *)
(*                                                                         *)
(* ask() is one call of the program but not one step: the carrier is       *)
(* called up to three times and may fail each time, and KeyboardInterrupt  *)
(* may surface between any two statements.  pc says which statement is     *)
(* next:                                                                   *)
(*   idle     no call in progress; raised says how the last one ended      *)
(*   draft    waiting for the carrier's draft                              *)
(*   review   waiting for the carrier's review of the draft                *)
(*   correct  waiting for the carrier's correction                         *)
(*   extend   about to extend messages with question and answer            *)
(*   link     about to assign previous_received_turn_hash                  *)
(*   count    about to increment turn_sequence                             *)
(***************************************************************************)
EXTENDS TurnBoundary, MirroredReview

CONSTANTS
    Texts,          \* what a caller may pass to ask()
    Replies,        \* what the carrier may answer as draft or correction
    Blank,          \* the contents that strip() to nothing
    Unencodable,    \* the contents with a lone surrogate: encode() raises
    Reviews,        \* the raw reviews the carrier may answer
    Interruptible,  \* whether KeyboardInterrupt is delivered inside ask()
    MaxTurns        \* bound: exchanges kept in one conversation

ASSUME ContentAssumption == None \notin Texts \cup Replies
ASSUME ReviewAssumption == Reviews \subseteq RawReviews
ASSUME BoundAssumption == MaxTurns \in Nat /\ Interruptible \in BOOLEAN

VARIABLES
    mirrored_review,             \* constructor argument, never reassigned
    messages,                    \* the history sent with every draft request
    previous_received_turn_hash,
    turn_sequence,
    last_turn_audit,
    pc,
    received,                    \* the turn of the call in progress or the last one
    draft, review, answer,       \* locals of ask() and _review()
    raised                       \* exception the last call ended with

session == <<mirrored_review, messages, previous_received_turn_hash,
             turn_sequence, last_turn_audit>>
locals == <<received, draft, review, answer>>
vars == <<session, pc, locals, raised>>

\* "correction_changed_nonempty" sorts before "mirror_review_schema".
CORRECTION_CHECK == 1
MIRROR_CHECK == 2
Check(check_id, result, evidence) ==
    [check_id |-> check_id, result |-> result, evidence_sha256 |-> Digest(evidence)]

Message(role, content) == [role |-> role, content |-> content]
Audit(turn, rev, interception) ==
    [received |-> turn, review |-> rev, interception |-> interception]

\* json.dumps(..., ensure_ascii=False).encode() in the transport's _request.
Sendable(history) == \A i \in DOMAIN history : history[i].content \notin Unencodable

-----------------------------------------------------------------------------
Init ==
    /\ mirrored_review \in BOOLEAN
    /\ messages = <<>>
    /\ previous_received_turn_hash = None
    /\ turn_sequence = 0
    /\ last_turn_audit = None
    /\ pc = "idle"
    /\ received = None
    /\ draft = None
    /\ review = None
    /\ answer = None
    /\ raised = "NOTHING"

\* The call ends with an exception; what it held is dropped with its frame.
Raise(exception) ==
    /\ pc' = "idle"
    /\ raised' = exception
    /\ draft' = None
    /\ review' = None
    /\ answer' = None
    /\ UNCHANGED <<received, mirrored_review, messages,
                   previous_received_turn_hash, turn_sequence>>

-----------------------------------------------------------------------------
(* ask(): the head.                                                        *)

MayAsk(text) ==
    /\ text \notin Blank \cup Unencodable
    /\ MayReceive("USER", turn_sequence, previous_received_turn_hash)

\* Mutated form of Ask: the chain is linked on receipt, not after the answer.
AskLinksEarly(text) ==
    /\ pc = "idle"
    /\ turn_sequence < MaxTurns
    /\ Len(messages) < 2 * MaxTurns
    /\ MayAsk(text)
    /\ received' = ReceivedTurn(text, "USER", turn_sequence,
                                previous_received_turn_hash, CONTRACT)
    /\ previous_received_turn_hash' = received'.hash
    /\ pc' = "draft"
    /\ raised' = "NOTHING"
    /\ draft' = None /\ review' = None /\ answer' = None
    /\ UNCHANGED <<mirrored_review, messages, turn_sequence, last_turn_audit>>

Ask(text) ==
    /\ pc = "idle"
    /\ turn_sequence < MaxTurns
    /\ Len(messages) < 2 * MaxTurns
    /\ MayAsk(text)
    /\ received' = ReceivedTurn(text, "USER", turn_sequence,
                                previous_received_turn_hash, CONTRACT)
    /\ pc' = "draft"
    /\ raised' = "NOTHING"
    /\ draft' = None
    /\ review' = None
    /\ answer' = None
    /\ UNCHANGED session

\* A blank message, one that encode() refuses, or a chain position that
\* create_received_turn refuses.
AskRefused(text) ==
    /\ pc = "idle"
    /\ ~MayAsk(text)
    /\ Raise("ValueError")
    /\ UNCHANGED last_turn_audit

\* The history cannot be encoded for the request.
RequestUnencodable ==
    /\ pc = "draft"
    /\ ~Sendable(messages)
    /\ Raise("ValueError")
    /\ UNCHANGED last_turn_audit

\* The transport reports a timeout, a refused connection or a malformed
\* response as LocalModelError; http.client.IncompleteRead is none of the
\* exceptions it translates and passes through.
TransportFails ==
    /\ pc \in {"draft", "review", "correct"}
    /\ \E exception \in {"LocalModelError", "HTTPException"} : Raise(exception)
    /\ UNCHANGED last_turn_audit

-----------------------------------------------------------------------------
(* The draft arrives.                                                      *)

ReleaseUnreviewed(reply) ==
    /\ ~mirrored_review
    /\ draft' = reply
    /\ answer' = reply
    /\ last_turn_audit' = None
    /\ pc' = "extend"
    /\ UNCHANGED <<mirrored_review, messages, previous_received_turn_hash,
                   turn_sequence, received, review, raised>>

HoldDraft(reply) ==
    /\ mirrored_review
    /\ reply \notin Unencodable
    /\ draft' = reply
    /\ pc' = "review"
    /\ UNCHANGED <<session, received, review, answer, raised>>

DraftUnencodable(reply) ==
    /\ mirrored_review
    /\ reply \in Unencodable
    /\ Raise("ValueError")
    /\ UNCHANGED last_turn_audit

ReceiveDraft(reply) ==
    /\ pc = "draft"
    /\ Sendable(messages)
    /\ ReleaseUnreviewed(reply) \/ HoldDraft(reply) \/ DraftUnencodable(reply)

-----------------------------------------------------------------------------
(* The review arrives.  Each outcome but two leaves an interception record *)
(* in last_turn_audit.                                                     *)

\* Mutated form of ReviewOf: bound to the turn before the one in progress.
ReviewOfLastTurn(raw) == Review(raw, previous_received_turn_hash, Digest(draft))

ReviewOf(raw) == Review(raw, received.hash, Digest(draft))

\* The exceptions ask() does not turn into an interception: a TypeError out
\* of the parser, and UnicodeEncodeError out of raw.encode(), which both the
\* parser and the handler of its error evaluate.
ReviewRaises(raw) ==
    /\ \/ ParseResult(raw) = "TypeError" /\ Raise("TypeError")
       \/ /\ ParseResult(raw) # "TypeError"
          /\ ~raw.encodable
          /\ Raise("ValueError")
    /\ UNCHANGED last_turn_audit

\* Mutated form of ReviewMalformed: the draft is released all the same.
ReviewMalformedReleases(raw) ==
    /\ ParseResult(raw) = "MirroredReviewError"
    /\ raw.encodable
    /\ last_turn_audit' = Audit(received, None,
          Interception(received, draft, <<Check(MIRROR_CHECK, "UNKNOWN", raw)>>, None, None))
    /\ answer' = draft
    /\ pc' = "extend"
    /\ UNCHANGED <<mirrored_review, messages, previous_received_turn_hash,
                   turn_sequence, received, draft, review, raised>>

ReviewMalformed(raw) ==
    /\ ParseResult(raw) = "MirroredReviewError"
    /\ raw.encodable
    /\ last_turn_audit' = Audit(received, None,
          Interception(received, draft, <<Check(MIRROR_CHECK, "UNKNOWN", raw)>>, None, None))
    /\ Raise("LocalModelError")

ReviewUnknown(raw) ==
    /\ ParseResult(raw) = "REVIEW"
    /\ raw.assessment = "UNKNOWN"
    /\ last_turn_audit' = Audit(received, ReviewOf(raw),
          Interception(received, draft,
                       <<Check(MIRROR_CHECK, "UNKNOWN", ReviewOf(raw).body)>>, None, None))
    /\ Raise("LocalModelError")

ReviewClean(raw) ==
    /\ ParseResult(raw) = "REVIEW"
    /\ raw.assessment = "CLEAN"
    /\ last_turn_audit' = Audit(received, ReviewOf(raw),
          Interception(received, draft,
                       <<Check(MIRROR_CHECK, "PASS", ReviewOf(raw).body)>>, draft, None))
    /\ answer' = draft
    /\ pc' = "extend"
    /\ UNCHANGED <<mirrored_review, messages, previous_received_turn_hash,
                   turn_sequence, received, draft, review, raised>>

ReviewRequiresCorrection(raw) ==
    /\ ParseResult(raw) = "REVIEW"
    /\ raw.assessment = "CORRECTION_REQUIRED"
    /\ review' = ReviewOf(raw)
    /\ pc' = "correct"
    /\ UNCHANGED <<session, received, draft, answer, raised>>

ReceiveReview(raw) ==
    /\ pc = "review"
    /\ \/ ReviewRaises(raw) \/ ReviewMalformed(raw) \/ ReviewUnknown(raw)
       \/ ReviewClean(raw) \/ ReviewRequiresCorrection(raw)

-----------------------------------------------------------------------------
(* The one correction arrives.                                             *)

\* Mutated form of CorrectionRejected: the review is asked for once more.
CorrectionRejectedRetries(reply) ==
    /\ reply \in Blank \/ reply = draft
    /\ pc' = "review"
    /\ UNCHANGED <<session, received, draft, review, answer, raised>>

CorrectionRejected(reply) ==
    /\ reply \in Blank \/ reply = draft
    /\ last_turn_audit' = Audit(received, review,
          Interception(received, draft,
                       <<Check(CORRECTION_CHECK, "FAIL", reply),
                         Check(MIRROR_CHECK, "PASS", review.body)>>, None, None))
    /\ Raise("LocalModelError")

CorrectionUnencodable(reply) ==
    /\ reply \notin Blank \cup {draft}
    /\ reply \in Unencodable
    /\ Raise("ValueError")
    /\ UNCHANGED last_turn_audit

\* Mutated form of CorrectionApplied: without the check on the correction.
CorrectionAppliedUnchecked(reply) ==
    /\ reply \notin Unencodable
    /\ last_turn_audit' = Audit(received, review,
          Interception(received, draft, <<Check(MIRROR_CHECK, "PASS", review.body)>>,
                       reply, review.hash))
    /\ answer' = reply
    /\ pc' = "extend"
    /\ UNCHANGED <<mirrored_review, messages, previous_received_turn_hash,
                   turn_sequence, received, draft, review, raised>>

CorrectionApplied(reply) ==
    /\ reply \notin Blank \cup {draft}
    /\ reply \notin Unencodable
    /\ last_turn_audit' = Audit(received, review,
          Interception(received, draft, <<Check(MIRROR_CHECK, "PASS", review.body)>>,
                       reply, review.hash))
    /\ answer' = reply
    /\ pc' = "extend"
    /\ UNCHANGED <<mirrored_review, messages, previous_received_turn_hash,
                   turn_sequence, received, draft, review, raised>>

ReceiveCorrection(reply) ==
    /\ pc = "correct"
    /\ CorrectionRejected(reply) \/ CorrectionUnencodable(reply) \/ CorrectionApplied(reply)

-----------------------------------------------------------------------------
(* The tail of ask(): three assignments, not one.                          *)

\* Mutated form of ExtendMessages: the held draft instead of the answer.
ExtendMessagesWithDraft ==
    /\ pc = "extend"
    /\ messages' = messages \o <<Message("user", received.body.content),
                                 Message("assistant", draft)>>
    /\ pc' = "link"
    /\ UNCHANGED <<mirrored_review, previous_received_turn_hash, turn_sequence,
                   last_turn_audit, locals, raised>>

ExtendMessages ==
    /\ pc = "extend"
    /\ messages' = messages \o <<Message("user", received.body.content),
                                 Message("assistant", answer)>>
    /\ pc' = "link"
    /\ UNCHANGED <<mirrored_review, previous_received_turn_hash, turn_sequence,
                   last_turn_audit, locals, raised>>

\* Mutated form of LinkTurn: only the first turn is linked.
LinkFirstTurn ==
    /\ pc = "link"
    /\ previous_received_turn_hash' =
          IF previous_received_turn_hash = None THEN received.hash
                                                ELSE previous_received_turn_hash
    /\ pc' = "count"
    /\ UNCHANGED <<mirrored_review, messages, turn_sequence, last_turn_audit,
                   locals, raised>>

LinkTurn ==
    /\ pc = "link"
    /\ previous_received_turn_hash' = received.hash
    /\ pc' = "count"
    /\ UNCHANGED <<mirrored_review, messages, turn_sequence, last_turn_audit,
                   locals, raised>>

CountTurn ==
    /\ pc = "count"
    /\ turn_sequence' = turn_sequence + 1
    /\ pc' = "idle"
    /\ UNCHANGED <<mirrored_review, messages, previous_received_turn_hash,
                   last_turn_audit, locals, raised>>

\* KeyboardInterrupt between two statements of ask(): nothing is rolled back.
Interrupt ==
    /\ Interruptible
    /\ pc # "idle"
    /\ Raise("KeyboardInterrupt")
    /\ UNCHANGED last_turn_audit

-----------------------------------------------------------------------------
\* The carrier or the transport answers; the transport's timeout makes it.
Answered ==
    \/ \E reply \in Replies : ReceiveDraft(reply) \/ ReceiveCorrection(reply)
    \/ \E raw \in Reviews : ReceiveReview(raw)
    \/ RequestUnencodable
    \/ TransportFails

Commit == ExtendMessages \/ LinkTurn \/ CountTurn

Next ==
    \/ \E text \in Texts : Ask(text) \/ AskRefused(text)
    \/ Answered
    \/ Commit
    \/ Interrupt

Spec == Init /\ [][Next]_vars

\* urlopen() is called with a timeout, so a pending call is answered or
\* fails; the commit is straight-line code.  Callers owe nothing.
FairSpec == Spec /\ WF_vars(Answered) /\ WF_vars(Commit)
-----------------------------------------------------------------------------
(* Properties.                                                             *)

Conversation == Seq([role : {"user", "assistant"}, content : Texts \cup Replies])
Exceptions == {"ValueError", "LocalModelError", "HTTPException", "TypeError",
               "KeyboardInterrupt"}

\* The values the attributes of the session and the locals of ask() take.
TypeOK ==
    /\ mirrored_review \in BOOLEAN
    /\ messages \in Conversation
    /\ previous_received_turn_hash = None \/ IsDigest(previous_received_turn_hash)
    /\ turn_sequence \in Nat
    /\ last_turn_audit = None
          \/ last_turn_audit = Audit(last_turn_audit.received, last_turn_audit.review,
                                     last_turn_audit.interception)
    /\ pc \in {"idle", "draft", "review", "correct", "extend", "link", "count"}
    /\ received = None \/ VerifyReceivedTurn(received, CONTRACT)
    /\ draft \in Replies \cup {None}
    /\ review = None \/ VerifyMirroredReview(review)
    /\ answer \in Replies \cup {None}
    /\ raised \in Exceptions \cup {"NOTHING"}

\* Between calls the chain of received turns, unrolled from its last digest,
\* is the list of questions in the history, latest first, numbered down to 0
\* and ending in the turn without a predecessor; no question is uncounted.
ChainMatchesHistory ==
    LET link[k \in 0..turn_sequence] ==
            IF k = 0 THEN previous_received_turn_hash
                     ELSE link[k - 1].sha256.previous_received_turn_hash
    IN  pc = "idle" =>
          /\ \A k \in 0..(turn_sequence - 1) :
                LET turn == link[k].sha256
                IN  /\ turn.sequence = turn_sequence - 1 - k
                    /\ turn.content = messages[2 * (turn_sequence - k) - 1].content
          /\ link[turn_sequence] = None
          /\ Len(messages) = 2 * turn_sequence

\* Every message but the last can be encoded.
SendableBefore(history) ==
    \A i \in 1..(Len(history) - 1) : history[i].content \notin Unencodable

\* However the earlier calls ended, the session accepts another question: its
\* chain position is one create_received_turn takes and, when drafts are
\* reviewed, its history is one the transport can encode.  Without review an
\* answer may be none, and is then the last that the session gets.
Continuable ==
    pc = "idle" =>
        /\ MayReceive("USER", turn_sequence, previous_received_turn_hash)
        /\ mirrored_review => Sendable(messages)
        /\ SendableBefore(messages)

\* An interrupted commit can leave a question in the history that the chain
\* does not count or does not link, never a turn that was counted or linked
\* and whose question the history lacks.
ChainBehindHistory ==
    /\ 2 * turn_sequence <= Len(messages)
    /\ previous_received_turn_hash # None =>
          \E i \in DOMAIN messages :
              messages[i] = Message("user", previous_received_turn_hash.sha256.content)

\* The parts of an audit agree: the interception passes verify_interception
\* for the turn stored with it, the review is the one bound to that turn and to
\* that draft, and the decision is the one the assessment allows.
Consistent(audit) ==
    LET item == audit.interception
        rev == audit.review
    IN  /\ VerifyInterception(item, audit.received, CONTRACT)
        /\ rev # None =>
              /\ VerifyMirroredReview(rev)
              /\ rev.body.received_turn_hash = audit.received.hash
              /\ rev.body.draft_sha256 = Digest(item.body.draft)
        /\ item.body.decision = "UNCHANGED" =>
              rev # None /\ rev.body.assessment = "CLEAN"
        /\ item.body.decision = "CORRECTED" =>
              /\ rev # None /\ rev.body.assessment = "CORRECTION_REQUIRED"
              /\ item.body.correction_basis_sha256 = rev.hash
              /\ item.body.released \notin Blank

\* Whatever the carrier answered and however the last call ended, the audit the
\* session shows is None or one whose three records agree with each other.
AuditBindsReview == last_turn_audit # None => Consistent(last_turn_audit)

\* After a reviewed call that returned, the audit is the audit of that very
\* turn and what it released is the last message of the history.
LastAnswerAudited ==
    pc = "idle" /\ raised = "NOTHING" /\ mirrored_review /\ turn_sequence > 0 =>
        /\ last_turn_audit.received.hash = previous_received_turn_hash
        /\ last_turn_audit.interception.body.released = messages[Len(messages)].content

\* Nothing enters a reviewed history but the question of the turn in progress
\* followed by what a verifiable interception of that turn released.
OnlyReleasedCommitted ==
    [][mirrored_review /\ messages' # messages =>
         /\ last_turn_audit # None
         /\ last_turn_audit.received = received
         /\ VerifyInterception(last_turn_audit.interception, received, CONTRACT)
         /\ last_turn_audit.interception.body.released # None
         /\ messages' = messages \o
               <<Message("user", received.body.content),
                 Message("assistant", last_turn_audit.interception.body.released)>>]_vars

\* Every call to ask() ends, with an answer or with an exception.
AskReturns == pc # "idle" ~> pc = "idle"

\* tests/test_mirrored_turn_review.py: a malformed review is UNKNOWN, and the
\* interception that says so is left in last_turn_audit.
MalformedReviewIsUnknown ==
    [][\A raw \in Reviews :
         Malformed(raw) /\ raw.encodable /\ ReceiveReview(raw) =>
             /\ raised' = "LocalModelError"
             /\ last_turn_audit'.received = received
             /\ last_turn_audit'.interception.body.decision = "UNKNOWN"]_vars
=============================================================================
