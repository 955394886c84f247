---------------------------- MODULE TurnRecords ----------------------------
(***************************************************************************)
(* The records of free_valid_ai/turn_boundary.py outside a conversation:   *)
(* a host keeps the turns it received and an interception, as JSON, and    *)
(* anyone holding them runs the verify_ functions.  What is read back may  *)
(* differ from what was created, in a field of the body, with the hash     *)
(* kept, recomputed or replaced.                                           *)
(***************************************************************************)
EXTENDS TurnBoundary

CONSTANTS
    Contents,    \* byte strings: what is received, drafted or released
    CheckLists,  \* the sequences of checks a host passes
    Foreign,     \* a digest of nothing that is kept
    MaxKept,     \* bound: turns kept
    MaxEdits     \* bound: fields changed in the records kept

ASSUME RecordAssumption ==
    /\ None \notin Contents
    /\ Foreign \notin Contents
    /\ MaxKept \in Nat /\ MaxEdits \in Nat

VARIABLES
    log,   \* the received turns kept, in the order received
    item,  \* the interception kept, or None
    edits  \* how many fields were changed

vars == <<log, item, edits>>

Digests == {log[i].hash : i \in DOMAIN log} \cup {Digest(Foreign)}

Init == log = <<>> /\ item = None /\ edits = 0

-----------------------------------------------------------------------------
\* create_received_turn for whatever chain position the host names.
Receive(content, sequence, previous) ==
    /\ Len(log) < MaxKept
    /\ MayReceive("USER", sequence, previous)
    /\ log' = Append(log, ReceivedTurn(content, "USER", sequence, previous, CONTRACT))
    /\ UNCHANGED <<item, edits>>

\* create_interception on one of the turns kept.
Intercept(turn, draft, checks, released, basis) ==
    /\ item = None
    /\ MayIntercept(turn, draft, checks, released, basis, CONTRACT)
    /\ item' = Interception(turn, draft, checks, released, basis)
    /\ UNCHANGED <<log, edits>>

\* The record as it is read back: with another body, under the hash it had or
\* the body's own, or with another turn's hash.
ReadBack(record, bodies) ==
    {[record EXCEPT !.body = body] : body \in bodies}
    \cup {Seal(body) : body \in bodies}
    \cup {[record EXCEPT !.hash = digest] : digest \in Digests}

\* Bound: a record whose hash no longer fits is not changed again.
CountEdit(record) == edits < MaxEdits /\ edits' = edits + 1 /\ Intact(record)

\* Where the bytes are replaced with their digest, and wherever the hash is
\* recomputed, the turn may verify again, as another turn.
EditedTurns(body) ==
    {[body EXCEPT !.content = content] : content \in Contents}
    \cup {[body EXCEPT !.content_sha256 = Digest(content)] : content \in Contents}
    \cup {[body EXCEPT !.content = content, !.content_sha256 = Digest(content)] :
             content \in Contents}
    \cup {[body EXCEPT !.role = role] : role \in {"TOOL", "ASSISTANT"}}
    \cup {[body EXCEPT !.sequence = sequence] : sequence \in 0..(MaxKept - 1)}
    \cup {[body EXCEPT !.previous_received_turn_hash = previous] :
             previous \in Digests \cup {None}}
    \cup {[body EXCEPT !.semantic_contract_hash = Digest(Foreign)]}

EditTurn(i) ==
    /\ CountEdit(log[i])
    /\ \E turn \in ReadBack(log[i], EditedTurns(log[i].body)) :
          log' = [log EXCEPT ![i] = turn]
    /\ UNCHANGED item

EditedBodies(body) ==
    {[body EXCEPT !.draft = draft] : draft \in Contents}
    \cup {[body EXCEPT !.released = released] : released \in Contents \cup {None}}
    \cup {[body EXCEPT !.checks = checks] : checks \in CheckLists}
    \cup {[body EXCEPT !.decision = decision] : decision \in DECISIONS}
    \cup {[body EXCEPT !.correction_basis_sha256 = basis] : basis \in {None, Digest(Foreign)}}
    \cup {[body EXCEPT !.received_turn_hash = digest] : digest \in Digests}

EditItem ==
    /\ item # None
    /\ CountEdit(item)
    /\ item' \in ReadBack(item, EditedBodies(item.body))
    /\ UNCHANGED log

Next ==
    \/ \E content \in Contents, sequence \in 0..(MaxKept - 1), previous \in Digests \cup {None} :
          Receive(content, sequence, previous)
    \/ \E i \in DOMAIN log, draft \in Contents, checks \in CheckLists,
          released \in Contents \cup {None}, basis \in {None, Digest(Foreign)} :
          Intercept(log[i], draft, checks, released, basis)
    \/ \E i \in DOMAIN log : EditTurn(i)
    \/ EditItem

Spec == Init /\ [][Next]_vars

-----------------------------------------------------------------------------
(* Properties.                                                             *)

\* verify_interception states the contract of create_interception again, in
\* other words and on the stored fields; the two agree: it accepts an item for
\* a turn exactly when create_interception could have made that very item from
\* the item's own draft, checks, release and basis.
AcceptedIsCreatable ==
    item # None =>
        \A i \in DOMAIN log :
            LET body == item.body
            IN  VerifyInterception(item, log[i], CONTRACT) <=>
                    /\ MayIntercept(log[i], body.draft, body.checks, body.released,
                                    body.correction_basis_sha256, CONTRACT)
                    /\ item = Interception(log[i], body.draft, body.checks,
                                           body.released, body.correction_basis_sha256)

\* An interception is evidence about one turn: whatever happened to the
\* records, no two different turns both accept it.
AcceptedForOneTurn ==
    item # None =>
        \A i, j \in DOMAIN log :
            /\ VerifyInterception(item, log[i], CONTRACT)
            /\ VerifyInterception(item, log[j], CONTRACT)
            => log[i] = log[j]

\* frozen_index.py, received_turn_receipt: "reject altered, unbound, or
\* discontinuous received turns".  Every turn kept that verifies continues the
\* turn kept just before it.
DiscontinuousTurnRejected ==
    \A i \in 2..Len(log) :
        VerifyReceivedTurn(log[i], CONTRACT) =>
            /\ log[i].body.sequence = log[i - 1].body.sequence + 1
            /\ log[i].body.previous_received_turn_hash = log[i - 1].hash
=============================================================================
