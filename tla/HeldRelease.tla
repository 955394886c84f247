---------------------------- MODULE HeldRelease ----------------------------
(***************************************************************************)
(* What a reviewed conversation promises, without saying how: an answer is *)
(* published only for the question it was asked for, and it is either the  *)
(* draft that was held or one replacement of it that is neither blank nor  *)
(* the draft itself.  A question that is abandoned leaves no trace in the  *)
(* transcript.  A conversation without review publishes its drafts.        *)
(***************************************************************************)
EXTENDS Sequences, HashBound

CONSTANTS Questions, Answers, Blank

VARIABLES
    reviewed,    \* whether drafts are held at all
    transcript,  \* the published exchanges, <<question, answer>>
    pending,     \* the question being answered, or None
    held,        \* its draft, or None
    cleared      \* the answer cleared for publication, or None

turn == <<pending, held, cleared>>
vars == <<reviewed, transcript, turn>>

Init ==
    /\ reviewed \in BOOLEAN
    /\ transcript = <<>>
    /\ pending = None
    /\ held = None
    /\ cleared = None

Receive(question) ==
    /\ pending = None
    /\ pending' = question
    /\ UNCHANGED <<reviewed, transcript, held, cleared>>

Hold(reply) ==
    /\ reviewed
    /\ pending # None /\ held = None
    /\ held' = reply
    /\ UNCHANGED <<reviewed, transcript, pending, cleared>>

ClearDraft ==
    /\ held # None /\ cleared = None
    /\ cleared' = held
    /\ UNCHANGED <<reviewed, transcript, pending, held>>

ClearReplacement(reply) ==
    /\ held # None /\ cleared = None
    /\ reply \notin Blank \cup {held}
    /\ cleared' = reply
    /\ UNCHANGED <<reviewed, transcript, pending, held>>

\* Without review a draft is cleared as it arrives.
PassThrough(reply) ==
    /\ ~reviewed
    /\ pending # None /\ held = None
    /\ held' = reply
    /\ cleared' = reply
    /\ UNCHANGED <<reviewed, transcript, pending>>

Publish ==
    /\ cleared # None
    /\ transcript' = Append(transcript, <<pending, cleared>>)
    /\ pending' = None /\ held' = None /\ cleared' = None
    /\ UNCHANGED reviewed

Abandon ==
    /\ pending # None
    /\ pending' = None /\ held' = None /\ cleared' = None
    /\ UNCHANGED <<reviewed, transcript>>

Next ==
    \/ \E question \in Questions : Receive(question)
    \/ \E reply \in Answers : Hold(reply) \/ ClearReplacement(reply) \/ PassThrough(reply)
    \/ ClearDraft
    \/ Publish
    \/ Abandon

Spec == Init /\ [][Next]_vars
=============================================================================
