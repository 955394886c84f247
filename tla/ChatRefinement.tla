--------------------------- MODULE ChatRefinement ---------------------------
(***************************************************************************)
(* ChatSession implements HeldRelease.  An exchange is published when      *)
(* messages is extended: from then on the question is no longer pending,   *)
(* although two assignments of the commit are still to come.               *)
(***************************************************************************)
EXTENDS ChatSession

InFlight == pc \in {"draft", "review", "correct", "extend"}

Exchanges ==
    [i \in 1..(Len(messages) \div 2) |->
        <<messages[2 * i - 1].content, messages[2 * i].content>>]

Abstract == INSTANCE HeldRelease WITH
    Questions <- Texts \ Blank,
    Answers <- Replies,
    reviewed <- mirrored_review,
    transcript <- Exchanges,
    pending <- IF InFlight THEN received.body.content ELSE None,
    held <- IF InFlight /\ pc # "draft" THEN draft ELSE None,
    cleared <- IF pc = "extend" THEN answer ELSE None

\* Every step of ask(), its exceptions and its interruptions included, is a
\* step of the abstract conversation or changes nothing it can see.
ImplementsHeldRelease == Abstract!Spec
=============================================================================
