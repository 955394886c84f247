--------------------------- MODULE MCChatSession ---------------------------
(* Instances of ChatSession for TLC.                                       *)
EXTENDS ChatSession

Raw(encodable, object, assessment, issues) ==
    [encodable |-> encodable, object |-> object,
     assessment |-> assessment, issues |-> issues]

\* One raw review for every way parsing and _review can go, and the two pairs
\* of assessment and issues that parsing has to refuse.
MCReviews ==
    {Raw(TRUE, TRUE, "CLEAN", "NONE"),
     Raw(TRUE, TRUE, "CLEAN", "SOME"),
     Raw(TRUE, TRUE, "CORRECTION_REQUIRED", "SOME"),
     Raw(TRUE, TRUE, "CORRECTION_REQUIRED", "NONE"),
     Raw(TRUE, TRUE, "UNKNOWN", "SOME"),
     Raw(TRUE, TRUE, "UNHASHABLE", "NONE"),
     Raw(TRUE, FALSE, "INVALID", "INVALID"),
     Raw(FALSE, TRUE, "CLEAN", "NONE")}
=============================================================================
