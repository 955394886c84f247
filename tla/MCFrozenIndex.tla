--------------------------- MODULE MCFrozenIndex ---------------------------
(* An instance of FrozenIndex for TLC.                                     *)
EXTENDS FrozenIndex

Procedure(mode, independent) ==
    [id |-> "procedure", sha256 |-> Digest("procedure"), mode |-> mode,
     independent |-> independent]

\* The second is one create_admitted_check refuses.
MCProcedures ==
    {Procedure("DETERMINISTIC", TRUE), Procedure("MIRRORED_EVIDENCE_ONLY", TRUE)}
=============================================================================
