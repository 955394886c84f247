SPECIFICATION Spec
CONSTANTS
    Matters <- MCMatters
    People = {ann, bob}
    Documents <- MCDocuments
    Declared = {"HELD"}
    LastMoment = 2
    MaxClaims = 2
    MaxRecords = 4
SYMMETRY Symmetry
INVARIANTS
    LaterEvidenceIgnored
    HeldOnTimelyEvidence
    ComputedResultsAgree
    TipDeterminesChain
CHECK_DEADLOCK FALSE
