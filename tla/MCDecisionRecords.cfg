SPECIFICATION Spec
CONSTANTS
    Items <- MCItems
    FirstEntries <- MCFirstEntries
    LaterEntries <- MCLaterEntries
    MaxIndexes = 3
    Proposals <- MCProposals
    Observations <- MCObservations
    Comparisons <- MCComparisons
    Actions <- MCActions
INVARIANTS
    OrderIrrelevant
    AssessorsAgree
    UncitedEvidenceReported
    EligibleIsEstablished
    WorseNeverMorePermissive
    ExtensionNeverReverses
    VerifiedWhereMade
    DirectionIsReal
    SwapMirrors
CHECK_DEADLOCK FALSE
