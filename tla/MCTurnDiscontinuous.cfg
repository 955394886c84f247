SPECIFICATION Spec
CONSTANTS
    Contents = {a, b}
    CheckLists <- MCCheckLists
    Foreign = foreign
    MaxKept = 2
    MaxEdits = 2
INVARIANTS
    DiscontinuousTurnRejected
CHECK_DEADLOCK FALSE
