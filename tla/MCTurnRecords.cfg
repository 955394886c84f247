SPECIFICATION Spec
CONSTANTS
    Contents = {a, b}
    CheckLists <- MCCheckLists
    Foreign = foreign
    MaxKept = 2
    MaxEdits = 2
INVARIANTS
    AcceptedIsCreatable
    AcceptedForOneTurn
CHECK_DEADLOCK FALSE
