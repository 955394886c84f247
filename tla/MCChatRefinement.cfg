SPECIFICATION Spec
CONSTANTS
    Texts = {q1, q2, empty, surrogate}
    Replies = {good, other, empty, surrogate}
    Blank = {empty}
    Unencodable = {surrogate}
    Reviews <- MCReviews
    Interruptible = TRUE
    MaxTurns = 2
INVARIANTS
    ChainBehindHistory
    LastAnswerAudited
PROPERTIES
    OnlyReleasedCommitted
    ImplementsHeldRelease
CHECK_DEADLOCK FALSE
