SPECIFICATION Spec
CONSTANTS
    Texts = {q1, q2, empty, surrogate}
    Replies = {good, other, empty, surrogate}
    Blank = {empty}
    Unencodable = {surrogate}
    Reviews <- MCReviews
    Interruptible = FALSE
    MaxTurns = 2
PROPERTY
    MalformedReviewIsUnknown
CHECK_DEADLOCK FALSE
