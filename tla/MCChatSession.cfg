SPECIFICATION FairSpec
CONSTANTS
    Texts = {q1, q2, empty, surrogate}
    Replies = {good, other, empty, surrogate}
    Blank = {empty}
    Unencodable = {surrogate}
    Reviews <- MCReviews
    Interruptible = FALSE
    MaxTurns = 2
INVARIANTS
    TypeOK
    ChainMatchesHistory
    Continuable
    AuditBindsReview
    LastAnswerAudited
PROPERTIES
    OnlyReleasedCommitted
    AskReturns
CHECK_DEADLOCK FALSE
