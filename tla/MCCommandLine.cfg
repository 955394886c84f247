SPECIFICATION FairMainSpec
CONSTANTS
    Texts = {q1, q2, empty, surrogate}
    Replies = {good, other, empty, surrogate}
    Blank = {empty}
    Unencodable = {surrogate}
    Reviews <- MCReviews
    Interruptible = TRUE
    MaxTurns = 2
    Arguments <- MCArguments
INVARIANTS
    ShownMatchesHistory
    PromptOnWholeSession
    
    EnvelopeSpeaksOfTransport
    RefusedForItsArguments
PROPERTIES
    ShownWasReleased
    QuestionSettled
CHECK_DEADLOCK FALSE
