SPECIFICATION Spec
CONSTANTS
    Arguments <- MCArguments
    Rewrites <- MCRewrites
    People = {"gate", "other"}
    Moments = {0, 1}
    Indexes <- MCIndexes
    Outputs <- MCOutputs
    Empty <- MCEmpty
INVARIANTS
    ReleasedOnReplayedClaims
    ReplayedAsInvoked
    BlockedForAReason
    AsciiPointersFollowRfc6901
CHECK_DEADLOCK FALSE
