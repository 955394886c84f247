SPECIFICATION Spec
CONSTANTS
    Arguments <- MCArguments
    Rewrites = {}
    People = {"gate", "other"}
    Moments = {0, 1}
    Indexes <- MCIndexes
    Outputs <- MCOutputs
    Empty <- MCEmpty
INVARIANTS
    PointersFollowRfc6901
CHECK_DEADLOCK FALSE
