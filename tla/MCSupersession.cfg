SPECIFICATION Spec
CONSTANTS
    CheckIds = {1, 2}
    Versions = {1, 2, 10}
    Procedures <- MCProcedures
    MaxIndexes = 3
INVARIANTS
    SupersessionAdmitted
CHECK_DEADLOCK FALSE
