SPECIFICATION FairSpec
CONSTANTS
    MaxCalls = 3
    MaxEnds = 1
INVARIANTS
    Orderly
    StuckByExit
PROPERTY Returns
CHECK_DEADLOCK FALSE
