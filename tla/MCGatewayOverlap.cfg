SPECIFICATION FairSpec
CONSTANTS
    DefaultPort = 5
    Starts <- OneStart
    Files = {}
    Foreign = {}
    Slots = 2
    Fallible = {}
    MaxFaults = 0
    QueueCap = 2
    MaxReloads = 0
    Overlap = TRUE
PROPERTY Terminates
CHECK_DEADLOCK FALSE
