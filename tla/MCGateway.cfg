SPECIFICATION FairSpec
CONSTANTS
    DefaultPort = 5
    Starts <- MCStarts
    Files <- MCFiles
    Foreign <- MCForeign
    Slots = 3
    Fallible = {"admin", "business"}
    MaxFaults = 2
    QueueCap = 1
    MaxReloads = 2
    Overlap = FALSE

    
    
PROPERTIES
    Terminates
    Recovers
    Settles
    StartsUp
CHECK_DEADLOCK FALSE
