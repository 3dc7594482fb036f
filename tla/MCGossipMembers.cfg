CONSTANTS
    a = a
    b = b
    s1 = s1
    s2 = s2
    p1 = p1
    Nodes = {a, b}
    Paths = {}
    Services = {}
    NodeOf <- SharedNode
    PathOf <- SharedPath
    Reach <- BothWays
    Connects <- None
    Mortal = {a}
    MaxAlarms = 1
    MaxInFlight = 2
    NoNode = NoNode
SPECIFICATION FairSpec
 
PROPERTIES KeepsRunningPeers Departed Meet
