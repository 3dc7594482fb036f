CONSTANTS
    a = a
    b = b
    s1 = s1
    s2 = s2
    p1 = p1
    Nodes = {a, b}
    Paths = {p1}
    Services = {s1, s2}
    NodeOf <- SharedNode
    PathOf <- SharedPath
    Reach <- None
    Connects <- ByHand
    Mortal = {a}
    MaxAlarms = 0
    MaxInFlight = 2
    NoNode = NoNode
SPECIFICATION FairSpec
PROPERTIES Withdrawn Spread 
