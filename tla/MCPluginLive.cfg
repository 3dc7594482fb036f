SPECIFICATION FairSpec
CONSTANTS
    m1 = m1
    b1 = b1
    b2 = b2
    s1 = s1
    s2 = s2
    r1 = r1
    r2 = r2
    r3 = r3
    None = None
    Models = {m1}
    Backends = {b1, b2}
    Serves <- OneModel
    Reliable = {b1}
    Sessions = {s1}
    Expiring = {s1}
    Requests = {r1, r2}
    ModelOf <- AllM1
    SessionOf <- AllS1
    HearsItself = TRUE
    MaxSyncs = 2
INVARIANTS
    Covered
PROPERTIES
    
    
    Affinity
CHECK_DEADLOCK FALSE
