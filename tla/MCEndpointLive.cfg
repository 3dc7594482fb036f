SPECIFICATION FairSpec
CONSTANTS
    s1 = s1  s2 = s2
    e1 = e1  e2 = e2  e3 = e3
    p = p  q = q
    Services = {s1}
    Eps = {e1}
    Paths = {p}
    ServiceOf <- MCSingleServiceOf
    PathOf <- MCSinglePathOf
    Plugins = {e1}
    Ported = {e1}
    Unescape <- MCPlain
    Heartbeats = {h1}
    Deletions = {d1}
    NoService = NoService
    NoEp = NoEp
    AllPaths = AllPaths
INVARIANTS EndpointsServed
 
CHECK_DEADLOCK FALSE
