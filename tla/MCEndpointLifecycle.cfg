SPECIFICATION Spec
CONSTANTS
    s1 = s1  s2 = s2
    e1 = e1  e2 = e2  e3 = e3
    p = p  q = q
    Services = {s1, s2}
    Eps = {e1, e2, e3}
    Paths = {p, q}
    ServiceOf <- MCRivalServiceOf
    PathOf <- MCRivalPathOf
    Plugins = {e1, e2}
    Ported = {e1}
    Unescape <- MCPlain
    Heartbeats = {}
    Deletions = {d1}
    NoService = NoService
    NoEp = NoEp
    AllPaths = AllPaths
INVARIANTS PoolsAccounted RejectedLeavesNothing PluginExclusive
PROPERTIES ImplementsRegistry
CHECK_DEADLOCK FALSE
