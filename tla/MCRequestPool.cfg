SPECIFICATION Spec
CONSTANTS
    Requests = {r1, r2}
    Workers = {w1, w2}
    QueueCapacity = 1
    NoRequest = NoRequest
SYMMETRY PoolSymmetry
INVARIANTS
    CountersExact
    SingleOwner
    ServedHasAnswer
PROPERTIES
    RefusalJustified
    AnsweredOnce
    ImplementsService
CHECK_DEADLOCK FALSE
