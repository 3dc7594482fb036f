SPECIFICATION FairSpec
CONSTANTS
    Requests = {r1, r2}
    Workers = {w1}
    QueueCapacity = 1
    NoRequest = NoRequest
PROPERTIES
    
    
    ReportCurrent
CHECK_DEADLOCK FALSE
