SPECIFICATION Spec
CONSTANTS
    s1 = s1  s2 = s2  s3 = s3
    w1 = w1  w2 = w2
    NoJob = NoJob
    Submissions <- MCSubmissions
    Workers <- MCWorkers
    MaxQueueDepth = 1
    Capacity = 2
INVARIANTS
    ExactlyOnePlace
    PanicOnlyAfterTimeout
    InFlightCompletes
PROPERTIES
    ImplementsQueue
    ShutdownEnds
CHECK_DEADLOCK FALSE
