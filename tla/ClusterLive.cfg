SPECIFICATION Spec
CONSTANTS
    s1 = s1  s2 = s2  s3 = s3
    w1 = w1  w2 = w2
    d1 = d1  d2 = d2
    NoJob = NoJob
    Submissions <- TwoSubmissions
    Workers <- MCWorkers
    Daemons <- MCDaemons
    DaemonOf <- MCDaemonOf
    MaxQueueDepth = 1
    MaxInflight = 2
    MaxFaults = 2
PROPERTIES
    AcceptedIsDecided
