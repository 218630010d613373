SPECIFICATION Spec
CONSTANTS
    c1 = c1  c2 = c2
    api = api  worker = worker
    Publishers <- MCPublishers
    Subscribers <- OneClient
    Steps = 2
    Buffer = 4
PROPERTIES
    EveryStreamEnds
CHECK_DEADLOCK FALSE
