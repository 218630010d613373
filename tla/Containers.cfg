SPECIFICATION Spec
CONSTANTS
    e1 = e1  e2 = e2  n1 = n1
    None = None
    Executors <- MCExecutors
    Ids <- MCIds
    ExitCodes <- MCExitCodes
    Programs <- MCPrograms
    TimeLimit = 0
    Tests = 2
    MaxFaults = 1
INVARIANTS
    AcceptedRan
    VerdictExact
    NothingStray
PROPERTIES
    ExecutorsFinish
CHECK_DEADLOCK FALSE
