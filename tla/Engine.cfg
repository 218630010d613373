SPECIFICATION Spec
CONSTANTS
    None = None
    ExitCodes <- MCExitCodes
    Requests <- MCRequests
    Extensions <- MCExtensions
    Hosts <- MCHosts
    EngineBackends <- MCEngineBackends
    TimeLimit = 1
    MaxOutput = 2
    MaxWritten = 3
INVARIANTS
    RequestHonoured
    BufferExact
    AcceptedSound
    CleanedUp
PROPERTIES
    RunReturns
CHECK_DEADLOCK FALSE
