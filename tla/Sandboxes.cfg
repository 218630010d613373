SPECIFICATION Spec
CONSTANTS
    TimeLimit = 1
    ExitCodes <- MCExitCodes
    MaxRuns = 2
    MemoryLimit = 2
    Behaviours <- MCBehaviours
INVARIANTS
    AcceptedIsClean
    CleanIsAccepted
    SubmissionVerdictExact
    PeakExact
CHECK_DEADLOCK FALSE
