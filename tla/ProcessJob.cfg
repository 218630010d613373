SPECIFICATION Spec
CONSTANTS
    MaxTests = 2
    TestVerdicts <- MCTestVerdicts
    Backends <- MCBackends
INVARIANTS
    TypeOK
    VerdictSound
    StreamOrdered
    NoVerdictFromCancelledRun
    EndsCleanly
PROPERTIES
    OverwrittenByCleanupOnly
    ImplementsContract
    Returns
