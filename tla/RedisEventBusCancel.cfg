SPECIFICATION Spec
CONSTANTS
    MaxMessages = 7
    Inbox = 2
    Buffer = 2
INVARIANTS
    CancelIsSafe
CHECK_DEADLOCK FALSE
