SPECIFICATION Spec
CONSTANTS
    MaxMessages = 7
    Inbox = 2
    Buffer = 2
INVARIANTS
    DeliveredInFull
PROPERTIES
    ForwarderEnds
CHECK_DEADLOCK FALSE
