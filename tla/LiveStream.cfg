SPECIFICATION Spec
CONSTANTS
    c1 = c1  c2 = c2
    api = api  worker = worker
    Publishers <- MCPublishers
    Subscribers <- TwoClients
    Steps = 3
    Buffer = 2
INVARIANTS
    ChannelsSafe
    StreamFaithful
PROPERTIES
    SubscriberGetsFinal
    HandlersReturn
CHECK_DEADLOCK FALSE
