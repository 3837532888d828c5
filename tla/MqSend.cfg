SPECIFICATION FairSpec
CONSTANTS
    first = first
    second = second
    near = near
    far = far
    None = None
    Messages = {first, second}
    Dests = {near, far}
    MaxRetries = 2
    Limit = 2
    MaxCalls = 2
    MaxCallsInAll = 2
    MaxErrors = 1
INVARIANTS
    SendingIsSound
PROPERTIES
    ImplementsSendCall
    CallsAreAnswered
CHECK_DEADLOCK FALSE
