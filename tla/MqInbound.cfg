SPECIFICATION InboundFairSpec
CONSTANTS
    message = message
    Incoming = {message}
    MaxSends = 3
    MaxLosses = 2
    MaxFailures = 1
    MaxOutages = 2
    MaxCrashes = 2
INVARIANTS
    AckedIsKept
    HandedOnce

    
CHECK_DEADLOCK FALSE
