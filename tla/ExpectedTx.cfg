SPECIFICATION FairSpec
CONSTANTS
    call = call
    None = None
    Calls = {call}
    Retrying = {call}
    Saving = {call}
    MaxAttempts = 2
    MaxLosses = 1
    MaxCrashes = 1
INVARIANTS
    CalledOnce
    LaterIsKept

    
    
CHECK_DEADLOCK FALSE
