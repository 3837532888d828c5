SPECIFICATION LifeSpec
CONSTANTS
    Calls = {c1, c2}
    None = None
    IdpNodes = {"idp1", "idp2"}
    AsNodes = {"as1"}
    Wanted <- MCWanted
    Timeout = 2
    MaxDelay = 1
    MaxSendFailures = 1
    MaxCloses = 1
    MaxCrashes = 1
    MaxCallsAtCrash = 1
CHECK_DEADLOCK FALSE
INVARIANTS
    
    NeverEarly
    

    
