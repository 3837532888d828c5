SPECIFICATION Spec
CONSTANTS
    Services = {"s1", "s2"}
    Calls = {"call"}
    ServiceOf <- MCServiceOf
    Registered = {"s1"}
    None = None
    MaxCalls = 1
    MaxFailures = 1
    MaxCrashes = 1
CHECK_DEADLOCK FALSE
INVARIANTS
    OnlySignedIsSent
    DataCanStillCome
PROPERTIES
    EveryDataIsReported
    
