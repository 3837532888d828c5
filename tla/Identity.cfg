SPECIFICATION FairSpec
CONSTANTS
    first = first
    second = second
    None = None
    Ops <- MCOps
    Plans <- MCPlans
    Identities <- MCIdentities
    MaxFailures = 1
INVARIANTS
    ConsentRespected
    ResultsAreTrue
    TakenOnlyInProgress
PROPERTIES
    EveryOperationEnds
CHECK_DEADLOCK FALSE
