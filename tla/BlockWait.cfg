CONSTANTS
    m1 = m1
    m2 = m2
    Messages <- MCMessages
    HeightOf <- MCHeightOf
    MaxHeight = 4
    FreshStart = FALSE
    MaxFailures = 1
    MaxCrashes = 1
SPECIFICATION FairSpec
INVARIANTS
    AtMostOnce
    NoneForgotten
PROPERTIES
    NeverEarly
    
CHECK_DEADLOCK FALSE
