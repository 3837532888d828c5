CONSTANTS
    r1 = r1
    r2 = r2
    t1 = t1
    t2 = t2
    t3 = t3
    t4 = t4
    None = None
    MicrotasksBetween = FALSE
    Requests <- MCRequests
    Tasks <- MCTasks
    RequestOf <- MCRequestOf
SPECIFICATION FairSpec
INVARIANTS
    QueueIsSound
    
PROPERTIES
    ExecutesSerially
    QueueMoves
CHECK_DEADLOCK FALSE
