SPECIFICATION Spec
CONSTANTS
    Workers = {w1, w2, w3}
    Tasks = {"cb"}
    Kind <- MCKind
    None = None
    MaxFaults = 0
CHECK_DEADLOCK FALSE
INVARIANT
    LostIsTakenOver
