CONSTANTS
    idp1 = idp1
    idp2 = idp2
    as1 = as1
    Idps <- MCIdps
    Ases <- MCAses
    MaxFailures = 1
SPECIFICATION FairSpec
INVARIANTS
    RequestIsSound
    DataRequestsBounded
PROPERTIES
    RequestMoves
    ChangesAreSeen
CHECK_DEADLOCK FALSE
