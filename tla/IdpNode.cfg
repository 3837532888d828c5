SPECIFICATION IdpSpec
CONSTANTS
    Answers = {"a1", "a2", "wrong"}
    Offer <- MCOffer
    Asked <- MCAsked
    Onboarded <- MCOnboarded
    None = None
    MaxFailures = 1
    MaxCrashes = 1
CHECK_DEADLOCK FALSE
INVARIANTS
    OnlyRecordedIsSent
PROPERTIES
    EveryAnswerIsReported
    
