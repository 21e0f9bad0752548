SPECIFICATION FairSpec
CONSTANTS
    NoOne = NoOne
    Blocking = {b1, b2}
    Callbacks = {c1}
    Permits = 1
PROPERTIES
    Implements
    TakenIsResumed
    PermitReachesQueue
