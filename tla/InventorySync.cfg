SPECIFICATION Spec

CONSTANTS
    Sessions = {1, 2}
    RangeLists <- MCRangeLists
    MaxSize = 2
    Retries = 1
    MaxSyncs = 1
    MaxSessions = 2
    MaxQueued = 1
    LateStartAcks = FALSE

INVARIANTS
    TypeOK
    SuccessIsIndexed
    
PROPERTIES
    Synchronizes
