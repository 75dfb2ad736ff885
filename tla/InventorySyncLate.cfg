SPECIFICATION Spec

CONSTANTS
    Sessions = {1}
    RangeLists <- MCRangeLists
    MaxSize = 2
    Retries = 0
    MaxSyncs = 2
    MaxSessions = 1
    MaxQueued = 1
    LateStartAcks = TRUE

INVARIANTS
    SuccessIsIndexed
