SPECIFICATION LiveSpec
CONSTANTS
    Sessions = {1, 2}
    Items = 2
    Full = {2}
    MaxBulk = 3
    Limits = {0, 2}
    Failures = {"retry", "fatal", "deleteRetry", "deleteFatal", "item", "invalid"}
    MaxFatals = 1
    MaxPushes = 2
INVARIANTS
    TypeOK
    BoundariesExact
    
PROPERTIES
    KeepsContract
    Answered
    Stops
CHECK_DEADLOCK FALSE
