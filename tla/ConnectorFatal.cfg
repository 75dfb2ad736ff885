SPECIFICATION Spec
CONSTANTS
    Sessions = {1, 2}
    Items = 1
    Full = {}
    MaxBulk = 2
    Limits = {2}
    Failures = {"fatal"}
    MaxFatals = 1
    MaxPushes = 1
INVARIANTS
    AckedIsIndexed
CHECK_DEADLOCK FALSE
