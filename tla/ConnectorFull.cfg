SPECIFICATION Spec
CONSTANTS
    Sessions = {1, 2}
    Items = 1
    Full = {2}
    MaxBulk = 2
    Limits = {2}
    Failures = {}
    MaxFatals = 1
    MaxPushes = 1
INVARIANTS
    FullReplaces
CHECK_DEADLOCK FALSE
