SPECIFICATION ResizeSpec
CONSTANTS
    QueueSize = 3
    WarnLevel = 75
    NormalLevel = 25
    MaxEvents = 5
    QueueSizes = {2, 4}
INVARIANTS
    OldestPreserved
