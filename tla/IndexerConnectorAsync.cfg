CONSTANTS
    ElementsPerBulk = 3
    MaxSuccessCount = 1
    MaxEvents = 3
    MaxFaults = 1
    MaxStops = 1
SPECIFICATION FairSpec
INVARIANTS
    TypeOK
    QueueContiguous
    BulkIsHead
    RedeliveryBounded
PROPERTIES
    Delivers
    Drains
CHECK_DEADLOCK FALSE
