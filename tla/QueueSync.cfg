SPECIFICATION FairSpec
CONSTANTS
    a = a
    v = v
    Ids = {a, b}
    Data = {v, w}
    Payloads <- MCPayloads
    Absent = Absent
    Faults = {"submit", "clearSyncedItems", "resetSyncingItems", "acknowledgement"}
    Slow = {a}
    MaxFaults = 1
INVARIANTS
    TypeOK
    QueueIsCurrent
    NoDocumentLost
    NothingLost
    StatusIsTrue
    SyncingIsSent
    RowShape
PROPERTIES
    Convergence
