SPECIFICATION SyncedSpec
CONSTANTS
    a = a
    v = v
    Ids = {a}
    Data = {v}
    Payloads <- MCPayloads
    Absent = Absent
    Faults = {"acknowledgement"}
    Slow = {a}
    MaxFaults = 1
INVARIANTS
    NothingOrphaned
