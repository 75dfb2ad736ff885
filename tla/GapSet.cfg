CONSTANTS
    Sizes = {0, 1, 5, 10}
    Seqs = {0, 1, 2, 3, 4, 5, 6, 7, 8, 9, 10}
SPECIFICATION Spec
INVARIANTS
    TypeOK
    IntervalsExact
    CompleteExact
    RangesExact
CHECK_DEADLOCK FALSE
