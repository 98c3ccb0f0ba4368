SPECIFICATION Spec
CONSTANTS
    Key <- MCKey
    ResourceOf <- MCResourceOf
    Usage <- MCUsage
    Exclusive <- MCExclusive
    Ordered <- MCOrdered
    Cell <- MCCell
    CellKey <- MCCellKey
    BufferKey = {"b"}
    ClearUsage <- MCClearUsage
    A = A
    B = B
    C = C
    Encoder = {A, B, C}
    Script <- MCScript
    Batch <- MCBatch
    Write <- MCWrite
    MaxWrites = 1
    LateDiscards = FALSE
    FailAfterBake = FALSE
    RejectedWrites = FALSE
    ConcurrentWrites = FALSE
SYMMETRY Interchangeable
CHECK_DEADLOCK FALSE
INVARIANT TypeOK
INVARIANT BarriersRight
INVARIANT DeviceTrackerAhead
INVARIANT GarbageTracked
PROPERTY KeepsPromise
