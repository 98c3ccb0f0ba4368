SPECIFICATION Spec
CONSTANTS
    Key <- MCKey
    ResourceOf <- MCResourceOf
    Usage <- MCUsage
    Exclusive <- MCExclusive
    Ordered <- MCOrdered
    Cell <- MCCell
    CellKey <- MCCellKey
    BufferKey = {"b"}
    ClearUsage <- MCClearUsage
    A = A
    B = B
    Encoder = {A, B}
    Script <- MCScript
    Batch <- MCBatch
    Write <- MCWrite
    MaxWrites = 1
    LateDiscards = TRUE
    FailAfterBake = FALSE
    RejectedWrites = FALSE
    ConcurrentWrites = FALSE
CHECK_DEADLOCK FALSE
INVARIANT ReadsInitialized
