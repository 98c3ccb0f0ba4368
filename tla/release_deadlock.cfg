SPECIFICATION Spec
CONSTANTS
    t1 = t1
    t2 = t2
    b1 = b1
    b2 = b2
    NoThread = NoThread
    NoBuffer = NoBuffer
    Thread = {t1, t2}
    Buffer = {b1}
    Mappable = {}
    CopyDst = {b1}
    MappedAtCreation = {}
    Calls <- LoserAndWriter
    Batches <- OneBuffer
    Patient = TRUE
    HalMayFail = FALSE
    MaxSubmit = 0
    MaxMap = 0
    MaxWork = 0
CHECK_DEADLOCK FALSE
INVARIANT NoDeadlock
