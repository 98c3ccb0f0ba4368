SPECIFICATION Spec
CONSTANTS
    t1 = t1
    t2 = t2
    b1 = b1
    b2 = b2
    NoThread = NoThread
    NoBuffer = NoBuffer
    Thread = {t1}
    Buffer = {b1}
    Mappable = {b1}
    CopyDst = {}
    MappedAtCreation = {}
    Calls <- OneMapper
    Batches <- OneBuffer
    Patient = FALSE
    HalMayFail = FALSE
    MaxSubmit = 2
    MaxMap = 2
    MaxWork = 0
CHECK_DEADLOCK FALSE
INVARIANT MappedNotInFlight
