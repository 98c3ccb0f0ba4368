SPECIFICATION Spec
CONSTANTS
    t1 = t1
    t2 = t2
    b1 = b1
    b2 = b2
    NoThread = NoThread
    NoBuffer = NoBuffer
    Thread = {t1, t2}
    Buffer = {b1}
    Mappable = {}
    CopyDst = {}
    MappedAtCreation = {}
    Calls <- WaiterAndPoller
    Batches <- OneBuffer
    Patient = TRUE
    HalMayFail = FALSE
    MaxSubmit = 1
    MaxMap = 0
    MaxWork = 0
CHECK_DEADLOCK FALSE
INVARIANT NeverPanics
