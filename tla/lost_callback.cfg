SPECIFICATION Spec
CONSTANTS
    t1 = t1
    t2 = t2
    b1 = b1
    b2 = b2
    NoThread = NoThread
    NoBuffer = NoBuffer
    Thread = {t1, t2}
    Buffer = {b1}
    Mappable = {b1}
    CopyDst = {}
    MappedAtCreation = {}
    Calls <- TwoMappers
    Batches <- OneBuffer
    Patient = FALSE
    HalMayFail = FALSE
    MaxSubmit = 0
    MaxMap = 2
    MaxWork = 0
CHECK_DEADLOCK FALSE
INVARIANT MapCallbackKept
