SPECIFICATION Spec
CONSTANTS
    t1 = t1
    t2 = t2
    b1 = b1
    b2 = b2
    NoThread = NoThread
    NoBuffer = NoBuffer
    Thread = {t1, t2}
    Buffer = {b1, b2}
    Mappable = {b1}
    CopyDst = {}
    MappedAtCreation = {b2}
    Calls <- ClientAndPoller
    Batches <- OneOrBoth
    Patient = TRUE
    HalMayFail = FALSE
    MaxSubmit = 2
    MaxMap = 2
    MaxWork = 1
CHECK_DEADLOCK FALSE
INVARIANT MappedNotInFlight
INVARIANT MapCallbackKept
INVARIANT WorkDoneKept
INVARIANT WorkDoneAfterGpu
INVARIANT LostWhenIdle
INVARIANT NoDeadlock
