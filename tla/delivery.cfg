SPECIFICATION FairSpec
CONSTANTS
    t1 = t1
    t2 = t2
    b1 = b1
    b2 = b2
    NoThread = NoThread
    NoBuffer = NoBuffer
    Thread = {t1}
    Buffer = {b1}
    Mappable = {b1}
    CopyDst = {b1}
    MappedAtCreation = {}
    Calls <- OneThread
    Batches <- OneBuffer
    Patient = FALSE
    HalMayFail = FALSE
    MaxSubmit = 1
    MaxMap = 2
    MaxWork = 1
CHECK_DEADLOCK FALSE
INVARIANT WorkDoneAfterMaps
INVARIANT NeverPanics
PROPERTY MapAnswered
PROPERTY WorkDoneAnswered
PROPERTY LostAnswered
