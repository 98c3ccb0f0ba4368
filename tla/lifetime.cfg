SPECIFICATION Spec
CONSTANTS
    t1 = t1
    t2 = t2
    b1 = b1
    b2 = b2
    NoThread = NoThread
    NoBuffer = NoBuffer
    Thread = {t1, t2}
    Buffer = {b1}
    Mappable = {b1}
    CopyDst = {b1}
    MappedAtCreation = {b1}
    Calls <- Uncoordinated
    Batches <- OneBuffer
    Patient = FALSE
    HalMayFail = TRUE
    MaxSubmit = 2
    MaxMap = 1
    MaxWork = 0
CHECK_DEADLOCK FALSE
INVARIANT TypeOK
INVARIANT NoUseAfterFree
INVARIANT ActiveSorted
INVARIANT InFlightTracked
