SPECIFICATION FairSpec
CONSTANTS
    t1 = t1
    t2 = t2
    t3 = t3
    k1 = k1
    k2 = k2
    s1 = s1
    s2 = s2
    s3 = s3
    s4 = s4
    NoSlot = NoSlot
    Thread = {t1, t2, t3}
    Key = {k1, k2}
    Slot = {s1, s2, s3, s4}
    MaxGets = 4
INVARIANT AtMostOneAlive
INVARIANT EntryWhileAlive
INVARIANT RemovesItsOwn
PROPERTY Returns
CHECK_DEADLOCK FALSE
