SPECIFICATION Spec
CONSTANTS
    k1 = k1
    k2 = k2
    t1 = t1
    t2 = t2
    Keys <- KeySet
    Threads <- ThreadSet
    Kinds <- KindSet
    Limit = 2
    Window = 3
    MaxKeys = 1
    Interval = 3
    MaxEntries = 2
    Delay = 1
    MaxTime = 7
CHECK_DEADLOCK FALSE
SYMMETRY Symmetry
INVARIANTS WindowBounded RefusedWithCause IntervalKept
