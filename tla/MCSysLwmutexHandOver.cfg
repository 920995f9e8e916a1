SPECIFICATION LwmSpec
CONSTANTS
    Threads = {t1, t2}
    NoOwner = nobody
    MaxRecur = 2
CHECK_DEADLOCK FALSE
INVARIANT LwmExclusive
