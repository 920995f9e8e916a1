SPECIFICATION FairSpec
CONSTANTS
    Threads = {t1, t2}
    NoThread = none
    MutexMax = 1
    CondMax = 1
    MaxDepth = 1
CHECK_DEADLOCK FALSE
PROPERTY WaitReturns
