SPECIFICATION FairSpec
CONSTANTS
    Threads = {t1, t2, t3}
    SemaphoreMax = 1
    MaxValues = {2}
    Counts = {1, 2}
    IntMax = 4
    MaxTokens = 2
CHECK_DEADLOCK FALSE
INVARIANTS ValueInRange WaitersCounted NoLostWake
PROPERTIES UnitsFindSleepers TimedWaitReturns
