SPECIFICATION Spec
CONSTANTS
    Threads = {t1, t2, t3}
    SemaphoreMax = 1
    MaxValues = {3}
    Counts = {1, 3}
    IntMax = 3
    MaxTokens = 3
SYMMETRY Symmetry
CHECK_DEADLOCK FALSE
INVARIANT ValueInRange
