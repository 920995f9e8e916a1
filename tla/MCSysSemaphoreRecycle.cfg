SPECIFICATION Spec
CONSTANTS
    Threads = {t1, t2, t3}
    SemaphoreMax = 1
    MaxValues = {2}
    Counts = {1, 2}
    IntMax = 4
    MaxTokens = 3
SYMMETRY Symmetry
CHECK_DEADLOCK FALSE
PROPERTY PostNeverSkips
