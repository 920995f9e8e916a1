SPECIFICATION Spec
CONSTANTS
    Threads = {t1, t2, t3}
    NoThread = none
    MutexMax = 1
    CondMax = 1
    MaxDepth = 2
SYMMETRY Symmetry
CHECK_DEADLOCK FALSE
INVARIANTS HoldersExclude HostLockMatches CondsCounted RelockersCounted SignalKept
PROPERTY DestroyOnlyUnused
