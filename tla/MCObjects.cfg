SPECIFICATION Spec
CONSTANTS
    Threads = {t1, t2, t3}
    TicketMod = 3
    MaxRounds = 2
    Values = {v1, v2}
    NoValue = none
    Depth = 2
    NoOwner = nobody
    MaxRecur = 2
    Bits = {b1, b2}
    Modes <- SomeModes
    Nobody = nobody
    MaxReads = 2
    Workers = {w1, w2}
    Jobs = {j1, j2}
    NoJob = nojob
    MaxIdle = 1
    ThreadIds = {1, 2, 3}
    Main = t1
    Statuses = {s1, s2}
    NoBody = nobody
CHECK_DEADLOCK FALSE
INVARIANTS MutexExclusive MutexLine RwmNoTear RwmCounted BarrierHoldsUntilStale QueueFlags QueueSlotsApart LwmExclusiveUntilCrossed LwmNoLostWake
INVARIANTS FlagNoLostWake RwlockOwner PoolWorkersHeld PoolJobsOnce ThreadSlotsKept JoinExact
PROPERTIES QueueIsFifo LFQueueIsFifo MutexServed RwmWriteReturns FlagWaitReturns PoolJobRuns
