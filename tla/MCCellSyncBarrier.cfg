SPECIFICATION BarrierFairSpec
CONSTANTS
    Threads = {t1, t2, t3}
    MaxRounds = 1
CHECK_DEADLOCK FALSE
PROPERTIES BarrierReleases
