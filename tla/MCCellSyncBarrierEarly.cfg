SPECIFICATION BarrierSpec
CONSTANTS
    Threads = {t1, t2}
    MaxRounds = 2
CHECK_DEADLOCK FALSE
INVARIANT BarrierHolds
