SPECIFICATION CalmSpec
CONSTANTS
    Threads = {t1, t2}
    QueueMax = 1
    BufMax = 1
    Sizes = {1}
    MaxCounts = {1}
    Events = {e1}
    NoEvent = none
CHECK_DEADLOCK FALSE
PROPERTY TimedReceiveReturns
