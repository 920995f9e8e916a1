SPECIFICATION FairSpec
CONSTANTS
    Threads = {t1, t2, t3}
    QueueMax = 1
    BufMax = 2
    Sizes = {2}
    MaxCounts = {1}
    Events = {e1}
    NoEvent = none
CHECK_DEADLOCK FALSE
PROPERTIES EventsFindReceivers CancelReleases
