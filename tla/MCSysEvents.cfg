SPECIFICATION MCSpec
CONSTANTS
    Threads = {t1, t2}
    QueueMax = 1
    BufMax = 2
    Sizes = {0, 1}
    MaxCounts = {2}
    Events = {e1, e2}
    NoEvent = none
    PortMax = 1
    BeatMax = 2
SYMMETRY Symmetry
CHECK_DEADLOCK FALSE
INVARIANTS RingInv NoLostEvent WaitersReal 
PROPERTY FifoSpec
