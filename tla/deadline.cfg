SPECIFICATION ConnFairSpec
CONSTANTS
    Execs = {e1}
    Orphans = {o1}
    Pids = {n1, n2}
    MaxOrphans = 2
    Recycle = FALSE
    RealTime = FALSE
    None = None
    Streams = {stdout}
    WireCap = 1
    ChanCap = 1
    MaxOut = 1
PROPERTY DeadlineKept
CHECK_DEADLOCK FALSE
