SPECIFICATION ConnFairSpec
CONSTANTS
    Execs = {e1}
    Orphans = {o1}
    Pids = {n1, n2}
    MaxOrphans = 2
    Recycle = FALSE
    RealTime = TRUE
    None = None
    Streams = {stdout}
    WireCap = 1
    ChanCap = 1
    MaxOut = 2
INVARIANTS
    ConnTypeOK
    TimeoutTold
    Supervised
PROPERTIES
    KeepsPromise
    Answered
    CancelKills
CHECK_DEADLOCK FALSE
