SPECIFICATION FairSpec
CONSTANTS
    Execs = {e1, e2}
    Orphans = {o1, o2}
    Pids = {n1, n2, n3, n4}
    MaxOrphans = 1
    Recycle = FALSE
    RealTime = TRUE
    None = None
INVARIANTS
    TypeOK
    NeverBoth
    ParkedBounded
    OwnStatus
    NoVainWait
PROPERTY Told
