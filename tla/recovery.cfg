SPECIFICATION FairSpec
CONSTANTS
    p1 = p1
    p2 = p2
    p3 = p3
    i1 = i1
    i2 = i2
    s1 = s1
    s2 = s2
    None = None
    Procs = {p1, p2}
    Ids = {i1}
    Snaps = {s1}
    Ops <- SnapshotAndDestroy
    Faults = {"crash", "death", "io", "cgkill"}
    MaxFaults = 1
    MaxInode = 3
INVARIANT FreezeHolds
PROPERTIES
    DeadReaped
    FrozenThawed
