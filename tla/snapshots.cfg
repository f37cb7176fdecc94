SPECIFICATION Spec
CONSTANTS
    p1 = p1
    p2 = p2
    p3 = p3
    i1 = i1
    i2 = i2
    s1 = s1
    s2 = s2
    None = None
    Procs = {p1, p2}
    Ids = {i1, i2}
    Snaps = {s1, s2}
    Ops <- SnapshotAndRestore
    Faults = {"io", "lock"}
    MaxFaults = 1
    MaxInode = 3
PROPERTY SnapshotKept
SYMMETRY SandboxesAndSnapshots
CHECK_DEADLOCK FALSE
