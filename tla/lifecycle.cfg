SPECIFICATION Spec
CONSTANTS
    p1 = p1
    p2 = p2
    p3 = p3
    i1 = i1
    i2 = i2
    s1 = s1
    s2 = s2
    None = None
    Procs = {p1, p2, p3}
    Ids = {i1}
    Snaps = {}
    Ops <- CreateAndDestroy
    Faults = {"crash", "death", "io", "setup", "cgkill"}
    MaxFaults = 2
    MaxInode = 4
INVARIANTS
    TypeOK
    SpawnExclusive
    RegistryFirst
    DroppedIsEmpty
PROPERTY DropOnlyStopped
SYMMETRY Destroyers
