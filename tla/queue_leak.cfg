SPECIFICATION Spec
CONSTANTS
    Execs = {e1, e2, e3}
    Orphans = {}
    Pids = {n1, n2, n3}
    MaxOrphans = 1
    Recycle = TRUE
    RealTime = FALSE
    None = None
INVARIANT QueueBounded
