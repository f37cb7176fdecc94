SPECIFICATION Spec
CONSTANTS
    a = a
    b = b
    c = c
    d = d
    e = e
    f = f
    Root = Root
    Paths = {a, b, c, d, e, f}
    Parent <- Tree
INVARIANTS
    TypeOK
    RestoreExact
    DiffExact
