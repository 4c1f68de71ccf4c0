CONSTANTS
    NULL = NULL
    Procs = {p1, p2, p3}
    Pages = {f1, f2, f3}
    Parallel = 2
SPECIFICATION Spec
INVARIANT
    NoDoubleFree
