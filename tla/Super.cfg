CONSTANTS
    NULL = NULL
    Procs = {p1, p2}
    PGSIZE = 2
    K = 2
    BASE = 2
    LIMIT = 14
    RECORD = 2
    HEAD = 1
    TABLES = 1
    NPages = 8
    NSuper = 2
    Grows = {2, 8}
    Shrinks = {3, 4}
SPECIFICATION Spec
SYMMETRY ProcSymmetry
INVARIANTS TypeOK PagesConserved TidyHeap TidyPanics
PROPERTIES ForkExact FailedGrowUndone
CHECK_DEADLOCK FALSE
