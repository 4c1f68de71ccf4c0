CONSTANTS
    Procs = {p1}
    NULL = NULL
    PGSIZE = 2
    K = 2
    BASE = 1
    LIMIT = 8
    RECORD = 4
    HEAD = 1
    TABLES = 1
    NPages = 8
    NSuper = 2
    Grows = {2, 4, 6}
    Shrinks = {2, 4}
SPECIFICATION Spec
PROPERTY KeptMemory
CHECK_DEADLOCK FALSE
