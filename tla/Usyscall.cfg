CONSTANTS
    Procs = {p1, p2, p3}
    NPages = 13
    MaxPid = 4
SPECIFICATION Spec
INVARIANTS TypeOK PagesConserved NoPanic PidRight
CHECK_DEADLOCK FALSE
