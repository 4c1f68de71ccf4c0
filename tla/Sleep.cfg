CONSTANTS
    Procs = {p1, p2}
    NoProc = NoProc
    W = 6
    LAG = 2
    PGSIZE = 16
    Layouts <- MCLayouts
    S0 = 31
SPECIFICATION FairSpec
INVARIANTS SleepsOnTime NeverAsleepDue BacktraceExact
PROPERTY SleepEnds
