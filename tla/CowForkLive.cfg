CONSTANTS
    NULL = NULL
    Junk = Junk
    Image = 0
    Zero = 0
    PGSIZE = 2
    Procs = {p1, p2}
    Pages = {f1, f2, f3}
    NV = 2
    NI = 2
    MAXVA = 6
    WORD = 8
    Text = {}
    Guard = {1}
    Val = {0}
    Addrs = {0, 1, 2, 4}
    SPs = {1, 4}
    Lens = {1}
SPECIFICATION FairSpec
PROPERTY
    OpsEnd
