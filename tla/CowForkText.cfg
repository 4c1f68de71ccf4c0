CONSTANTS
    NULL = NULL
    Junk = Junk
    Image = 0
    Zero = 0
    PGSIZE = 2
    Procs = {p1, p2}
    Pages = {f1, f2, f3, f4}
    NV = 2
    NI = 2
    MAXVA = 6
    WORD = 8
    Text = {0}
    Guard = {}
    Val = {0, 1}
    Addrs = {0, 2, 3, 6}
    SPs = {3}
    Lens = {3}
SPECIFICATION Spec
INVARIANT
    TextUnchanged
