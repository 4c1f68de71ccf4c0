CONSTANTS
    N = 17
    MaxProc = 8
    Cap = 2
    ForkFails = TRUE
SPECIFICATION FairSpec
CHECK_DEADLOCK FALSE
INVARIANTS
    InOrder
    AllPrintedAtExit
    NothingLost
PROPERTY
    AllEnd
