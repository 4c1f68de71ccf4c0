CONSTANTS
    Nodes <- MCNodes
    Root = "r"
    Type <- MCType
    Match = {"f", "m", "g", "e"}
    Entries <- MCEntries
    NULL = "null"
    Long = {"l"}
    Flaky = {"g", "d"}
    NFD = 3
    Rooms = {2, 3, 9}
    Message = "find: path too long"
    NL = "newline"
    Cap = 3
    MaxProc = 5
SPECIFICATION FairSpec
INVARIANTS FoundAll InOrder OneCommandPerLine
PROPERTY AllEnd
CHECK_DEADLOCK FALSE
