CONSTANTS
    Main = {10, 11}
    Handlers = {20, 21}
    Vals <- MCVals
    Junk = 99
    Intervals <- MCIntervals
    MaxCount = 4
    NPages = 3
SPECIFICATION FairSpec
INVARIANTS
    TypeOK
    NotReentered
    AlarmAsked
    RunExact
    PagesConserved
    OnTime
PROPERTY
    SigreturnRestores
    AlarmComes
