CONSTANTS
    Threads = {0, 1}
    Sources = {5}
    Targets = {5, 6}
    InitCap = 1
    Slack = 1
    ExpandRate = 2
    Times = {2}
    L = 1
    MaxCalls = 4
    MaxAdmin = 1
SPECIFICATION Spec
INVARIANTS
    BuffersSound
    
    RefusedForGood
    DegreesExact
    SortedWhenFlagged
    
PROPERTY
    UpdatesFindLive
