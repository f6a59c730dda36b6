CONSTANTS
    Writers = {w1, w2}
    Readers = {r1}
    NoThread = NoThread
    Dest = {1, 2}
    Weights = {1}
    InitCap = 1
    Slack = 1
    ExpandRate = 1
    Mixed = TRUE
    AddressReuse = FALSE
    Contract = TRUE
    MaxCalls = 3
    MaxReads = 1
    MaxVersion = 1
SPECIFICATION FairSpec
PROPERTIES
    WritersReturn
    ReadersReturn
