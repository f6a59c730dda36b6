CONSTANTS
    Writers = {w1, w2}
    Readers = {}
    NoThread = NoThread
    Dest = {1, 2}
    Weights = {1, 2}
    InitCap = 0
    Slack = 1
    ExpandRate = 1
    Mixed = FALSE
    AddressReuse = TRUE
    Contract = TRUE
    MaxCalls = 4
    MaxReads = 0
    MaxVersion = 4
SPECIFICATION Spec
SYMMETRY ThreadSymmetry
PROPERTY
    ImplementsAdjacencyMap
