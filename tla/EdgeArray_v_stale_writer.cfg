CONSTANTS
    Writers = {w1, w2}
    Readers = {}
    NoThread = NoThread
    Dest = {1, 2}
    Weights = {1}
    InitCap = 0
    Slack = 1
    ExpandRate = 1
    Mixed = FALSE
    AddressReuse = FALSE
    Contract = TRUE
    MaxCalls = 5
    MaxReads = 0
    MaxVersion = 3
SPECIFICATION Spec
SYMMETRY ThreadSymmetry
INVARIANT
    DeletedArraysUnused
