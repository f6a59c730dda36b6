CONSTANTS
    Writers = {w1}
    Readers = {r1, r2}
    NoThread = NoThread
    Dest = {1}
    Weights = {1}
    InitCap = 0
    Slack = 1
    ExpandRate = 1
    Mixed = TRUE
    AddressReuse = TRUE
    Contract = FALSE
    MaxCalls = 3
    MaxReads = 2
    MaxVersion = 3
SPECIFICATION Spec
SYMMETRY ThreadSymmetry
INVARIANTS
    IInv
    
