CONSTANTS
    Threads = {t1, t2}
    Ids = {0, 1}
    NumBits <- TwoLevels
    MaxCalls = 2
SPECIFICATION Spec
SYMMETRY ThreadSymmetry
INVARIANT
    TableSlotMatchesIdx
