CONSTANTS
    Writers = {w1, w2}
    Readers = {r1}
    NoThread = NoThread
    Dest = {1, 2}
    Weights = {1}
    InitCap = 0
    Slack = 1
    ExpandRate = 1
    Mixed = TRUE
    AddressReuse = TRUE
    Contract = TRUE
    MaxCalls = 4
    MaxReads = 1
    MaxVersion = 4
SPECIFICATION Spec
SYMMETRY ThreadSymmetry
INVARIANTS
    WritersOnCurrent
    PhysicalSizeExact
    ChainExact
    RetiredBuffersReclaimed
    VersionsPartitionTime
    NoDuplicateNeighbours
    QuietReadExact
PROPERTY
    RetiredFrozen
