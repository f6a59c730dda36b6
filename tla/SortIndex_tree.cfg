CONSTANTS
    Threads = {t1, t2}
    Ids = {0, 1, 2}
    NumBits <- TwoLevels
    MaxCalls = 3
SPECIFICATION FairSpec
INVARIANTS
    TreeSound
    
    QuietTable
PROPERTIES
    WriteOnce
    ImplementsVertexMap
    CallsReturn
