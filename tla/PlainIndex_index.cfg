CONSTANTS
    Threads = {t1, t2, t3}
    MaxId = 1
    Mutex = mutex
    MaxCalls = 3
SPECIFICATION FairSpec
INVARIANTS
    IInv
    OffsetsExact
    NothingLeaked
PROPERTIES
    CallsReturn
    ImplementsVertexMap
