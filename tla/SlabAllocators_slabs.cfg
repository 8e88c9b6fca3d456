SPECIFICATION Spec
CONSTANTS
    t1 = t1
    t2 = t2
    Threads = {t1, t2}
    Main = t1
    SlabsPerChunk = 3
    MaxChunks = 2
    MaxCalls = 7
    MaxLockFreeCalls = 6
    MaxStringCalls = 5
    ChunkSize = 4096
    NumberOfClasses = 12
    Sizes = {0, 32, 33, 2048, 2049}
INVARIANTS TypeOK SlabsAccountedFor
PROPERTY ImplementsPool
CHECK_DEADLOCK FALSE
