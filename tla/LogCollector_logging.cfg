SPECIFICATION Spec
CONSTANTS
    m = m
    w = w
    Null = Null
    Threads = {m, w}
    Main = m
    MaxEntries = 2
    ChunkSize = 2
    DropThreshold = 2
    MaxFlushes = 2
INVARIANTS TypeOK NeverCrashes EntriesInOrder StopWritesEverything
PROPERTIES FlushReachesDisk StopEnds
CHECK_DEADLOCK FALSE
