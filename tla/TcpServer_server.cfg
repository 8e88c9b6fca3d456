SPECIFICATION Spec
CONSTANTS
    NumWorkers = 2
    MaxConnections = 3
    Capacity = 1
    AcceptLimit = 1
    FdLimit = 2
INVARIANTS TypeOK OnlyLiveLoopsAreUsed ConnectionsAccountedFor StopIsGraceful
PROPERTIES StopReturns WaitingClientsAreAccepted
CHECK_DEADLOCK FALSE
