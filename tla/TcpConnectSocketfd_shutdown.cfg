SPECIFICATION Spec
CONSTANTS
    Kinds = {"keep", "close"}
    MaxRequests = 2
    MaxChecks = 0
    ReplySize = 2
    SendRoom = 1
    PeerMayReset = FALSE
INVARIANT ShutdownWriteReturns
CHECK_DEADLOCK FALSE
