SPECIFICATION Spec
CONSTANTS
    Kinds = {"keep"}
    MaxRequests = 2
    MaxChecks = 0
    ReplySize = 2
    SendRoom = 3
    PeerMayReset = TRUE
INVARIANT CloseFindsConnection
CHECK_DEADLOCK FALSE
