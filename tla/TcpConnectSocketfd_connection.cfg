SPECIFICATION Spec
CONSTANTS
    Kinds = {"keep", "close", "bad"}
    MaxRequests = 4
    MaxChecks = 2
    ReplySize = 2
    SendRoom = 3
    PeerMayReset = TRUE
INVARIANTS TypeOK NothingStuck NothingCutOff NoDanglingEvent OrderlyCloseOnce
PROPERTY ConnectionsEnd
CHECK_DEADLOCK FALSE
