SPECIFICATION Spec
CONSTANT RetryLimits = {0, 2}
INVARIANTS TypeOK SocketsAccountedFor OneContinuation
PROPERTY AttemptsEnd
CHECK_DEADLOCK FALSE
