SPECIFICATION Spec
CONSTANTS
    t1 = t1
    t2 = t2
    f1 = f1
    tfd = tfd
    Threads = {t1, t2}
    Stoppers = {t1}
    NumQueues = 2
    QueuesOf <- MCQueuesOf
    Capacity = 1
    MaxRuns = 1
    Fds = {f1}
    Timerfd = tfd
    LockFree = FALSE
INVARIANTS TypeOK NoLostWakeup WakeupsCoalesce
PROPERTIES ImplementsMailbox StopExits
CHECK_DEADLOCK FALSE
