SPECIFICATION Spec
CONSTANTS
    t1 = t1
    t2 = t2
    f1 = f1
    tfd = tfd
    Threads = {t1, t2}
    Stoppers = {t1}
    NumQueues = 2
    QueuesOf <- MCQueuesOfSpsc
    Capacity = 2
    MaxRuns = 2
    Fds = {}
    Timerfd = tfd
    LockFree = TRUE
PROPERTY ImplementsMailboxSafety
CHECK_DEADLOCK FALSE
