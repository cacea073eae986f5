SPECIFICATION Spec
CONSTANTS
    t1 = t1
    t2 = t2
    t3 = t3
    p1 = p1
    p2 = p2
    dir1 = dir1
    dir2 = dir2
    None = None
    Threads = {t1, t2, t3}
    ProcOf <- MCProcOf
    HostOf <- MCHostOf
    DirOf <- MCQueueDirOf
    MaxAttempts = 5
    HoldLimit = 1
    LockTimeout = 5
    MaxRequests = 1
    MaxHangs = 0
    MaxCrashes = 0
INVARIANT TimeoutMeansStuckHolder
CHECK_DEADLOCK FALSE
