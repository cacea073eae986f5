SPECIFICATION FairSpec
CONSTANTS
    t1 = t1
    t2 = t2
    t3 = t3
    p1 = p1
    p2 = p2
    dir1 = dir1
    dir2 = dir2
    None = None
    Threads = {t1, t2, t3}
    ProcOf <- MCProcOf
    HostOf <- MCHostOf
    DirOf <- MCDirOf
    MaxAttempts = 3
    HoldLimit = 1
    LockTimeout = 2
    MaxRequests = 1
    MaxHangs = 1
    MaxCrashes = 1
INVARIANTS
    OneAtATime
    NoLockLeaks
PROPERTIES
    RequestsEnd
    FileWaitersMoveOn
CHECK_DEADLOCK FALSE
