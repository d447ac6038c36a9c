SPECIFICATION Spec
CONSTANTS
    t1 = t1
    t2 = t2
    t3 = t3
    None = None
    Threads = {t1, t2}
    Users = {1, 2}
    Requests <- WriteRequests
    MaxSends = 2
    MaxBurst = 1
    AuthFirst = TRUE
    Debug = FALSE
    DbMayFail = FALSE
    MemMayFail = FALSE
    SendMayFail = FALSE
    MayDisconnect = FALSE
INVARIANTS
    ReceiverIsOnline
