SPECIFICATION Spec
CONSTANTS
    t1 = t1
    t2 = t2
    t3 = t3
    None = None
    Threads = {t1, t2}
    Users = {1, 2}
    Requests <- IntruderRequests
    MaxSends = 3
    MaxBurst = 1
    AuthFirst = FALSE
    Debug = TRUE
    DbMayFail = TRUE
    MemMayFail = TRUE
    SendMayFail = FALSE
    MayDisconnect = FALSE
INVARIANTS
    TypeOK
    EffectsNeedLogin
CHECK_DEADLOCK FALSE
