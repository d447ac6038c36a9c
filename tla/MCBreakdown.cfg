SPECIFICATION FairSpec
CONSTANTS
    t1 = t1
    t2 = t2
    t3 = t3
    None = None
    Threads = {t1, t2, t3}
    MaxConn = 0
    MayFail = TRUE
    StartMayFail = TRUE
    MayKill = FALSE
INVARIANTS
    TypeOK
    SocketIsOwn
    NoFault
PROPERTIES
    Reaped
