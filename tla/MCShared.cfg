SPECIFICATION Spec
CONSTANTS
    t1 = t1
    t2 = t2
    t3 = t3
    None = None
    Threads = {t1, t2, t3}
    Users = {1, 2}
    Requests <- SharedRequests
    MaxSends = 2
    MaxBurst = 2
    AuthFirst = TRUE
    Debug = TRUE
    DbMayFail = TRUE
    MemMayFail = TRUE
    SendMayFail = FALSE
    MayDisconnect = TRUE
INVARIANTS
    MailForOwner
    OnePlace
    NoMemoryFault
CHECK_DEADLOCK FALSE
