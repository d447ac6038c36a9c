CONSTANTS
    t1 = t1
    t2 = t2
    t3 = t3
    t4 = t4
    None = None
    Threads = {t1, t2}
    Users = {1, 2}
    MaxSize = 4
SPECIFICATION Spec
INVARIANTS LoggedInListed
