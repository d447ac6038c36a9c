CONSTANTS
    t1 = t1
    t2 = t2
    t3 = t3
    t4 = t4
    None = None
    Threads = {t1, t2, t3, t4}
    Users = {1, 2, 3, 4}
    MaxSize = 5
SPECIFICATION Spec
CONSTRAINT UntilOverlap
INVARIANTS TypeOK MutualExclusion SortedTable FindsRegistered EntryKept InBounds
PROPERTIES ImplementsDirectory
SYMMETRY Symmetry
