SPECIFICATION Spec
CONSTANTS
    c1 = c1
    c2 = c2
    c3 = c3
    ann = ann
    bob = bob
    pw = pw
    qw = qw
    None = None
    Clients = {c1, c2}
    Names = {ann}
    Passwords = {pw, qw}
    MaxSends = 3
    DbMayFail = TRUE
    SendMayFail = TRUE
INVARIANTS
    TypeOK
    AcknowledgedIsStored
    FetchFindsRow
    KnowsAPrefix
    DuplicatesBounded
PROPERTIES
    FinMeansUpToDate
SYMMETRY Symmetry
