SPECIFICATION FairSpec
CONSTANTS
    N = 3
    MayFail = TRUE
INVARIANTS
    TypeOK
    OnIsOwn
    UnseenOnlyIfHasty
    TablesMissingOnlyIfCut
PROPERTIES
    StopIsHeard
    EndIsShown
CHECK_DEADLOCK FALSE
