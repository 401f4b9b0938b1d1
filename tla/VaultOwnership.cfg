CONSTANTS
    None = None
    a = a
    b = b
    d = d
    Computers = {a, b, d}
    Members = {a, b}
    FirstOwner = a
    Removers = {b}
    Kopia = TRUE
    MaxOps = 2
    MaxCuts = 2
SPECIFICATION FairSpec
CHECK_DEADLOCK FALSE
INVARIANTS
    TypeOK
    NativeFollowsRoot
PROPERTIES
    RootMovesInOrder
    StartedEnds
