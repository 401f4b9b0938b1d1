CONSTANTS
    Profiles = {p1, p2}
    MaxReruns = 2
    Changes = 2
    Faults = 3
    Stops = 3
    RemovalKeepsLock = FALSE
SPECIFICATION FairSpec
INVARIANTS
    TypeOK
    NeverLockedOut
    HalfDoneIsGuarded
PROPERTIES
    ChangeEnds
CHECK_DEADLOCK FALSE
