CONSTANTS
    Vaults = {v1, v2}
    Ops = {o1, o2}
    Interval = 1
    Margin = 0
    IssueAfter = 1
    MaxTime = 2
    MaxMissed = 1
    MaxGroups = 2
    Faults = 1
    Disturbances = 1
SPECIFICATION Spec
SYMMETRY Perms
INVARIANTS
    TypeOK
    NoExtraRun
PROPERTIES
    KeepsPromise
CHECK_DEADLOCK FALSE
