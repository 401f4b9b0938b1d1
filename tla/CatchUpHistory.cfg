CONSTANTS
    Vaults = {v1}
    Ops = {o1, o2}
    Interval = 1
    Margin = 0
    IssueAfter = 2
    MaxTime = 3
    MaxMissed = 3
    MaxGroups = 2
    Faults = 1
    Disturbances = 1
SPECIFICATION FairSpec
INVARIANTS
    BookkeepingAccepts
PROPERTIES
    PendingAdmitted
CHECK_DEADLOCK FALSE
