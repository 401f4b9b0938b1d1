CONSTANTS
    o1 = o1
    o2 = o2
    o3 = o3
    None = None
    Operations = {o1, o2, o3}
    TargetOf <- SharedVault
    Limits = {1, 2}
    WriteFailures = FALSE
    CancelTargets = {o1}
    Launching = {o1}
    SharedVaults = {}
SPECIFICATION FairSpec
CHECK_DEADLOCK FALSE
INVARIANTS
    TypeOK
    SlotsMatchRuns
    NoStrandedReservation
PROPERTIES
    StartsInOrder
    QueueDrains
