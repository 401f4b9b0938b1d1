CONSTANTS
    o1 = o1
    o2 = o2
    o3 = o3
    None = None
    Operations = {o1, o2, o3}
    TargetOf <- RepeatedTarget
    Limits = {1}
    WriteFailures = TRUE
    CancelTargets = {o1, o3}
    Launching = {o1, o2, o3}
    SharedVaults = {"v1"}
SPECIFICATION Spec
CHECK_DEADLOCK FALSE
INVARIANTS
    OneOwner
    NoRowForgotten
PROPERTIES
    AcceptedCancelHolds
