CONSTANTS
    None = None
    Writers = {"b1", "u1"}
    Backups = {"b1"}
    Old = {"old"}
    UserRequests <- RetryOrForce
    Fills = {f1, f2}
    Events = 2
SPECIFICATION MCFairSpec
CHECK_DEADLOCK FALSE
INVARIANTS
    TypeOK
    
    NothingStranded
PROPERTIES
    RepairedInTheEnd
