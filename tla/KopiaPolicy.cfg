CONSTANTS
    Digests = {d1, d2}
    Fences = {f1, f2}
    Timers = {t1, t2}
    None = None
    Mixed = Mixed
    Users = {"maintenance", "backup", "cleanup"}
    Outlive = {"crash"}
    Hazards = {"edit", "fault", "fence", "db", "drift", "stop"}
    Budget = 2
SPECIFICATION Spec
SYMMETRY Symmetry
INVARIANTS
    TypeOK
    PolicyHolds
    OneWriter
