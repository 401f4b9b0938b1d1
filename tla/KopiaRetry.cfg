CONSTANTS
    Digests = {d1, d2}
    Fences = {f1, f2}
    Timers = {t1, t2}
    None = None
    Mixed = Mixed
    Users = {"backup", "cleanup"}
    Outlive = {"crash", "return"}
    Hazards = {"edit", "fault", "fence", "stop"}
    Budget = 3
SPECIFICATION Spec
PROPERTY
    ReadyInTheEnd
