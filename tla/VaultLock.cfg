CONSTANTS
    Waiters = {w1}
    Triers = {t1}
    Lows = {l1, l2}
    Sharers = {s1}
SPECIFICATION FairSpec
INVARIANTS
    TypeOK
    ClaimReachesEveryLease
PROPERTIES
    ImplementsGate
    CallsReturn
