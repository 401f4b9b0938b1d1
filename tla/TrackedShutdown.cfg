CONSTANTS
    d1 = d1
    d2 = d2
    rm = rm
    bk = bk
    ck = ck
    sc = sc
    sv = sv
    q1 = q1
    v1 = v1
    v2 = v2
    j1 = j1
    j2 = j2
    NoVault = NoVault
    NoJob = NoJob
    Free = Free
    Ops = {ck, sc, sv}
    Kind <- TaskKinds
    VaultOf <- TaskVaults
    JobOf <- TaskJobs
    Vaults = {v1}
    Rank <- OneRank
    Kopia = {}
    Jobs = {}
    TargetsOf <- NoTargets
    Requests = {q1}
    RequestVault <- RequestV1
    MaxUnsaved = 1
    Cancellable = {}
    MayStop = TRUE
SPECIFICATION SlowSpec
CHECK_DEADLOCK FALSE
INVARIANTS
    UnfinishedIsOwned
PROPERTIES
    ShutdownEnds
