CONSTANTS
    d1 = d1
    d2 = d2
    rm = rm
    bk = bk
    ck = ck
    sc = sc
    sv = sv
    q1 = q1
    v1 = v1
    v2 = v2
    j1 = j1
    j2 = j2
    NoVault = NoVault
    NoJob = NoJob
    Free = Free
    Ops = {d1, d2, rm, bk}
    Kind <- DeletionKinds
    VaultOf <- DeletionVaults
    JobOf <- DeletionJobs
    Vaults = {v1, v2}
    Rank <- VaultRank
    Kopia = {v1, v2}
    Jobs = {j1, j2}
    TargetsOf <- BothShared
    Requests = {}
    RequestVault <- NoRequests
    MaxUnsaved = 0
    Cancellable = {d1}
    MayStop = FALSE
SPECIFICATION FairSpec
CHECK_DEADLOCK FALSE
INVARIANTS
    TypeOK
    CleanupNotOvertaken
    AcceptedCancelHolds
PROPERTIES
    InUseIsKept
    WorkersEnd
