SPECIFICATION ExSpec
CONSTANTS
    Jobs = {j1}
    NoJob = NoJob
    Procs = {p1, p2}
    Control = 1
    Renew = 1
    OpTimeout = 1
    ClaimWait = 2
    Failures = TRUE
    Crashes = FALSE
    Cancellers = {}
    LeaseLen = 2
    Retention = 5
    EventLimit = 1
    MaxBatch = 1
    MaxSkew = 0
    CascadeDeletes = TRUE
    MaxTime = 6
    MaxToken = 2
    MaxSeq = 0
INVARIANTS
    ExTypeOK
    OverlapBounded
    LatestRegistered
SYMMETRY
    ProcSymmetry
CHECK_DEADLOCK FALSE
