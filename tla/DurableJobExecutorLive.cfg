SPECIFICATION ExFairSpec
CONSTANTS
    Jobs = {j1}
    NoJob = NoJob
    Procs = {p1, p2}
    Control = 1
    Renew = 1
    OpTimeout = 1
    ClaimWait = 1
    Failures = FALSE
    Crashes = TRUE
    Cancellers = {p1, p2}
    LeaseLen = 3
    Retention = 8
    EventLimit = 1
    MaxBatch = 1
    MaxSkew = 0
    CascadeDeletes = TRUE
    MaxTime = 6
    MaxToken = 2
    MaxSeq = 1
INVARIANTS
    HealthyKeepsLease
PROPERTIES
    OrphansEnd
    CancelReachesOwner
CHECK_DEADLOCK FALSE
