SPECIFICATION TxSpec
CONSTANTS
    Jobs = {j1, j2}
    NoJob = NoJob
    Sessions = {s1, s2}
    NoSession = NoSession
    Polls = 0
    LeaseLen = 1
    Retention = 1
    EventLimit = 1
    MaxBatch = 1
    MaxSkew = 0
    CascadeDeletes = TRUE
    MaxTime = 2
    MaxToken = 2
    MaxSeq = 1
INVARIANTS
    ReadsStillHold
PROPERTIES
    AtomicTransactions
    EveryCallEnds
CHECK_DEADLOCK FALSE
