SPECIFICATION Spec
CONSTANTS
    Jobs = {j1, j2}
    NoJob = NoJob
    LeaseLen = 2
    Retention = 1
    EventLimit = 2
    MaxBatch = 2
    MaxSkew = 1
    CascadeDeletes = TRUE
    MaxTime = 5
    MaxToken = 3
    MaxSeq = 3
SYMMETRY JobSymmetry
INVARIANTS
    TypeOK
    SlotGuardsRun
    LastClaimDecides
    FencedHistory
    ReplayWindow
PROPERTIES
    TerminalIsFinal
    NoEarlyTakeover
    ImplementsContract
CHECK_DEADLOCK FALSE
