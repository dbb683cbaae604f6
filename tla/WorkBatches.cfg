SPECIFICATION BatchSpec
CONSTANTS
    Items = {1, 2, 3}
    Batches = {1, 2}
    Workers = {w1, w2}
    BatchOf <- TwoBatches
    LaneOf <- TwoLanes
    FeaturesOf <- AllFeatures
    FeatureLimit <- Limits
    Coordinated = "inventory_cost"
    Results = {"succeeded", "failed"}
    MaxAttempts = 2
    LeaseLen = 2
    Renew = 1
    Backoff = 1
    Scan = 3
    MaxFaults = 1
INVARIANTS
    BatchTypeOK
    BatchOverWithItems
    AdmissionBounded
    NoDoubleWork
PROPERTIES
    ResultsStand
SYMMETRY WorkerSymmetry
CHECK_DEADLOCK FALSE
