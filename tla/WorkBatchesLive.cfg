SPECIFICATION BatchFairSpec
CONSTANTS
    Items = {1, 2, 3, 4}
    Batches = {1}
    Workers = {w1, w2}
    BatchOf <- OneBatch
    LaneOf <- ThreeAndOne
    FeaturesOf <- OneFeature
    FeatureLimit <- Limits
    Coordinated = "inventory_cost"
    Results = {"partial"}
    MaxAttempts = 2
    LeaseLen = 2
    Renew = 1
    Backoff = 1
    Scan = 2
    MaxFaults = 1
PROPERTIES
    WorkSettles
    LanesIndependent
CHECK_DEADLOCK FALSE
