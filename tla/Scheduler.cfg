SPECIFICATION SchedFairSpec
CONSTANTS
    t1 = t1
    t2 = t2
    Tasks = {t1, t2}
    Replicas = {r1, r2}
    AgentTasks <- Agents
    Last <- Ends
    MaxRuns <- Limits
    MaxManual <- ByHand
    Slots = 1
    LeaseLen = 2
    Renew = 1
    MaxFaults = 1
    Faulty = {r1}
    MaxEdits <- ByHand
INVARIANTS
    SchedTypeOK
    CompletedOnce
    OneRunAtATime
PROPERTIES
    NothingSkipped
    OccurrencesSettle
CHECK_DEADLOCK FALSE
