SPECIFICATION ServicesSpec
CONSTANTS
    rg = rg
    ag = ag
    rule = rule
    undo = undo
    Plan = {rg, ag, rule}
    Undo = {undo}
    Original <- RolledBack
    Kind <- Kinds
    Requires <- Graph
    Rank <- Ranks
    Admins = {a1, a2}
    Selections <- Selected
    drill = drill
    policy = policy
    undoPolicy = undoPolicy
    Requested = {drill, policy}
    Inverses = {undoPolicy}
    RollbackOf <- RestoresPolicy
    Dual = {drill}
    Subjects = {s1, s2}
    Pollers = {p1}
    BatchSize = 1
    RowSets = {{drill, policy}}
    m1 = m1
    m2 = m2
    m3 = m3
    m4 = m4
    Missions = {m1, m2, m3, m4}
    Lane <- Lanes
    MaxGlobal = 2
    MaxPerLane = 1
    MaxCancels = 1
INVARIANTS
    ServicesTypeOK
    PrerequisitesFirst
    TwoApprovers
    LanesKept
PROPERTIES
    ChangesConverge
CHECK_DEADLOCK FALSE
