SPECIFICATION AlertSpec
CONSTANTS
    rg = rg
    ag = ag
    rule = rule
    undo = undo
    Plan = {rg, ag, rule}
    Undo = {undo}
    Original <- RolledBack
    Kind <- Kinds
    Requires <- Graph
    Rank <- Ranks
    Admins = {a1, a2}
    Selections <- Selected
PROPERTIES
    CancelledNotApplied
