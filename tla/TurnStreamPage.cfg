SPECIFICATION StreamSpec
CONSTANTS
    MaxTurns = 1
    Clients = {c1}
    NoTurn = 0
    MaxEmit <- OneTurn
    Batch = 2
    Limit = 5
    Page = 2
    Failures = FALSE
INVARIANTS
    WholeReplay
CHECK_DEADLOCK FALSE
