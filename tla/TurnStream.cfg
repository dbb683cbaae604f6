SPECIFICATION StreamFairSpec
CONSTANTS
    MaxTurns = 2
    Clients = {c1}
    NoTurn = 0
    MaxEmit <- TwoTurns
    Batch = 2
    Limit = 2
    Page = 1
    Failures = TRUE
INVARIANTS
    StreamTypeOK
    DoneIsReplayable
    StreamedToTheEnd
PROPERTIES
    TurnsKeepContract
    EventsArrive
    StreamsEnd
CHECK_DEADLOCK FALSE
