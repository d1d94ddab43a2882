SPECIFICATION Spec
CONSTANTS
    Workers = {"w1", "w2"}
    Clients = {"c1", "c2", "c3"}
    Slow = {"c1"}
    Hangups = TRUE
    AcceptErrors = TRUE
    Flaws = TRUE
INVARIANTS
    TypeOK
    OneAccept
    OneHandlerEach
    WorkersStay
PROPERTIES
    EveryClientServed
    StopEnds
CHECK_DEADLOCK FALSE
