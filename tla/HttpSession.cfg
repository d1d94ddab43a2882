SPECIFICATION Spec
CONSTANTS
    Requests <- Announced
    Authenticate = TRUE
    Patient = TRUE
    Hangups = {"between", "header", "body"}
    MaxRequests = 3
INVARIANTS
    TypeOK
    AnsweredInOrder
    OnlyKnownFaults
PROPERTIES
    StoredBodiesAreWhole
    ChangesAreAdmitted
    EveryRequestAnswered
CHECK_DEADLOCK FALSE
