SPECIFICATION Spec
CONSTANTS
    Requests <- Unannounced
    Authenticate = TRUE
    Patient = FALSE
    Hangups = {}
    MaxRequests = 1
PROPERTIES
    EveryRequestAnswered
CHECK_DEADLOCK FALSE
