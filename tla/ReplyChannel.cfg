SPECIFICATION Spec
CONSTANTS
    Messages = {greeting, reply, final}
    Greeting = greeting
    MaxSent = 6
INVARIANTS
    OneWriter
    NothingLost
PROPERTIES
    ImplementsReplyStream
    EveryReplyArrives
CHECK_DEADLOCK FALSE
