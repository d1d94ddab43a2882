SPECIFICATION Spec
CONSTANTS
    IntBits = 3
    SizeBits = 5
    MaxNumber = 7
    HttpWords = {"HTTP", "/HTTP"}
    HttpRequests <- SomeHttpRequests
    FtpRequests <- SomeFtpRequests
    Resources <- SomeResources
    Ports <- SomePorts
    MaxRequests = 2
INVARIANTS
    RequestsArrive
    NoneIsWaitedFor
    RepliesArrive
CHECK_DEADLOCK FALSE
