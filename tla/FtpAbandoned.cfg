SPECIFICATION Spec
CONSTANTS
    Commands = {"User", "Pass", "Pasv", "List"}
    Names = {"alice"}
    Known = {"alice"}
    Arguments <- OneArgument
    NoArgument = NoArgument
    Nobody = Nobody
    Pipelining = FALSE
    Aborts = TRUE
    Others = TRUE
    BufferSize = 1
    MaxUpload = 1
    MaxBacklog = 1
    MaxCommands = 4
    MaxTransfers = 1
INVARIANTS
    QueuedIsPending
CHECK_DEADLOCK FALSE
