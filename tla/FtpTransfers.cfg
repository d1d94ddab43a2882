SPECIFICATION Spec
CONSTANTS
    Commands = {"User", "Pass", "Pasv", "List", "Retr", "Stor"}
    Names = {"alice"}
    Known = {"alice"}
    Arguments <- OneArgument
    NoArgument = NoArgument
    Nobody = Nobody
    Pipelining = FALSE
    Aborts = FALSE
    Others = TRUE
    BufferSize = 2
    MaxUpload = 3
    MaxBacklog = 1
    MaxCommands = 7
    MaxTransfers = 3
INVARIANTS
    TypeOK
    QueuedIsPending
PROPERTIES
    StoredFilesAreWhole
    TransfersEnd
CHECK_DEADLOCK FALSE
