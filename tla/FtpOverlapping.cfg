SPECIFICATION Spec
CONSTANTS
    Commands = {"User", "Pass", "Pasv", "Stor"}
    Names = {"anonymous"}
    Known = {"alice"}
    Arguments <- BothForms
    NoArgument = NoArgument
    Nobody = Nobody
    Pipelining = TRUE
    Aborts = FALSE
    Others = FALSE
    BufferSize = 1
    MaxUpload = 2
    MaxBacklog = 2
    MaxCommands = 5
    MaxTransfers = 2
PROPERTIES
    StoredFilesAreWhole
CHECK_DEADLOCK FALSE
