SPECIFICATION Spec
CONSTANTS
    Commands = {"User", "Pass", "Pasv", "List", "Retr", "Stor", "Cwd", "Quit", "Type", "Dele", "Unrecognized"}
    Names = {"alice", "mallory", "anonymous"}
    Known = {"alice"}
    Arguments <- OneArgument
    NoArgument = NoArgument
    Nobody = Nobody
    Pipelining = TRUE
    Aborts = TRUE
    Others = FALSE
    BufferSize = 1
    MaxUpload = 2
    MaxBacklog = 1
    MaxCommands = 6
    MaxTransfers = 2
INVARIANTS
    OneFinalReply
    DownloadsArrive
    LoginIsVerified
PROPERTIES
    StoredFilesAreUploads
    RefusedChangesNothing
CHECK_DEADLOCK FALSE
