SPECIFICATION StorageSpec
CONSTANTS
    HttpSessions = {h}
    FtpSessions = {f}
    Administrators = {app}
    Threads = {h, f, app}
    Names = {"alice", "anonymous"}
    Passwords = {"p", "q"}
    HttpRequests <- SomeHttpRequests
    FtpRequests <- SomeFtpRequests
    Keys <- SomeKeys
    Directories <- SomeDirectories
    NoFile = NoFile
    NoUser = NoUser
    NoThread = NoThread
    NoPassword = NoPassword
INVARIANTS
    NoDataRace
    AnswersAreRight
PROPERTIES
    FirstPasswordStays
    ChangesAreVerified
    ImplementsSharedStore
