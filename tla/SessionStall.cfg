SPECIFICATION Spec
CONSTANTS
    IdleTimeout = TRUE
    DataTimeout = TRUE
    AsyncAbor = TRUE
    ClientLines = {"setup", "retr"}
    MaxLines = 3
    MaxChunks = 1
INVARIANTS NoTimeoutAfterSuccess
CHECK_DEADLOCK FALSE
