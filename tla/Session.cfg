SPECIFICATION FairSpec
CONSTANTS
    IdleTimeout = TRUE
    DataTimeout = TRUE
    AsyncAbor = TRUE
    ClientLines = {"blank", "plain", "setup", "quit", "stat", "retr", "list", "stor", "urgent ABOR", "urgent other"}
    MaxLines = 3
    MaxChunks = 1
INVARIANTS NoBug Answered SuccessIsWhole LogTruthful SigurgHasLine NeverUnguarded
PROPERTIES NeverHangs
CHECK_DEADLOCK FALSE
