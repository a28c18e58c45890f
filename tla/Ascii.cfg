SPECIFICATION TransferSpec
CONSTANTS
    Texts <- MCTexts
    MaxChunk = 2
    Directions = {"download", "upload"}
    BUFSIZE = 4
INVARIANT AsciiHonoured
CHECK_DEADLOCK FALSE
