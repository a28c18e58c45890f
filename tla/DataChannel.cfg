SPECIFICATION FairSpec
CONSTANTS
    PortPromiscuous = FALSE
    PasvPromiscuous = FALSE
    ChownUploads = TRUE
INVARIANTS ChecksHold CallsInStep ConnectionsClosed
PROPERTIES ImplementsDataPath CommandCompletes ParentFollows
CHECK_DEADLOCK FALSE
