SPECIFICATION Spec
CONSTANTS
    PortPromiscuous = TRUE
    PasvPromiscuous = TRUE
    ChownUploads = FALSE
PROPERTY ImplementsDataPath
CHECK_DEADLOCK FALSE
