SPECIFICATION PartSpec
CONSTANTS
    Parts = {"graph"}
    Start <- SplitStart
    Types <- NoTypes
    Names = {1}
    Channels = {"", "elem"}
    MaxComponents = 2
    MaxEdges = 2
    MaxHoles = 0
    Shared = FALSE
    Unknown = FALSE
    Edits = TRUE
    Configs <- NoFiles
    NoChan = NoChan
CHECK_DEADLOCK FALSE
INVARIANTS
    EdgesMirrored
