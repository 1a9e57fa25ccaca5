SPECIFICATION PartSpec
CONSTANTS
    Parts = {"graph"}
    Start <- PairsStart
    Types <- NoTypes
    Names = {1}
    Channels = {"", "ref", "elem"}
    MaxComponents = 3
    MaxEdges = 3
    MaxHoles = 0
    Shared = TRUE
    Unknown = FALSE
    Edits = FALSE
    Configs <- NoFiles
    NoChan = NoChan
CHECK_DEADLOCK FALSE
INVARIANTS
    WiredAsConnected
