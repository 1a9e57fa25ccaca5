SPECIFICATION PartSpec
CONSTANTS
    Parts = {"graph"}
    Start <- TableStart
    Types <- NoTypes
    Names = {1}
    Channels = {"", "ref", "elem"}
    MaxComponents = 2
    MaxEdges = 2
    MaxHoles = 0
    Shared = FALSE
    Unknown = FALSE
    Edits = FALSE
    Configs <- NoFiles
    NoChan = NoChan
CHECK_DEADLOCK FALSE
INVARIANTS
    RootedAtEarliest
