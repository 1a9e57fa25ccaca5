SPECIFICATION PartSpec
CONSTANTS
    Parts = {"graph"}
    Start <- EmptyGraph
    Types <- OnlyEcho
    Names = {1, 2}
    Channels = {""}
    MaxComponents = 3
    MaxEdges = 0
    MaxHoles = 2
    Shared = FALSE
    Unknown = FALSE
    Edits = TRUE
    Configs <- NoFiles
    NoChan = NoChan
CHECK_DEADLOCK FALSE
INVARIANTS
    IdsStayValid
