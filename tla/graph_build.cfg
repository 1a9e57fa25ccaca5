SPECIFICATION PartSpec
CONSTANTS
    Parts = {"graph", "edit", "start"}
    Start <- BuildStart
    Types <- NoTypes
    Names = {1}
    Channels = {"", "ref", "elem"}
    MaxComponents = 4
    MaxEdges = 5
    MaxHoles = 0
    Shared = FALSE
    Unknown = FALSE
    Edits = FALSE
    Configs <- SmallFiles
    NoChan = NoChan
CHECK_DEADLOCK FALSE
INVARIANTS
    OrderIsReal
    BroadcastUnambiguous
    WiredAsConnected
    RootedAtEarlier
    StartedAsWritten
PROPERTIES
    EditsKeepTables
