SPECIFICATION Spec
CONSTANTS
    Parts = {"cameras", "options", "client", "publish", "ffmpeg"}
    front = front
    rear = rear
    detect = detect
    draw = draw
    publish = publish
    Cameras = {front, rear}
    Targets <- Outputs
    Expecting <- Arity
    MaxRunning = 1
    Raw = {front, rear}
    Stubborn = {front}
    MaxFails = 2
    MaxCount = 16
    MaxLosses = 3
    Devices <- SomeDevices
    Publishers = {"pose", "tags", "misc"}
    Topics = {"pose", "tags"}
    Types = {"int", "double[]"}
    TopicOf <- TwoTopics
    TypeOf <- TwoTypes
    Cached = {"pose", "tags"}
    Most = 2
    MaxSets <- Sets
    MaxBreaks = 2
    Layouts <- AnyLists
    Kinds = {"int", "string", "other"}
    Sendable = {"int", "string"}
    Remap <- SomeRemap
    MaxNodes = 2
    Frames <- SomeFrames
    Of <- PipelineOf
    Pipe = 1
    Stuck = {}
CHECK_DEADLOCK FALSE
INVARIANTS
    RetriesGoOn
    NobodyPanics
    SetsAreDelivered
    OneListSent
    RecordingsWhole
PROPERTIES
    FirstFrameComes
    MovesForward
    QueuedArrives
