SPECIFICATION Spec
CONSTANTS
    Parts = {"cameras"}
    front = front
    rear = rear
    detect = detect
    draw = draw
    publish = publish
    Cameras = {rear}
    Targets <- Outputs
    Expecting <- Arity
    MaxRunning = 1
    Raw = {}
    Stubborn = {}
    MaxFails = 2
    MaxCount = 32
    MaxLosses = 1
    Devices <- SomeDevices
    Publishers = {"pose", "tags", "misc"}
    Topics = {"pose", "tags"}
    Types = {"int", "double[]"}
    TopicOf <- TwoTopics
    TypeOf <- TwoTypes
    Cached = {"pose", "tags"}
    Most = 2
    MaxSets <- Sets
    MaxBreaks = 2
    Layouts <- AnyLists
    Kinds = {"int", "string", "other"}
    Sendable = {"int", "string"}
    Remap <- SomeRemap
    MaxNodes = 2
    Frames <- SomeFrames
    Of <- PipelineOf
    Pipe = 1
    Stuck = {}
CHECK_DEADLOCK FALSE
PROPERTIES
    KeepsDelivering
