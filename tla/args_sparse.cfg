SPECIFICATION Spec
CONSTANTS
    Parts = {"arguments"}
    Outer = {1, 2}
    Outs = {"boxes", "count"}
    MultiOuts = {"boxes"}
    Emits <- SomeValues
    Threads = {"t1", "t2"}
    Askers = {"r1", "r2"}
    Viewers = {"v1"}
    Calls = {r1, r2, r3, r4}
    Open = open
    BranchIds = {0, 1}
    MaxKids = 2
    Depth = 2
    Components <- SomeSparse
    Names <- SomeNames
    Width = 7
    Height = 4
    Begun <- Tops
    Photos <- SomePhotos
    MaxSteps = 2
    Formats <- SomeFormats
    Filters <- SomeFilters
    Windows <- SomeWindows
    Kernels <- SomeKernels
    Sizes <- SomeSizes
    Extracts <- SomeExtracts
    Lines <- SomeLines
CHECK_DEADLOCK FALSE
INVARIANTS
    ArgumentsArrive
