SPECIFICATION Spec
CONSTANTS
    Graph <- SameDepthGraph
    Compiled <- SameDepthTable
    Script <- SameDepthScript
    Starts <- OneRun
CHECK_DEADLOCK FALSE
INVARIANTS
    EveryCallMade
