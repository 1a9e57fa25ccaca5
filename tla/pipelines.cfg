SPECIFICATION Spec
CONSTANTS
    Graph <- RunGraph
    Compiled <- RunTable
    Script <- RunScript
    Starts <- RunStarts
CHECK_DEADLOCK FALSE
INVARIANTS
    CallsAreExpected
    RunsComplete
    TreesCleared
    InputsStay
