SPECIFICATION Spec
CONSTANTS
    Graph <- RelayGraph
    Compiled <- RelayTable
    Script <- RelayScript
    Starts <- TwoRuns
CHECK_DEADLOCK FALSE
INVARIANTS
    CallsAreExpected
