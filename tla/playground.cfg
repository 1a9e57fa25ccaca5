SPECIFICATION PlaygroundSpec
CONSTANTS
    Workers = {w1, w2}
    Callers = {ui}
    NoWorker = nobody
    Panicking = {}
    Sizes = {small, large}
    Colors = {black}
    NoLook = none
    Settings = {s1}
    NotYet = notyet
    Image = img
    MaxIds = 2
    MaxDerived = 1
    MaxCounter = 1
SYMMETRY WorkerSymmetry
CHECK_DEADLOCK FALSE
INVARIANTS
    NoLostWakeup
    MonosRemembered
PROPERTIES
    RestartKeeps
    StaysClosed
