SPECIFICATION PlaygroundSpec
CONSTANTS
    Workers = {w1, w2}
    Callers = {ui}
    NoWorker = nobody
    Panicking = {}
    Sizes = {small, large}
    Colors = {black}
    NoLook = none
    Settings = {s1}
    NotYet = notyet
    Image = img
    MaxIds = 1
    MaxDerived = 0
    MaxCounter = 0
CHECK_DEADLOCK FALSE
PROPERTIES
    ClosedGoesAway
    ChoiceArrives
