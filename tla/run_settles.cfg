SPECIFICATION FairSpec
CONSTANTS
    c1 = c1
    c2 = c2
    c3 = c3
    c4 = c4
    t1 = t1
    t2 = t2
    t3 = t3
    Root = t1
    NoLimit = NoLimit
    Calls = {c1, c2}
    Tasks = {t1, t2}
    Limit <- LimitStep
    Invalid = {}
    Poisoned = {}
    Misuse = {}
    RunIdMod = 2

CHECK_DEADLOCK FALSE
INVARIANTS
    RunningExact
PROPERTIES
    EveryCallSettles
