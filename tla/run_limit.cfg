SPECIFICATION Spec
CONSTANTS
    c1 = c1
    c2 = c2
    c3 = c3
    c4 = c4
    t1 = t1
    t2 = t2
    t3 = t3
    Root = t1
    NoLimit = NoLimit
    Calls = {c1, c2, c3, c4}
    Tasks = {t1, t2}
    Limit <- LimitMixed
    Invalid = {c4}
    Poisoned = {c2}
    Misuse = {"submit_after_finish", "drop_unfinished", "callback_panic"}
    RunIdMod = 2

CHECK_DEADLOCK FALSE
INVARIANTS
    TypeOK
    RunningCoversLive
    LimitRespected
    CallbackIsLast
    RunIdsDistinct
PROPERTIES
    AdmissionIsAtomic
