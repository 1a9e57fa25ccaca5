SPECIFICATION FedSpec
CONSTANTS
    Calls = {r1, r2, r3, r4}
    Open = open
CHECK_DEADLOCK FALSE
INVARIANTS
    ArgumentsStay
