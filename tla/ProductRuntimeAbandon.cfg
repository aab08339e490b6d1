CONSTANTS
    None = None
    a1 = a1
    Addresses = {a1}
SPECIFICATION ProductSpec
INVARIANTS
    StoppedIsSafe
CHECK_DEADLOCK FALSE
