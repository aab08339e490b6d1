CONSTANTS
    d1 = d1
    d2 = d2
    None = None
    Incomplete = Incomplete
    Release1 = Release1
    Foreign = Foreign
    Documents = {d1, d2}
    InitialDevices <- AllDevices
    MaxMinute = 1
    MaxGeneration = 4

SPECIFICATION Spec
INVARIANTS
    GateIsDurable
    FenceNeverFalls
    CrashesAreSurvived
PROPERTIES
    Registers
CHECK_DEADLOCK FALSE
