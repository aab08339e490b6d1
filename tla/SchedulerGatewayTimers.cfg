CONSTANTS
    t1 = t1
    t2 = t2
    None = None
    TimerIds <- TwoTimers
    Tables <- AcrossDst
    MinuteTicks = 2
    MaxClockStep = 3
    IntentValid = 1
    DstStart = 2
    DstEnd = 6
    DstShift = 2
    MaxDelay = 2
    MaxUtc = 9
    MaxRev = 1
SPECIFICATION LiveSpec
INVARIANTS
    NoOrphan
PROPERTIES
    HistoryIsKept
    ConflictsStartNothing
    OneShot
    StartsAreTimely
    ActiveIsReleased
CHECK_DEADLOCK FALSE
