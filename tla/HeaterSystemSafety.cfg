CONSTANTS
    None = None
    Heartbeat = 3
    ResponseTimeout = 5
    ControlSettle = 1
    ConfirmationTimeout = 3
    MaxControlAttempts = 2
    MaximumRuntime = 8
    StartingStopTimeout = 1
    InvalidFrameThreshold = 2
    ExtendBy = 1
    Runtimes = {7}
    Deadlines = {None}
    Targets = {t1}
    Modes = {"power"}
    Bindings = {}
    MaxRevision = 2
    MaxAnomalies = 2
    MaxQueue = 1
SPECIFICATION SystemSpec
CHECK_DEADLOCK FALSE
INVARIANTS
    StartsMeetOff
    OffIsTrustworthy
PROPERTIES
    HeatPromise
