CONSTANTS
    None = None
    Heartbeat = 2
    ResponseTimeout = 3
    ControlSettle = 1
    ConfirmationTimeout = 2
    MaxControlAttempts = 2
    MaximumRuntime = 6
    StartingStopTimeout = 1
    InvalidFrameThreshold = 1
    ExtendBy = 1
    Runtimes = {3}
    Deadlines = {None}
    Targets = {t1}
    Modes = {"temperature"}
    Bindings = {b1}
    MaxRevision = 2
    MaxAnomalies = 1
    MaxQueue = 1
SPECIFICATION LiveSystemSpec
CHECK_DEADLOCK FALSE
PROPERTIES
    StopIsServed
    SessionsEnd
    ShutdownEnds
    FencesFall
