CONSTANTS
    None = None
    Heartbeat = 2
    ResponseTimeout = 3
    ControlSettle = 1
    ConfirmationTimeout = 1
    MaxControlAttempts = 2
    MaximumRuntime = 9
    StartingStopTimeout = 1
    InvalidFrameThreshold = 2
    ExtendBy = 1
    Runtimes = {8}
    Deadlines <- MCDeadlines
    Targets = {t1}
    Modes = {"power"}
    Bindings = {b1}
    MaxRevision = 2
SPECIFICATION Spec
PROPERTIES
    NoAutomaticRestart
