CONSTANTS
    None = None
    Heartbeat = 2
    ResponseTimeout = 3
    ControlSettle = 1
    ConfirmationTimeout = 1
    MaxControlAttempts = 2
    MaximumRuntime = 6
    StartingStopTimeout = 1
    InvalidFrameThreshold = 1
    ExtendBy = 1
    Runtimes = {5}
    Deadlines <- MCDeadlines
    Targets = {t1}
    Modes = {"temperature"}
    Bindings = {b1, b2}
    MaxRevision = 3
SYMMETRY BindingsAreAlike
SPECIFICATION Spec
INVARIANTS
    TypeOK
    StoppingIsFinal
    SessionAgreement
    NoStepRaises
    SupervisedStart
PROPERTIES
    EndsAtOff
    CommandJustified
    SeriesAreBounded
