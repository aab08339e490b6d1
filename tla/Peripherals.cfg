CONSTANTS
    None = None
    r1 = r1
    r2 = r2
    Roms <- MCRoms
    Roles = {"cabin"}
    StaleAfter = 1
    FailedAfter = 3
    MaxLate = 1
    MaxCount = 1
    ConversionWait = 1
    PollInterval = 1
    DiscoveryInterval = 2
    MaxDisturbances = 2
    d1 = d1
    d2 = d2
    Deviations = {d1, d2}
    MaxUtcRevision = 3
    MaxMishaps = 3
    s1 = s1
    s2 = s2
    s3 = s3
    Sockets = {s1, s2, s3}
    Slots = {1, 2}
    IdleTimeout = 1
    TotalTimeout = 2
    MaxChunks = 2
    AnswerChunks = 2
    MaxSocketErrors = 1
    c1 = c1
    c2 = c2
    Clients = {c1, c2}
    MaxPeers = 1
    MaxRequests = 1
    RequestWindow = 2
    MaxMutations = 1
    MutationWindow = 1
    ConfigCooldown = 3
    PeerStale = 3
    TickRange = 8
    a1 = a1
    a2 = a2
    Addresses = {a1, a2}
    Profiles = 2
    ApInterval = 2
    StationPoll = 1
    ConnectTimeout = 2
    ProfileGap = 1
    RoundBackoff = 1
    MaxBackoff = 3
    MaxExponent = 3
    MaxNetMishaps = 3
    Marker = 3
    Noise = {3}
    Answers <- MCAnswers
    InterByteTimeout = 2
    MaxEmptyReads = 2
    MaxWire = 8
    MaxLineFaults = 1
    MaxPinFaults = 3
    q1 = q1
    q2 = q2
    WiFiPorts = {q1, q2}
    MaxRadioFaults = 5
SPECIFICATION PartsSpec
INVARIANTS
    PartsTypeOK
    ClockIsTrustworthy
    ConnectionsAreOwned
    QuotasHold
    ChangeEndsHeat
    ListenerIsCurrent
    NeitherStarves
    GateIsShut
PROPERTIES
    OutagesAreSeen
    ReleasesAreCurrent
    FramesArrive
    RadioIsAccounted
    PartsGoOn
CHECK_DEADLOCK FALSE
