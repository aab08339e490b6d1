CONSTANTS
    None = None
    c1 = c1
    c2 = c2
    Clients = {c1, c2}
    MaxPeers = 1
    MaxRequests = 1
    RequestWindow = 2
    MaxMutations = 1
    MutationWindow = 1
    ConfigCooldown = 3
    PeerStale = 3
    TickRange = 8
SPECIFICATION LimiterSpec
INVARIANTS
    WrapIsSafe
CHECK_DEADLOCK FALSE
