SPECIFICATION FlowSpec
CONSTANTS
    None = None
    Origin = "https://host"
    Authorizers = {a1, a2}
    Callbacks = {c1, c2}
    MaxExchanges = 2
    States = {s1, s2}
    AllowCollision = FALSE
    LoopbackHosts <- MCLoopbackHosts
    Uris <- MCUris
    AllowedRedirectUris <- MCAllowed
    ClientStates = {}
    OversizedStates = {}
    PendingTTL = 1
    PendingCap = 1
    MaxTime = 1
    Written <- MCWritten
INVARIANTS HonestNotRefused AdvertisedWorks
PROPERTIES ImplementsGrant FlowsFinish
CHECK_DEADLOCK FALSE
