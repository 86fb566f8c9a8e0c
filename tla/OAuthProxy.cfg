SPECIFICATION Spec
CONSTANTS
    None = None
    Authorizers = {a1, a2, a3}
    Callbacks = {c1, c2}
    States = {s1, s2, s3}
    AllowCollision = FALSE
    LoopbackHosts <- MCLoopbackHosts
    Uris <- MCUris
    AllowedRedirectUris <- MCAllowed
    ClientStates = {x, big}
    OversizedStates = {big}
    PendingTTL = 2
    PendingCap = 2
    MaxTime = 2
SYMMETRY Symmetry
INVARIANTS IndexAgree PendingBounded DeliveredToAsker DeliveredToListed SingleUse FlowSurvives
CHECK_DEADLOCK FALSE
