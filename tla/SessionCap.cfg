SPECIFICATION FairSpec
CONSTANTS
    Nobody = Nobody
    Requests = {r1, r2, r3, r4}
    Ids = {i1, i2, i3, i4}
    MaxSessions = 2
INVARIANTS CapRespected
PROPERTIES ImplementsPool RequestsAnswered
CHECK_DEADLOCK FALSE
