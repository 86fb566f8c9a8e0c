SPECIFICATION Spec
CONSTANTS
    None = None
    p1 = p1
    p2 = p2
    Requests = {r1, r2}
    Credentials = {p1, p2}
    AppPasswords = {p1}
    AllowAppPassword = TRUE
    RevokedAt <- MCRevokedAt
    ExpiresAt <- MCExpiresAt
    ExpirySkew = 1
    Leeway = 1
    SessionTTL = 2
    SessionCap = 1
    Timeout = 1
    MaxTime = 4
SYMMETRY Symmetry
INVARIANTS TypeOK RefusalSticks
PROPERTY RevokedCredentialDies
CHECK_DEADLOCK FALSE
