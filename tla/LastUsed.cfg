SPECIFICATION Spec
CONSTANTS
    None = None
    Requests = {r1, r2, r3, r4}
    Hashes = {h1, h2, h3}
    Addresses = {a1, a2}
    Junk = {junk}
    MaxClaimed = 1
    ProxyHops = 1
    TrustedProxyHops = 1
    MaxEntries = 2
    MaxTime = 1
SYMMETRY Symmetry
INVARIANTS RecordSurvives 
CHECK_DEADLOCK FALSE
