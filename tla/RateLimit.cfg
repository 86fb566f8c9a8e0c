SPECIFICATION Spec
CONSTANTS
    None = None
    b1 = b1
    b2 = b2
    b3 = b3
    Calls = {c1, c2, c3}
    Bearers = {b1, b2, b3}
    SubOf <- MCSubOf
    Categories = {"write", "initialize"}
    Quota <- MCQuota
    Period <- MCPeriod
    KeyCap = 1
    MaxTime = 2
SYMMETRY Symmetry
INVARIANTS TypeOK SubjectWithinQuota DeniedOnlyAfterBurst
CHECK_DEADLOCK FALSE
