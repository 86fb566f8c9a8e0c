SPECIFICATION FairSpec
CONSTANTS
    None = None
    k1 = k1
    k2 = k2
    Requests = {r1, r2}
    Kids = {k1, k2}
    PublishedFrom <- RotationFrom
    PublishedUntil <- RotationUntil
    Tokens <- RotationTokens
    MaxCacheTTL = 1
    CacheCap = 1
    JwksTTL = 2
    MinRefresh = 2
    FetchTimeout = 1
    Leeway = 1
    MaxTime = 6
INVARIANTS CacheWithinExpiry RetiredKeyDies
PROPERTIES RefreshSpaced RefusalExplained RequestsAnswered
CHECK_DEADLOCK FALSE
