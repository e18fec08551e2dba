CONSTANTS
    Procs = {p1}
    CacheTTL = 3
    CacheMaxAge = 2
    DefaultTTL = 1
    DefaultMaxAge = 2
    FetchRetries = 1
    FetchedBodies = {"whole"}
    BackoffCount = 5
    MaxNow = 4
SPECIFICATION FairSpec
PROPERTY NeverServedInvalid
