CONSTANTS
    Procs = {p1}
    CacheTTL = 1
    CacheMaxAge = 2
    DefaultTTL = 1
    DefaultMaxAge = 2
    FetchRetries = 3
    FetchedBodies = {"whole"}
    BackoffCount = 5
    MaxNow = 3
SPECIFICATION Spec
INVARIANT ConnectErrorsRetried
