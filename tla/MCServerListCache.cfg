CONSTANTS
    Procs = {p1, p2}
    CacheTTL = 1
    CacheMaxAge = 0
    DefaultTTL = 1
    DefaultMaxAge = 2
    FetchRetries = 2
    FetchedBodies = {"whole"}
    BackoffCount = 5
    MaxNow = 3
SPECIFICATION Spec
SYMMETRY ProcSymmetry
INVARIANTS
    TypeOK
    NeverTorn
    NoTempLeft
    CacheUseJustified
    RetriesExhausted
