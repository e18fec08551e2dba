CONSTANTS
    Procs = {p1}
    CacheTTL = 0
    CacheMaxAge = 0
    DefaultTTL = 1
    DefaultMaxAge = 2
    FetchRetries = 0
    FetchedBodies = {"bad", "whole"}
    BackoffCount = 5
    MaxNow = 3
SPECIFICATION FairSpec
PROPERTIES
    RunReturns
    FetchedListServed
