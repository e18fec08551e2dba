SPECIFICATION FairSpec
CONSTANTS
    Timeout = 3
INVARIANTS
    TypeOK
    MarkedSingleConnection
    SecretOnlyToVerifiedPeer
    RefusedBeforeSending
PROPERTIES
    RequestEnds
    Refines
