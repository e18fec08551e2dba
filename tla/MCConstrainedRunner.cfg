CONSTANTS
    Endpoints = {e1}
    NoEndpoint = NoEndpoint
    Budget = 6
    AdmitRun = 5
    AdmitToken = 5
    AdmitAddKey = 4
    AdmitConfig = 3
    AdmitResult = 2
    ReadTimeout = 1
    RequestTimeout = 1
    WriteTimeout = 1
    MaxLag = 1
SPECIFICATION FairSpec
INVARIANTS
    TypeOK
    WithinBudget
    TimeoutSpendsNothing
    OneResultRecord
    SuccessMeansDelivered
    ExitMatchesResult
    ClassTellsRegistration
PROPERTIES
    Terminates
    CancelStopsRun
    KeepsContract
