CONSTANTS
    Endpoints = {e1}
    NoEndpoint = NoEndpoint
    Budget = 6
    AdmitRun = 5
    AdmitToken = 5
    AdmitAddKey = 4
    AdmitConfig = 3
    AdmitResult = 2
    ReadTimeout = 1
    RequestTimeout = 1
    WriteTimeout = 1
    MaxLag = 0
SPECIFICATION Spec
INVARIANT FailureLeavesNoSuccess
