SPECIFICATION Spec
CONSTANTS
    Regions = {r1, r2}
    Region = r1
    Hosts = {h1}
    NoHost = NoHost
    MaxRuns = 1
INVARIANT
    ServersPopulated
