SPECIFICATION Spec
CONSTANTS
    c1 = c1
    c2 = c2
    Clients <- TwoClients
    Manager = Manager
    MaxRuns = 3
    Concurrent = TRUE
    GraceSuffices = TRUE
INVARIANT
    OneLiveRun
