SPECIFICATION FairSpec
CONSTANTS
    c1 = c1
    c2 = c2
    Clients <- TwoClients
    Manager = Manager
    MaxRuns = 3
    Concurrent = FALSE
    GraceSuffices = TRUE
INVARIANTS
    OneLiveRun
    OwnService
    StateTruthful
    UiSettles
    
PROPERTY
    StopEnds
