SPECIFICATION TunnelSpec
CONSTANTS
    a = a
    b = b
    c = c
    Links <- ThreeLinks
    NoLink = NoLink
    FixedChain <- WithBlank
    Modes <- AllModes
    ChainHops = 0
    ChainAttempts = 1
    HealthCheckInterval = 30
    HealthFailThreshold = 2
    Outers <- SomeOuters
    MaxTyped = 1
INVARIANTS
    RunnerSound
PROPERTIES
    RotationSound
    ImplementsListener
    CancelReturns
    DeadmanWorks
    CaptureEnds
