SPECIFICATION FairSpec
CONSTANTS
    a = a
    b = b
    c = c
    d = d
    Pool <- FourLinks
    NoLink = NoLink
    Outcomes <- Mixed
    BlacklistStrikes = 2
    BatchSize = 2
    HealthCheckInterval = 30
    HealthFailThreshold = 2
    LocalInbound = TRUE
INVARIANTS
    LoopSound
    PortFreeAtStart
    IdleIsServing
PROPERTIES
    LoopProgresses
    Recovers
    DownOnlyForReplacement
    ImplementsListener
