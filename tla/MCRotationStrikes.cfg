SPECIFICATION FairSpec
CONSTANTS
    a = a
    b = b
    c = c
    d = d
    Pool <- FourLinks
    NoLink = NoLink
    Outcomes <- TwoWork
    BlacklistStrikes = 3
    BatchSize = 1
    HealthCheckInterval = 30
    HealthFailThreshold = 2
    LocalInbound = FALSE
PROPERTY
    BrokenLeavesPool
