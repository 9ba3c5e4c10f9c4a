SPECIFICATION FairSpec
CONSTANTS
    a = a
    b = b
    c = c
    d = d
    Pool <- TwoLinks
    NoLink = NoLink
    Outcomes <- OneWorks
    BlacklistStrikes = 3
    BatchSize = 0
    HealthCheckInterval = 30
    HealthFailThreshold = 0
    LocalInbound = TRUE
PROPERTY
    Recovers
