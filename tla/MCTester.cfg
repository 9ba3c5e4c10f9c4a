SPECIFICATION Spec
CONSTANTS
    Links = {1, 2, 3}
    endpointForLink <- MCEndpointForLink
    Options <- MCOptions
    ThreadCount = 2
    PrescanWorkers = 1
    Panel = 2
    Percent = 100
    Retries = 1
    MaxPassed = 1
    saveBatchSize = 2
CHECK_DEADLOCK FALSE
INVARIANTS
    PrescanSound
    ResultsKept
PROPERTY TestsEnd
