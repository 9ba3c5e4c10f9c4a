SPECIFICATION FairSpec
CONSTANTS
    Subnets <- MCSubnets
    Options <- MCOptions
    ThreadCount = 2
    SpeedtestConcurrency = 1
    SpeedtestTop = 1
    saveBatchSize = 2
CHECK_DEADLOCK FALSE
INVARIANTS
    FinalFile
    DbAgrees
PROPERTY ScanEnds
