SPECIFICATION Spec
CONSTANTS
    p1 = p1
    p2 = p2
    p3 = p3
    shared = shared
    NoPid = NoPid
    Pids <- ThreePids
    Given <- OneName
    Modes = {"inbound", "system", "app"}
    MaxAlive = 2
    NumKeys = 2
    SkipEmpty = {2}
    SetsDefault = {2}
    MayFail = TRUE
SYMMETRY PidSymmetry
CONSTRAINT Claimed
INVARIANTS
    SettingsRecoverable
    StartHeals
    RoutedWhileRunning
    NamespaceKept
    OrphansRecordedInTurn
CHECK_DEADLOCK FALSE
