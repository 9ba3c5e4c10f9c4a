SPECIFICATION HubFairSpec
CONSTANTS
    c1 = c1
    c2 = c2
    Client <- TwoClients
    BroadcastCap = 2
    SendCap = 2
    MaxMessages = 5
INVARIANTS
    HubSound
    InOrderNoGap
PROPERTIES
    DroppedLeaves
CHECK_DEADLOCK FALSE
