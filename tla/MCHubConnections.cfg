CONSTANTS
    MaxChanges = 1
    MaxFaults = 1
    MaxRotations = 1
    MaxConns = 2
    QueueSize = 1
SPECIFICATION FairSpec
INVARIANTS
    OneConnection
    PanelShowsTheBot
    OfflineIsForgotten
    RotationDropsAgent
PROPERTIES
    Reconnects
    HandlersEnd
CHECK_DEADLOCK FALSE
