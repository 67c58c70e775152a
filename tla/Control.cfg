CONSTANTS
    Channels <- TwoChannels
    Levels <- TwoLevels
    WirelessControl = TRUE
    MaxFaults = 1
SPECIFICATION Spec
INVARIANTS
    StateAgrees
PROPERTIES
    LoopLeavesNoCarrier
    FaultHeals
