CONSTANTS
    Channels <- TwoChannels
    Levels <- TwoLevels
    WirelessControl = TRUE
    MaxFaults = 0
SPECIFICATION Spec
INVARIANTS
    CarrierRestoresPackets
