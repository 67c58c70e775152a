CONSTANTS
    s1 = s1
    s2 = s2
    Senders = {s1}
    MaxPackets = 2
    MaxTransfers = 2
    MaxRetries = 1
    FifoDepth = 2
    FaultKinds = {"loss", "slow", "radio", "cancel", "stop", "reboot", "source", "sink", "cleanup"}
    MaxFaults = 3
SPECIFICATION FairSpec
INVARIANTS
    TypeOK
    EndpointsAgree
    BoardTruthful
    CancelConfirmedIsFinal
PROPERTIES
    NoOrphanedPartial
    NotReopened
    ImplementsDelivery
    TransfersEnd
CHECK_DEADLOCK FALSE
