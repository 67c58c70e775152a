CONSTANTS
    s1 = s1
    s2 = s2
    Senders = {s1, s2}
    MaxPackets = 2
    MaxTransfers = 2
    MaxRetries = 1
    FifoDepth = 2
    FaultKinds = {"loss", "slow", "cancel", "stop", "noise"}
    MaxFaults = 2
SPECIFICATION Spec
SYMMETRY Symmetry
INVARIANTS
    CompletedMeansPublished
    PublishedIsIntact
CHECK_DEADLOCK FALSE
