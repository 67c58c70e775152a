CONSTANTS
    s1 = s1
    s2 = s2
    Senders = {s1}
    MaxPackets = 1
    MaxTransfers = 1
    MaxRetries = 1
    FifoDepth = 2
    FaultKinds = {"cancel", "loss"}
    MaxFaults = 2
SPECIFICATION Spec
INVARIANT CancelledIsNotPublished
CHECK_DEADLOCK FALSE
