CONSTANTS
    usb = usb
    bt = bt
    c1 = c1
    c2 = c2
    Hosts = {usb, bt}
    Wireless = {bt}
    Source <- MixedSources
    Stored <- OldFile
    Work <- AllTasks
    MaxWork = 1
    HostTransferMaxRetries = 1
    SessionLife = 2
    Faults = TRUE
    Mishaps <- OfEachKind
    MaxMishaps = 1
    LossyVerbs = {"BEGIN", "DATA", "END", "CANCEL", "ERROR"}
    NoFile = NoFile
    NoChunk = NoChunk
    NoSession = NoSession
    NoHost = NoHost
SPECIFICATION Spec
INVARIANTS
    TransfersSteady
    ReportTrue
PROPERTIES
    ImplementsStaging
CHECK_DEADLOCK FALSE
