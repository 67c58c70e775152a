CONSTANTS
    usb = usb
    bt = bt
    c1 = c1
    c2 = c2
    Hosts = {usb, bt}
    Wireless = {bt}
    Source <- ShortSources
    Stored <- OldFile
    Work <- UploadTasks
    MaxWork = 1
    HostTransferMaxRetries = 1
    SessionLife = 2
    Faults = FALSE
    Mishaps <- NotLate
    MaxMishaps = 2
    LossyVerbs = {"DATA", "END"}
    NoFile = NoFile
    NoChunk = NoChunk
    NoSession = NoSession
    NoHost = NoHost
SPECIFICATION FairSpec
PROPERTIES
    SessionsSettle
CHECK_DEADLOCK FALSE
