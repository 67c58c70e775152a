SPECIFICATION MCSpec
SYMMETRY FileNames
CONSTANTS
    Cap = 3
    Seqs = 8
    Word = 64
    Base = 32
    Inputs <- EdgePackets
    LogicalNames <- EdgeNames
    ServiceCapacity = 2
    BufferSize = 3
    MaxFileSize = 3
    Kinds = {"file", "memory", "stream"}
    MaxTransfers = 2
    MaxFaults = 1
    west = west
    east = east
    mid = mid
    long = long
    same = same
    short = short
    order = order
    NoMessage = NoMessage
    Boards = {west, east, mid}
    Messages = {long, same, short, order}
    Remote = {order}
    InRange <- HiddenSenders
    Outboxes <- TwoOutboxes
    Id <- AllIds
    Chunks <- AllChunks
    FifoDepth = 3
    DrainMax = 2
    MaxAttempts = 2
    MaxTextMishaps = 1
    Streams <- EdgeFiles
    Size <- FileSizes
    LegacyCap = 2
    MaxSeq = 3
    Waits = TRUE
    MaxGap = 1
    MaxLegacyMishaps = 2
    fileA = fileA
    fileB = fileB
    Files = {fileA, fileB}
    MaxRequests = 2
    MaxOthers = 1
    MaxStops = 1
    MaxDisconnects = 1
    Names = {1, 2, 3}
    ListedSizes = {1}
    PageSize = 1
    AnotherHost = TRUE
    MaxChanges = 2
    MaxOperations = 3
    MaxTimeouts = 1
INVARIANTS
    SizesAgree
    CodecTrue
    TextsTrue
    LegacyTrue
    CompletedIsTrue
    ListingTrue
PROPERTIES
    ReportGoesForward
    ServiceTrue
CHECK_DEADLOCK FALSE
