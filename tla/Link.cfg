CONSTANTS
    Clients <- TwoClients
    LinesEach = 1
    CommandDepth = 1
    TxDepth = 1
    Pieces = 2
    MaxTroubles = 1
SPECIFICATION FairSpec
INVARIANTS
    ClientsApart
    FailureHasCause
PROPERTIES
    LinkServes
CHECK_DEADLOCK FALSE
