CONSTANTS
    Client = Client
    Server = Server
    MaxApp = 2
    MaxPlain = 2
    SeqLimit = 4
    MaxTamper = 0
    EarlyClose = FALSE
    Mono = {}
SPECIFICATION FairSpec
INVARIANTS
    TypeOK
    HonestPeersNeverFail
    NonceUnique
    NoCleartextAppData
    DeliveredInOrder
    CleanCloseDeliversAll
PROPERTIES
    ClosureCompletes
    ImplementsSecureChannel
CHECK_DEADLOCK FALSE
