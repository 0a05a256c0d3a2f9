CONSTANTS
    Client = Client
    Server = Server
    MaxApp = 2
    MaxPlain = 2
    SeqLimit = 4
    MaxTamper = 0
    EarlyClose = TRUE
    Mono = {}
SPECIFICATION Spec
INVARIANT
    HonestPeersNeverFail
CHECK_DEADLOCK FALSE
