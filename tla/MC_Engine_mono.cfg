CONSTANTS
    Client = Client
    Server = Server
    MaxApp = 2
    MaxPlain = 2
    SeqLimit = 4
    MaxTamper = 0
    EarlyClose = FALSE
    Mono = {Client, Server}
SPECIFICATION FairSpec
INVARIANT
    SharedBufferExclusive
PROPERTY
    ClosureCompletes
CHECK_DEADLOCK FALSE
