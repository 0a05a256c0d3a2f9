CONSTANTS
    Client = Client
    Server = Server
    MaxApp = 2
    MaxPlain = 2
    SeqLimit = 8
    MaxTamper = 0
    EarlyClose = FALSE
    Mono = {Server}
    LinkMayFail = TRUE
    Script <- MC_Script
SPECIFICATION SSpec
INVARIANTS
    IOTypeOK
    FlushedDataSent
PROPERTY
    CallsReturn
\* Both applications stop after their last call.
CHECK_DEADLOCK FALSE
