CONSTANTS
    Client = Client
    Server = Server
    MaxApp = 2
    MaxPlain = 2
    SeqLimit = 4
    MaxTamper = 1
    EarlyClose = FALSE
    Mono = {}
SPECIFICATION Spec
INVARIANT
    DeliveredInOrder
PROPERTY
    StickyError
CHECK_DEADLOCK FALSE
