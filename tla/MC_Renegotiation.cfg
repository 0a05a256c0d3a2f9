CONSTANTS
    Client = Client
    Server = Server
    FlagWords <- MC_FlagWords
    LegacyChoices <- MC_LegacyChoices
    MaxReq = 4
SPECIFICATION Spec
INVARIANTS
    RenegTypeOK
    SecureRenegotiationOnly
    IncomingAlwaysProcessed
\* The parties stop after MaxReq requests, or when an engine failed.
CHECK_DEADLOCK FALSE
