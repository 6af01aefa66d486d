SPECIFICATION FairSpec
CONSTANTS
    Incoming = FALSE
    LocalEnableKeepAlive = TRUE
    HandlerEvent = FALSE
    DialMayFail = TRUE
    MayFallSilent = FALSE
    Conn = {c1}
    NoConn = NoConn
    PeerSends = {"OPEN", "KEEPALIVE"}
    UpdateCap = 1
    OutCap = 1
    MaxRoutes = 0
PROPERTY ImplementsSession
PROPERTY Redials
PROPERTY EvolveReturns
CHECK_DEADLOCK FALSE
