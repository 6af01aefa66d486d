SPECIFICATION FairSpec
CONSTANTS
    Incoming = TRUE
    LocalEnableKeepAlive = TRUE
    HandlerEvent = FALSE
    DialMayFail = FALSE
    Conn = {c1}
    NoConn = NoConn
    MayFallSilent = TRUE
    PeerSends = {"OPEN", "KEEPALIVE"}
    UpdateCap = 1
    OutCap = 2
    MaxRoutes = 2
PROPERTY HoldTimerFires
CHECK_DEADLOCK FALSE
