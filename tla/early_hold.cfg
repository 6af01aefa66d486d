SPECIFICATION Spec
CONSTANTS
    Incoming = FALSE
    LocalEnableKeepAlive = TRUE
    HandlerEvent = FALSE
    DialMayFail = FALSE
    Conn = {c1}
    NoConn = NoConn
    MayFallSilent = FALSE
    PeerSends = {"OPEN", "KEEPALIVE"}
    UpdateCap = 1
    OutCap = 1
    MaxRoutes = 0
PROPERTY HoldTimerIsPatient
CHECK_DEADLOCK FALSE
