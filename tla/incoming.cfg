SPECIFICATION Spec
CONSTANTS
    Incoming = TRUE
    LocalEnableKeepAlive = TRUE
    HandlerEvent = TRUE
    DialMayFail = FALSE
    Conn = {c1}
    NoConn = NoConn
    MayFallSilent = TRUE
    PeerSends = {"OPEN", "KEEPALIVE", "NOTIFICATION", "UPDATE", "ROUTEREFRESH"}
    UpdateCap = 1
    OutCap = 1
    MaxRoutes = 1
INVARIANT TypeOK
INVARIANT RemovedIsClosed
INVARIANT NoForgottenNeighbor
PROPERTY HoldTimerIsPatient
PROPERTY ImplementsSession
INVARIANT NoPanic
CHECK_DEADLOCK FALSE
