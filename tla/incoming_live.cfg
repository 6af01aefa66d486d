SPECIFICATION HFairSpec
CONSTANTS
    Incoming = TRUE
    LocalEnableKeepAlive = TRUE
    HandlerEvent = FALSE
    DialMayFail = FALSE
    Conn = {c1}
    NoConn = NoConn
    MayFallSilent = TRUE
    PeerSends = {"OPEN", "KEEPALIVE"}
    UpdateCap = 1
    OutCap = 1
    MaxRoutes = 0
INVARIANT OpenOnceAndFirst
INVARIANT HandshakeComplete
PROPERTY SilentPeerRemoved
PROPERTY RecvRoutineStops
CHECK_DEADLOCK FALSE
