SPECIFICATION Spec
CONSTANTS
    Incoming = {n1, n2}
    Configured = {m1}
    Free = Free
    MaxHandlers = 2
INVARIANT TypeOK
INVARIANT NobodyLost
INVARIANT RemovedIsUnlisted
PROPERTY HandlerReachesListed
