SPECIFICATION FairSpec
CONSTANTS
    Incoming = {n1, n2}
    Configured = {}
    Free = Free
    MaxHandlers = 0
PROPERTY GoneForGood
CHECK_DEADLOCK FALSE
