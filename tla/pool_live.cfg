SPECIFICATION FairSpec
CONSTANTS
    Worker = {w1}
    Dispatcher = {d1, d2, d3}
    NoWorker = NoWorker
    MaxUpdates = 3
    MayStop = FALSE
INVARIANT InOrder
PROPERTY DispatchReturns
PROPERTY EveryUpdateHandled
CHECK_DEADLOCK FALSE
