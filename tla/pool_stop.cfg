SPECIFICATION Spec
CONSTANTS
    Worker = {w1, w2}
    Dispatcher = {d1, d2}
    NoWorker = NoWorker
    MaxUpdates = 2
    MayStop = TRUE
PROPERTY StoppedWorkerStops
CHECK_DEADLOCK FALSE
