SPECIFICATION Spec
CONSTANTS
    Worker = {w1, w2, w3}
    Dispatcher = {d1, d2, d3}
    NoWorker = NoWorker
    MaxUpdates = 3
    MayStop = TRUE
SYMMETRY PoolSymmetry
INVARIANT TypeOK
INVARIANT ExactlyOnce
INVARIANT ClaimsExclusive
CHECK_DEADLOCK FALSE
