SPECIFICATION Spec
CONSTANTS
    Nil = Nil
    Inputs <- MCInputs
INVARIANT TypeOK
INVARIANT NoPanic
INVARIANT LenExact
INVARIANT RewrittenIsAccepted
INVARIANT RoundTrip
INVARIANT MrtRoundTrip
INVARIANT ConvertedAnnounces
INVARIANT NothingSkipped
PROPERTY LoopsAdvance
PROPERTY Decodes
CHECK_DEADLOCK FALSE
