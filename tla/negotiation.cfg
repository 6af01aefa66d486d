SPECIFICATION Spec
CONSTANTS
    ASN <- MCASN
    AddPathLists <- AnyList
    MaxSessions = 2
INVARIANT TypeOK
INVARIANT PeerASNExact
INVARIANT AddPathAgreement
INVARIANT AddPathWithinOffers
CHECK_DEADLOCK FALSE
