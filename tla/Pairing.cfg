SPECIFICATION Spec
CONSTANTS
    Peers = {a, b}
    AutoAccept = {b}
    MaxExchanges = 2
    MaxSessions = 2
    NoPeer = NoPeer
INVARIANTS
    TypeOK
    ListedByConsent
    RequesterSeesTruth
PROPERTIES
    RequestEnds
    SessionEnds
CHECK_DEADLOCK FALSE
