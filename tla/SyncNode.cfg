SPECIFICATION Spec
CONSTANTS
    Callers = {c1, c2}
    Peers = {q, r}
    DiscoveryMethod = "mdns"
    SyncOverInternet = TRUE
    NoPeer = NoPeer
    Nobody = Nobody
INVARIANTS
    TypeOK
    NoAddAfterStop
    LoopSafeWhileStarted
    OnlyAddAndStopDeadlock
PROPERTIES
    CallsReturn
    StopEndsRoutines
CHECK_DEADLOCK FALSE
