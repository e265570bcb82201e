SPECIFICATION Spec
CONSTANTS
    Peers = {a, b}
    AutoAccept = {b}
    MaxExchanges = 2
    MaxSessions = 2
    NoPeer = NoPeer
PROPERTY AcceptsOnlyWhileEnabled
CHECK_DEADLOCK FALSE
