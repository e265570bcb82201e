SPECIFICATION Spec
CONSTANTS
    Processes = {daemon, pair}
    Commands = {pair}
    Peers = {q, r}
    MaxFailures = 0
PROPERTIES
    PeersRemembered
