SPECIFICATION Spec
CONSTANTS
    Processes = {daemon, pair}
    Commands = {pair}
    Peers = {q, r}
    MaxFailures = 1
INVARIANT SoleKeepsPeers
PROPERTY FileCatchesUp
