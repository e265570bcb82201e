SPECIFICATION Spec
CONSTANTS
    Items <- AllItems
    Rich = {"html"}
    Plain <- HtmlSpaced
    Trim <- AllTrim
    HashOf <- AllHash
    StartModes = {"polling"}
    Listings = {TRUE, FALSE}
    SkipThreshold = 2
    ChanCap = 1
    Stamps = {1, 2, 3, 4, 5, 6, 7}
    MaxCopies = 3
    MaxErrors = 1
    Nothing = Nothing
    Oversize = {"big"}
    RingSize = 1
    MaxRestarts = 1
CHECK_DEADLOCK FALSE
INVARIANTS
    ReadsReachMonitor
    OneSavePerRead
PROPERTY PollerCaptures
