SPECIFICATION Spec
CONSTANTS
    Items <- SmallItems
    Rich = {"html"}
    Plain <- HtmlPlain
    Trim <- SmallTrim
    HashOf <- SmallHash
    StartModes = {"wayland"}
    Listings = {TRUE}
    SkipThreshold = 2
    ChanCap = 1
    Stamps = {1, 2, 3, 4, 5, 6, 7}
    MaxCopies = 1
    MaxErrors = 0
    Nothing = Nothing
    Oversize = {}
    RingSize = 1
    MaxRestarts = 0
CHECK_DEADLOCK FALSE
PROPERTY HelperReplaced
