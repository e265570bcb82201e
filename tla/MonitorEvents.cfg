SPECIFICATION Spec
CONSTANTS
    Items <- NoteItems
    Rich = {"html"}
    Plain <- HtmlPlain
    Trim <- NoteTrim
    HashOf <- NoteHash
    StartModes = {"xfixes", "xprop", "wayland"}
    Listings = {TRUE, FALSE}
    SkipThreshold = 2
    ChanCap = 1
    Stamps = {1, 2, 3, 4, 5, 6, 7}
    MaxCopies = 2
    MaxErrors = 0
    Nothing = Nothing
    Oversize = {}
    RingSize = 1
    MaxRestarts = 0
CHECK_DEADLOCK FALSE
INVARIANT TypeOK
PROPERTIES
    PollerCaptures
    SpinningCaptures
    StopEndsGoroutines
