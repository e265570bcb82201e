SPECIFICATION Spec
CONSTANTS
    MaxSec = 2
    Offsets <- TwoZones
    DataLens = {1, 7}
    Overhead = 2
    KeyLen = 1
    ConfigMaxSize = 26
    DefaultMaxSize = 100
    DefaultKeepItems = 2
    MaxSaves = 5
    MaxFaults = 0
    NoContent = NoContent
    ZeroTime = ZeroTime
    MinSizes = {0, 5}
    Limits = {0, 1}
INVARIANT LatestIsLastSaved
