CONSTANTS
    FF = 7
    Cap = 23
    CardSpan = 32
    Slash = 3
    Names <- MCNames
    Contents <- MCContents
    MaxFaults = 2
    HeaderFaults = FALSE
    BitAnd <- MCBitAnd
SPECIFICATION Spec
INVARIANTS
    TypeOK
    BlowsFreeByte
    FreeIsErased
    ReportsTrue
    FindsOldestLive
    WalkMeetsAllLive
PROPERTIES
    ImplementsLog
CHECK_DEADLOCK FALSE
