CONSTANTS
    s1 = s1
    s2 = s2
    Names = {a, b}
    Contents = {v}
    Torn = Torn
    NoFile = NoFile
    Slots = {s1, s2}
    ZeroSlots = {}
    Capacity <- MCCapacityFaults
    EntrySize <- MCEntrySize
    Faults = {"image", "delete", "reset"}
    ViewDeleted = FALSE
SPECIFICATION FairSpec
INVARIANT LatestKept
PROPERTIES
   CommandEnds
   ImplementsLogs
