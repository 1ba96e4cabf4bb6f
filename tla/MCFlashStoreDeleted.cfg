CONSTANTS
    s1 = s1
    s2 = s2
    Names = {a, b}
    Contents = {v, w}
    Torn = Torn
    NoFile = NoFile
    Slots = {s1, s2}
    ZeroSlots = {}
    Capacity <- MCCapacity
    EntrySize <- MCEntrySize
    Faults = {}
    ViewDeleted = TRUE
SPECIFICATION Spec
INVARIANT LatestKept
SYMMETRY MCSymmetry
