CONSTANTS
    s1 = s1
    s2 = s2
    Names = {a, b}
    Contents = {v, w}
    Torn = Torn
    NoFile = NoFile
    Slots = {s1, s2}
    ZeroSlots = {s1}
    Capacity <- MCCapacity
    EntrySize <- MCEntrySize
    Faults = {}
    ViewDeleted = FALSE
SPECIFICATION Spec
INVARIANT FindsNewest
SYMMETRY MCSymmetry
