CONSTANTS
    s1 = s1
    s2 = s2
    Names = {a, b}
    Contents = {v, w}
    Torn = Torn
    NoFile = NoFile
    Slots = {s1, s2}
    ZeroSlots = {}
    Capacity <- MCCapacity
    EntrySize <- MCEntrySize
    Faults = {"image", "header", "ram"}
    ViewDeleted = FALSE
SPECIFICATION Spec
INVARIANTS
    TypeOK
    FindsNewest
    CopyFaithful
    RestoreFaithful
SYMMETRY MCSymmetry
