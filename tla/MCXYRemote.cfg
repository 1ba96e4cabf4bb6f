\* User and programs stop.
CHECK_DEADLOCK FALSE
SPECIFICATION FairSpec
CONSTANTS
    Short = 2
    Ratio = 2
    BlkMod = 3
    Cans = 2
    Retries = 3
    MaxBlocks = 20
    Settings <- MCSettings
    Sizes = {0, 7}
    Tries = 2
    Hastes = {TRUE, FALSE}
    Faults = {"start", "number", "data", "tail", "lost", "noise", "answer lost", "answer noise", "calls"}
    MaxFaults = 2
INVARIANTS
    InOrder
    SavedWhole
PROPERTIES
    ReceivingEnds
    DamageRepaired
