CONSTANTS
    Sectors = 3
    SectorBanks = 2
    Roms = {0, 3, 6}
    Intel = TRUE
    FormatFull = FALSE
    Retries = 2
    Faults = {"erase", "blow", "ram", "reset"}
    MaxHurt = 2
SPECIFICATION FairSpec
INVARIANTS
    FormatMakesArea
    CardConsistent
    PassiveKept
PROPERTIES
    BlowsErased
    FilesKept
    AppsKept
    CommandEnds
CHECK_DEADLOCK FALSE
