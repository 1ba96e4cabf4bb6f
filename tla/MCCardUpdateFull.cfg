CONSTANTS
    Sectors = 3
    SectorBanks = 2
    Roms = {0}
    Intel = TRUE
    FormatFull = TRUE
    Retries = 2
    Faults = {}
    MaxHurt = 0
SPECIFICATION Spec
PROPERTIES
    AppsKept
CHECK_DEADLOCK FALSE
