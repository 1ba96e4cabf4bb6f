\* Users and programs stop.
CHECK_DEADLOCK FALSE
SPECIFICATION Spec
CONSTANTS
    Short = 2
    Ratio = 2
    BlkMod = 3
    Cans = 2
    Retries = 4
    MaxBlocks = 20
    Eots = 4
    Settings <- MCSumSettings
    Faults = {"data"}
PROPERTIES
    EveryFileWhole
