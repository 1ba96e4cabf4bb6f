\* The user may stop giving commands: his budget ends.
CHECK_DEADLOCK FALSE
SPECIFICATION Spec
CONSTANTS
    Org = 0
    Codesize = 8
    Images <- MCImages
    Commands = {"pp", "pl", "ppt", "pv", "dm", "dl", "dx", "de", "dc", "rem", "cc", "rc", "q"}
    Known = {0, 6}
    Names = {name}
    Texts = {text}
    Positions = {"<"}
    DataTypes = {"defw", "defb", "defs", "string"}
    Tidy = TRUE
    Begins <- MCBegins
    Budget = 3
    NoName = NoName
    name = name
    text = text
INVARIANTS
    SessionInv
    TargetsTraced
    PassesAgree
    SourceComplete
    SourceAssembles
    UnsavedIsFlagged
PROPERTIES
    StaysResolved
    ScanEnds
