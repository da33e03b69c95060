SPECIFICATION Spec
CONSTANTS
    mine = mine
    auto = auto
    Files <- Toml
    TomlFiles <- Toml
    AutoFiles <- Auto
    Contents <- MCFewContents
    Flows <- MCFlows
    DirAtStart <- Exists
    ReportsOpen = {TRUE}
    IoFaults = FALSE
    MaxQueue = 2
    MaxChan = 2
    MaxEdits = 1
PROPERTIES ReloadsCease
CHECK_DEADLOCK FALSE
