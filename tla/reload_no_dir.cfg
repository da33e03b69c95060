SPECIFICATION Spec
CONSTANTS
    mine = mine
    auto = auto
    Files <- Toml
    TomlFiles <- Toml
    AutoFiles <- Auto
    Contents <- MCFewContents
    Flows <- MCFlows
    DirAtStart <- Missing
    ReportsOpen = {TRUE}
    IoFaults = FALSE
    MaxQueue = 2
    MaxChan = 2
    MaxEdits = 1
PROPERTIES AckedRulesArrive
CHECK_DEADLOCK FALSE
