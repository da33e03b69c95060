SPECIFICATION Spec
CONSTANTS
    mine = mine
    auto = auto
    Files <- Toml
    TomlFiles <- Toml
    AutoFiles <- Auto
    Contents <- MCContents
    Flows <- MCFlows
    DirAtStart <- EitherWay
    ReportsOpen = {TRUE, FALSE}
    IoFaults = TRUE
    MaxQueue = 1
    MaxChan = 2
    MaxEdits = 2
INVARIANTS IInv TypeOK RulesCurrent RulesOrdered VerdictFollowsDisk
PROPERTIES ChangesArrive
CHECK_DEADLOCK FALSE
