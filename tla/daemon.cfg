SPECIFICATION DaemonSpec
CONSTANTS
    mine = mine
    auto = auto
    t1 = t1
    p1 = p1
    curl = curl
    none = none
    ads = ads
    Files = {auto}
    TomlFiles = {auto}
    AutoFiles = {auto}
    Contents <- DaemonContents
    Flows <- FlowsOf
    DirAtStart <- EitherWay
    ReportsOpen = {TRUE, FALSE}
    IoFaults = TRUE
    MaxQueue = 1
    MaxChan = 1
    MaxEdits = 2
    Threads <- OneThread
    Pids <- OnePid
    PidOf <- Its
    Programs = {curl}
    Dsts = {ads}
    Unwatched <- NoDst
    NoProgram = none
    FlowOf <- MCFlowOf
    RingCap = 1
    CacheCap = 1
    CacheFaults = FALSE
    MaxCalls = 2
    MaxExecs = 0
    MaxSwaps = 1
    MaxCrashes = 1
INVARIANTS DaemonIInv BlocksHaveRules
PROPERTIES DirectoryIsEnforced ImplementsEnforcement
CHECK_DEADLOCK FALSE
