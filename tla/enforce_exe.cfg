SPECIFICATION Spec
CONSTANTS
    t1 = t1
    t2 = t2
    p1 = p1
    p2 = p2
    curl = curl
    none = none
    ads = ads
    web = web
    local = local
    Threads <- TwoThreads
    Pids = {p1}
    PidOf <- Together
    Programs = {curl}
    Dsts = {ads, web}
    Unwatched <- Loopback
    RuleSets <- MCRuleSets
    NoProgram = none
    RingCap = 2
    CacheCap = 2
    CacheFaults = FALSE
    MaxCalls = 1
    MaxExecs = 1
    MaxSwaps = 1
    MaxCrashes = 0
INVARIANTS ExeIsTheCallers
CHECK_DEADLOCK FALSE
