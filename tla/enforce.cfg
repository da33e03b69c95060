SPECIFICATION Spec
CONSTANTS
    t1 = t1
    t2 = t2
    p1 = p1
    p2 = p2
    curl = curl
    none = none
    ads = ads
    web = web
    local = local
    Threads <- TwoThreads
    Pids = {p1, p2}
    PidOf <- OneEach
    Programs = {curl}
    Dsts = {ads, local}
    Unwatched <- Loopback
    RuleSets <- MCRuleSets
    NoProgram = none
    RingCap = 2
    CacheCap = 1
    CacheFaults = TRUE
    MaxCalls = 3
    MaxExecs = 1
    MaxSwaps = 1
    MaxCrashes = 1
INVARIANTS IInv TypeOK NoLostWakeup EvaluatedOnce DeniedStaysBlocked BlocksOnlyDenied
PROPERTIES ReportsAreEvaluated ImplementsGate
CHECK_DEADLOCK FALSE
