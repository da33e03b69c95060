SPECIFICATION Spec
CONSTANTS
    Firsts <- SubscribeFirst
    Others <- NoOthers
    Wanted <- EveryEvent
    RoomToClient = 4
    RoomToDaemon = 4
    LagCap = 2
    MaxEvents = 1
    MaxRequests = 3
    MaxChanges = 0
INVARIANT RulesViewFollowsDisk
CHECK_DEADLOCK FALSE
