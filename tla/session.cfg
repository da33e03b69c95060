SPECIFICATION Spec
CONSTANTS
    Firsts <- AnythingFirst
    Others <- BothOthers
    Wanted <- OddEvents
    RoomToClient = 2
    RoomToDaemon = 2
    LagCap = 1
    MaxEvents = 3
    MaxRequests = 2
    MaxChanges = 1
INVARIANTS TypeOK AnswersInOrder EventsInOrder RulesViewFresh
PROPERTIES EventsArrive
CHECK_DEADLOCK FALSE
