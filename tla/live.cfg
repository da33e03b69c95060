SPECIFICATION Spec
CONSTANTS
    Facts <- MCFacts
    UnspecifiedIp <- MCUnspecifiedIp
    Alphabet <- MCAlphabet
    MAX_EVENTS = 2
    MaxRules = 2
    MaxFilter = 1
    MaxPushes = 3
    MaxAsked = 1
INVARIANTS TypeOK RowsAddUp MarksAreSound PromptsInLiveView
PROPERTIES DenyIsAboutPick SelectionStays NavigationLands
