SPECIFICATION Spec
CONSTANTS
    Flows <- MCFlows
    Packets <- MCPackets
    UnspecifiedIp = 9
    DeniedHosts = {1}
    DnsCap = 2
    Grain = 2
    Buckets = 2
    TopN = 1
    MaxLag = 2
    MaxPackets = 2
    MaxFlows = 2
INVARIANTS TypeOK FlowsAreNamed NamesAreCurrent SnapshotCountsLog ActivityInOrder
PROPERTIES ExpiredAreEvicted FlowsAreCounted
