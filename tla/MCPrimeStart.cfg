CONSTANTS
    p1 = p1
    p2 = p2
    p3 = p3
    j1 = j1
    MaxIndex = 1
    Host = {p1, p2, p3}
    Name = {zongzi}
    NoName = NoName
    TagKey = {}
    TagValue = {}
    Prime = zongzi
    Peers <- ThreePeers
    MaxFaults = 0
SPECIFICATION FairSpec
ACTION_CONSTRAINT OneInitializer
CHECK_DEADLOCK FALSE
PROPERTY AllReady
