CONSTANTS
    p1 = p1
    p2 = p2
    p3 = p3
    j1 = j1
    MaxIndex = 1
    Host = {p1, j1}
    Name = {zongzi}
    NoName = NoName
    TagKey = {}
    TagValue = {}
    Prime = zongzi
    Peers <- OnePeer
    MaxFaults = 2
SPECIFICATION Spec
CHECK_DEADLOCK FALSE
INVARIANT JoinerOwnsReplica
