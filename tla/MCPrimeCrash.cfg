CONSTANTS
    p1 = p1
    p2 = p2
    p3 = p3
    j1 = j1
    MaxIndex = 1
    Host = {p1, p2, p3}
    Name = {zongzi}
    NoName = NoName
    TagKey = {}
    TagValue = {}
    Prime = zongzi
    Peers <- ThreePeers
    MaxFaults = 1
SPECIFICATION Spec
ACTION_CONSTRAINT RegistryBound
CHECK_DEADLOCK FALSE
INVARIANTS
    TypeOK SameInitialMembers
