CONSTANTS
    h1 = h1
    h2 = h2
    h3 = h3
    h4 = h4
    Host = {h1, h2, h3}
    Name = {}
    NoName = NoName
    NoHost = NoHost
    TagKey = {}
    TagValue = {}
    HostOrder <- ThreeHosts
    HostTagsOf <- Tags
    ErrorTag <- TheErrorTag
    Policies <- Three
    Edits <- NoEdits
    MaxShards = 1
    MaxTerm = 0
    MaxReplicas = 4
    MaxFaults = 1
SPECIFICATION FairSpecStop
ACTION_CONSTRAINTS
    ReplicaBound OneLeader OnlyStop
CHECK_DEADLOCK FALSE
PROPERTY StopEnds
