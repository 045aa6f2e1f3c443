CONSTANTS
    h1 = h1
    h2 = h2
    h3 = h3
    h4 = h4
    Host = {h1, h2, h3, h4}
    Name = {}
    NoName = NoName
    NoHost = NoHost
    TagKey = {}
    TagValue = {}
    HostOrder <- FourHosts
    HostTagsOf <- Tags
    ErrorTag <- TheErrorTag
    Policies <- ThreeOrRead
    Edits <- NoEdits
    MaxShards = 1
    MaxTerm = 0
    MaxReplicas = 4
    MaxFaults = 1
SPECIFICATION Spec
ACTION_CONSTRAINTS
    ReplicaBound OneLeader FaultsOfJoiner
CHECK_DEADLOCK FALSE
INVARIANTS
      JoinerIsMember
PROPERTY ImplementsLife
