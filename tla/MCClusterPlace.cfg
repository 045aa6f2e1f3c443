CONSTANTS
    h1 = h1
    h2 = h2
    h3 = h3
    h4 = h4
    Host = {h1, h2, h3, h4}
    Name = {}
    NoName = NoName
    NoHost = NoHost
    TagKey = {}
    TagValue = {}
    HostOrder <- FourHosts
    HostTagsOf <- Tags
    ErrorTag <- TheErrorTag
    Policies <- ThreeOrCover
    Edits <- Uncover
    MaxShards = 1
    MaxTerm = 1
    MaxReplicas = 4
    MaxFaults = 1
SPECIFICATION FairSpec
ACTION_CONSTRAINTS
    ReplicaBound OneLeader LateEdits FaultsOfLeader
CHECK_DEADLOCK FALSE
INVARIANT TypeOK

     
