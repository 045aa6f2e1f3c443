SPECIFICATION FairSpec
CONSTANTS
    h1 = h1
    h2 = h2
    h3 = h3
    none = none
    c1 = c1
    c2 = c2
    Host <- MCHost
    NoHost = none
    Local = h1
    Client <- MCClient
    LeaderClient <- MCLeaderClient
    Rows <- MCRows
    FirstRow <- Three
    PingTime <- MCPingTime
    PoolSize = 1
    Conn <- MCConn
    MaxCalls = 2
    MaxMoves = 1
    MaxFaults = 1
ACTION_CONSTRAINT Uses Calm FaultAfterChange
INVARIANTS
    TypeOK
    TablesCurrent
    WriteIsApplied
    LeaderWritesOnce
    ReadsAreFresh
    PooledAreOpen

    
    
CHECK_DEADLOCK FALSE
