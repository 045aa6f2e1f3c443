SPECIFICATION FairSpec
CONSTANTS
    u1 = u1
    u2 = u2
    u3 = u3
    u4 = u4
    u5 = u5
    s1 = s1
    s2 = s2
    s3 = s3
    s4 = s4
    s5 = s5
    s6 = s6
    w1 = w1
    w2 = w2
    none = none
    h1 = h1
    h2 = h2
    User <- MCUser
    Attempts <- MCAttempts
    Watch <- MCWatch
    Server <- MCServer
    Local <- MCLocal
    Query = {1, 2}
    NoStream = none
    MaxIn = 2
    MaxOut = 1
    MaxFaults = 1
ACTION_CONSTRAINT Apart
INVARIANTS
    TypeOK
    
    InputsInOrder
    RetriedUnstarted
PROPERTIES
    StreamReturns
    HandlerEnds
CHECK_DEADLOCK FALSE
