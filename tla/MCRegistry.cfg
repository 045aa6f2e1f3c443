CONSTANTS
    Host = {h1, h2}
    Name = {}
    NoName = NoName
    TagKey = {k}
    TagValue = {v}
    Term = {1}
    MaxIndex = 6
SPECIFICATION MCSpec
SYMMETRY HostSymmetry
CHECK_DEADLOCK FALSE
INVARIANTS
    TypeOK ReplicaHostExists IDsBelowCounters UpdatedWithinIndex AtMostThreeBootstrap
PROPERTIES
    FreshIDs HostsAreNotified ShardsAreNotified
