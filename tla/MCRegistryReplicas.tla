------------------------- MODULE MCRegistryReplicas -------------------------
(* RegistryReplicas for TLC: the log is cut off after MaxLog entries.       *)
EXTENDS RegistryReplicas, TLC

CONSTANTS MaxLog, h1, a, k, v

\* One command of each kind, all about host h1, shard 1 and replica 1.
HostPutCmd == [op |-> "hostPut", host |-> h1, tags |-> EmptyTable]
ReplicaPostCmd == [op |-> "replicaPost", host |-> h1, id |-> 1, nonVoting |-> FALSE]
ReplicaDelCmd == [op |-> "replicaDel", id |-> 1]

ShardPostCmd == [op |-> "shardPost", name |-> a, tags |-> EmptyTable]
ShardPutCmd == [op |-> "shardPut", id |-> 1, name |-> a, term |-> 0, tags |-> k :> v]
LeaderSetCmd == [op |-> "leaderSet", id |-> 1, term |-> 1]
ShardTouchCmd == [op |-> "shardTouch", id |-> 1]
ShardDelCmd == [op |-> "shardDel", id |-> 1]

EveryCommand ==
    {HostPutCmd, ShardPostCmd, ShardPutCmd, LeaderSetCmd, ShardTouchCmd, ShardDelCmd,
     ReplicaPostCmd, ReplicaDelCmd}

LogBound == Len(log') <= MaxLog

\* Agents restart without a snapshot and at most one abandoned proposal is around.
CallsBound == LogBound /\ Cardinality(late') <= 1 /\ snap' = snap

AgentSymmetry == Permutations(Agent)
=============================================================================
