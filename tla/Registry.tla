------------------------------- MODULE Registry -------------------------------
(***************************************************************************)
(* The registry as one state machine: reg is the state after the entries   *)
(* applied so far, and each action is the application of one command by    *)
(* fsm.Update.  Entries of the prime shard's log that are not registry     *)
(* commands are left out; indexes are only ever compared.  HostDel,        *)
(* ShardStatusUpdate and ReplicaPut have a constructor in fsm_cmd.go and a *)
(* case in Update but no caller; they are modelled as Update defines them. *)
(***************************************************************************)
EXTENDS RegistryFSM

CONSTANT Term    \* terms a leader can be reported for

ASSUME TermAssumption == Term \subseteq Nat

VARIABLE reg

Init == reg = EmptyState

Apply(t) == ~reg.panicked /\ reg' = Commit(reg, t)

\* Callers know shards and replicas by the IDs they were given at some time; the
\* row may be gone when the command is applied.
KnownShard == 0 .. reg.shardID
KnownReplica == 1 .. reg.replicaID

ApplyHostPut == \E h \in Host, tags \in TagMap : Apply(HostPut(reg, h, tags))
ApplyHostDel == \E h \in Host : Apply(HostDel(reg, h))
ApplyHostTags ==
    \E act \in TagAction, h \in Host, tags \in TagMap : Apply(HostTags(reg, act, h, tags))

ApplyShardPost ==
    \E name \in Name \cup {NoName}, tags \in TagMap : Apply(ShardPost(reg, name, tags))
ApplyShardTouch == \E id \in KnownShard : Apply(ShardTouch(reg, id))
\* primeInit and ShardUpdate; the tags of shard 0 stay nil.
ApplyShardPut ==
    \E id \in KnownShard, name \in Name \cup {NoName}, term \in Term \cup {0}, tags \in TagMap :
        /\ id = PrimeShard => DOMAIN tags = {}
        /\ Apply(ShardPut(reg, id, name, term, tags))
ApplyShardStatusUpdate == \E id \in KnownShard : Apply(ShardStatusUpdate(reg, id))
ApplyShardLeaderSet ==
    \E id \in KnownShard, term \in Term : Apply(ShardLeaderSet(reg, id, term))
ApplyShardDel == \E id \in KnownShard : Apply(ShardDel(reg, id))
ApplyShardTags ==
    \E act \in TagAction, id \in KnownShard, tags \in TagMap :
        Apply(ShardTags(reg, act, id, tags))

ApplyReplicaPost ==
    \E h \in Host, id \in KnownShard, nonVoting \in BOOLEAN :
        Apply(ReplicaPost(reg, h, id, nonVoting))
\* Both callers report a replica as active.
ApplyReplicaStatusUpdate ==
    \E r \in KnownReplica : Apply(ReplicaStatusUpdate(reg, r, "active"))
ApplyReplicaPut ==
    \E r \in KnownReplica, h \in Host, id \in KnownShard, nonVoting \in BOOLEAN :
        Apply(ReplicaPut(reg, r, h, id, nonVoting))
ApplyReplicaDel == \E r \in KnownReplica : Apply(ReplicaDel(reg, r))
ApplyReplicaTags ==
    \E act \in TagAction, r \in KnownReplica, tags \in TagMap :
        Apply(ReplicaTags(reg, act, r, tags))

Next ==
    \/ ApplyHostPut \/ ApplyHostDel \/ ApplyHostTags
    \/ ApplyShardPost \/ ApplyShardTouch \/ ApplyShardPut \/ ApplyShardStatusUpdate
    \/ ApplyShardLeaderSet \/ ApplyShardDel \/ ApplyShardTags
    \/ ApplyReplicaPost \/ ApplyReplicaStatusUpdate \/ ApplyReplicaPut
    \/ ApplyReplicaDel \/ ApplyReplicaTags

Spec == Init /\ [][Next]_reg

-----------------------------------------------------------------------------
(* Invariants.                                                              *)

Bootstrapping(s, id) ==
    {r \in ReplicasOfShard(s, id) : s.replica[r].Status = "bootstrapping"}

\* Every reachable registry state is well formed (the tables of
\* fsm_state_radix.go hold rows of their own type under keys of their own kind).
TypeOK == StateType(reg)

\* Every replica row names a host that has a row: a host delete takes the host's
\* replicas with it (fsm.go:97-102), so the hostTouch of a later command on one
\* of them does not panic (fsm_state_radix.go:287-298).
ReplicaHostExists == HostRef(reg)

\* No row was ever written with an ID the counters of shardIncr and replicaIncr
\* have not passed, so the next post cannot overwrite a row.
IDsBelowCounters == IDsAllocated(reg)

\* No row carries a time after the last applied entry, nor was it created after
\* it was updated: the controllers compare Updated with an index they have seen
\* (host_controller.go:67-70, shard_controller_manager.go:75).
UpdatedWithinIndex == Watermark(reg)

\* At most three replicas of a shard are ever waiting to bootstrap it, all of
\* them voting, however posts, deletes and puts are ordered (fsm.go:219-223).
AtMostThreeBootstrap ==
    \A id \in 0 .. reg.shardID :
        /\ Cardinality(Bootstrapping(reg, id)) <= BootstrapSize
        /\ Bootstrapping(reg, id) \subseteq ShardMembers(reg, id)

-----------------------------------------------------------------------------
(* Action properties: what a step from state s to state t may not do.       *)

FreshStep(s, t) ==
    /\ \A r \in DOMAIN t.replica \ DOMAIN s.replica : r > s.replicaID
    /\ \A id \in DOMAIN t.shard \ DOMAIN s.shard :
         id > s.shardID \/ (id = PrimeShard /\ s.shardID = 0)

\* "Zongzi replica IDs are unique per cluster" (README.md:67): a row that appears
\* has an ID no replica had before, and likewise for shards but the prime one.
FreshIDs == [][FreshStep(reg, reg')]_reg

\* The replicas that t lost, those it has and s had not or had otherwise, and the
\* hosts whose tags differ.
Gone(s, t) == DOMAIN s.replica \ DOMAIN t.replica
Changed(s, t) ==
    {r \in DOMAIN t.replica : r \in DOMAIN s.replica => s.replica[r] # t.replica[r]}
Retagged(s, t) ==
    {h \in DOMAIN s.host \cap DOMAIN t.host : s.host[h].Tags # t.host[h].Tags}

HostsStep(s, t) ==
    \A h \in HostsOf(s, Gone(s, t)) \cup HostsOf(t, Changed(s, t)) :
        h \in DOMAIN t.host => t.host[h].Updated = t.index

ShardsStep(s, t) ==
    \A id \in ShardsOf(s, Gone(s, t)) \cup ShardsOf(t, Changed(s, t))
              \cup UNION {ShardsOf(s, ReplicasOfHost(s, h)) : h \in Retagged(s, t)} :
        id \in DOMAIN t.shard => t.shard[id].Updated = t.index

\* The host controller looks at its replicas only when its host row has a new
\* Updated (host_controller.go:67-70).  So a step that creates, changes or
\* deletes a replica gives the row of the replica's host, if it still has one,
\* the index of that step.
HostsAreNotified == [][HostsStep(reg, reg')]_reg

\* The shard controller and the client manager visit a shard only when its row
\* has a new Updated (ShardIterateUpdatedAfter).  So a step that creates, changes
\* or deletes a replica, or changes the tags of a host that has replicas, gives
\* the rows of the shards of these replicas the index of that step.
ShardsAreNotified == [][ShardsStep(reg, reg')]_reg
=============================================================================
