--------------------------- MODULE ShardController ---------------------------
(***************************************************************************)
(* The shard controller: on the agent that leads raft shard 0, the         *)
(* manager's tick (shard_controller_manager.go) runs Reconcile             *)
(* (shard_controller_default.go) for every shard that was updated, which   *)
(* creates and deletes replicas (shard_controls.go) until the replicas of  *)
(* the shard match its placement tags.                                     *)
(*                                                                         *)
(* The placement tags of a shard are one tag, "placement", whose value is  *)
(* the policy they stand for: want[g] replicas of group g on hosts that    *)
(* have every tag of filter[g]; the key of placement:vary, if any; and the *)
(* tags of placement:cover.  placement:vary names one key: Reconcile takes *)
(* the whole value for it.  A tag is a pair <<key, value>>.  Tags that do  *)
(* not parse are ignored by the code and left out.                         *)
(***************************************************************************)
EXTENDS Agents, FiniteSetsExt

CONSTANTS
    HostOrder,   \* the hosts in the order of their IDs
    ErrorTag     \* the tag map that holds zongzi:controller:error alone

VARIABLE mgr     \* mgr[a]: the controller manager of agent a

Min2(i, j) == IF i <= j THEN i ELSE j

-----------------------------------------------------------------------------
(* Reconcile: the replicas it creates and deletes for a snapshot s.         *)

matchTagFilter(tags, filter) ==
    \A f \in filter : f[1] \in DOMAIN tags /\ tags[f[1]] = f[2]

Policy(s, id) == s.shard[id].Tags.placement

HostIterateByTag(s, k) == {h \in DOMAIN s.host : k \in DOMAIN s.host[h].Tags}

\* The hosts with a tag of placement:cover; a tag without a value is matched by its
\* key.  A host is counted once for each tag it has.
Covered(s, f) ==
    {h \in HostIterateByTag(s, f[1]) : f[2] \in {"", s.host[h].Tags[f[1]]}}
CoverSize(s, tags) == MapThenSumSet(LAMBDA f : Cardinality(Covered(s, f)), tags)

\* desired and filters.
Desired(s, p) ==
    IF CoverSize(s, p.cover) = 0 THEN p.want ELSE With(p.want, "cover", CoverSize(s, p.cover))
Filter(p, g) == IF g = "cover" THEN p.cover ELSE p.filter[g]

\* The hosts that belong to group g; a replica on one of them that has the vary key is
\* found, whatever the replica was created for.
InGroup(s, p, g) == {h \in DOMAIN s.host : matchTagFilter(s.host[h].Tags, Filter(p, g))}
Found(s, id, g) ==
    LET p == Policy(s, id)
    IN  {r \in ReplicasOfShard(s, id) :
           /\ s.replica[r].HostID \in InGroup(s, p, g)
           /\ p.vary \subseteq DOMAIN s.host[s.replica[r].HostID].Tags}

AllFound(s, id) == UNION {Found(s, id, g) : g \in DOMAIN Desired(s, Policy(s, id))}

\* The values of the vary key the replicas of a group have (varyCount).
VaryValues(s, id, g) ==
    {s.host[s.replica[r].HostID].Tags[k] : r \in Found(s, id, g), k \in Policy(s, id).vary}

WithVary(s, id, v) ==
    {h \in DOMAIN s.host : \E k \in Policy(s, id).vary :
       k \in DOMAIN s.host[h].Tags /\ s.host[h].Tags[k] = v}

\* Mutant: a host that has a replica of the shard may get another.
AllowedTaken(s, id, g) == InGroup(s, Policy(s, id), g)

\* The hosts Reconcile may add a replica of group g to.  With no replica in the group
\* any will do.  The search for a vary value takes the value with most replicas, and
\* fails if there is more than one or no free host has it; the member group then
\* takes any host all the same, since the error is overwritten, the other groups one
\* with that value.
Allowed(s, id, g) ==
    LET p == Policy(s, id)
        values == VaryValues(s, id, g)
        free == InGroup(s, p, g) \ HostsOf(s, AllFound(s, id))
        same == UNION {WithVary(s, id, v) : v \in values} \cap free
    IN  IF values = {} THEN free
        ELSE IF Cardinality(values) > 1 \/ same = {} THEN {}
        ELSE IF g = "member" THEN free ELSE same

Creation(h, g) == [do |-> "create", host |-> h, nonVoting |-> g # "member"]

\* The creations for group g after those for earlier groups: as many as are missing and
\* there are hosts for, by ascending host ID.
Creations(s, id, made, g) ==
    LET missing == Desired(s, Policy(s, id))[g] - Cardinality(Found(s, id, g))
        used == {made[i].host : i \in DOMAIN made}
        hosts == SelectSeq(HostOrder, LAMBDA h : h \in Allowed(s, id, g) \ used)
    IN  IF missing <= 0 THEN made
        ELSE made \o [i \in 1 .. Min2(missing, Len(hosts)) |-> Creation(hosts[i], g)]

\* The groups are handled in the random order of a Go map, the members first.
GroupOrders(s, id) ==
    LET groups == DOMAIN Desired(s, Policy(s, id))
    IN  {o \in Bijection(1 .. Cardinality(groups), groups) :
           "member" \in groups => o[1] = "member"}

\* The creations for the groups in that order.
AllCreations(s, id, order) ==
    LET made[i \in 0 .. Len(order)] ==
          IF i = 0 THEN <<>> ELSE Creations(s, id, made[i - 1], order[i])
    IN  made[Len(order)]

\* Mutant: a replica must belong to every group.
ReconcileEveryGroup(s, id, order) ==
    LET undesired == {r \in ReplicasOfShard(s, id) : \E g \in DOMAIN Desired(s, Policy(s, id)) :
                        r \notin Found(s, id, g)}
    IN  IF undesired # {}
        THEN <<[do |-> "delete", replica |-> CHOOSE r \in undesired : \A q \in undesired : r <= q]>>
        ELSE AllCreations(s, id, order)

\* One replica in no group is deleted; if there is none, what is missing is created.
Reconcile(s, id, order) ==
    LET undesired == ReplicasOfShard(s, id) \ AllFound(s, id)
    IN  IF undesired # {}
        THEN <<[do |-> "delete", replica |-> CHOOSE r \in undesired : \A q \in undesired : r <= q]>>
        ELSE AllCreations(s, id, order)

-----------------------------------------------------------------------------
(* The manager's tick.                                                      *)

\* A manager between two ticks.  due are the shards that count as updated besides
\* those of shardNews: those of a tick that failed, or all, if there was no tick.
\* visit are the shards that have something left to do, the first being the one the
\* tick is at; updated is that of the controls.
Resting(leader, due) ==
    [leader |-> leader, due |-> due, pc |-> "idle", visit |-> <<>>, updated |-> FALSE,
     hadErr |-> FALSE]

Manage(a, m) == mgr' = [mgr EXCEPT ![a] = m]

\* What is to be done for shard id: the operations of Reconcile, and the removal of the
\* tag an error has left.
Visits(s, id) ==
    {[id |-> id, ops |-> Reconcile(s, id, order),
      tagged |-> DOMAIN ErrorTag \subseteq DOMAIN s.shard[id].Tags]
     : order \in GroupOrders(s, id)}

\* The visits of a pass over the shards ids that have something to do.  They are ordered
\* by the time of the shard's update, which may be any order.
VisitOrders(s, ids) ==
    LET all == UNION {Visits(s, id) : id \in ids}
        todo == {v \in all : v.ops # <<>> \/ v.tagged}
        shards == {v.id : v \in todo}
    IN  {visit \in [1 .. Cardinality(shards) -> todo] :
           {visit[i].id : i \in DOMAIN visit} = shards}

\* The end of a tick: the index advances unless something failed.
Finished(m) == Resting(m.leader, IF m.hadErr THEN m.due ELSE {})

\* The end of a pass over the shards: another one follows if the last shard that was
\* visited, in this pass or an earlier one, was changed.
PassEnds(m) == IF m.updated THEN [m EXCEPT !.pc = "read", !.visit = <<>>] ELSE Finished(m)

\* On to the first shard of visit, unless the agent is being stopped.
Visiting(m, stopping) ==
    IF m.visit = <<>> \/ stopping THEN PassEnds(m)
    ELSE [m EXCEPT !.pc = IF Head(m.visit).ops = <<>> THEN "tagsRemove" ELSE "reconcile"]

\* A shard is done: the pass ends if it was changed, to go on with a new snapshot.
ShardDone(m, stopping) ==
    IF m.updated THEN PassEnds(m) ELSE Visiting([m EXCEPT !.visit = Tail(@)], stopping)

\* The linear read of a pass; isLeader was read when the tick started.  Shards are
\* visited by the time of their update, which may be any order.
ManagerRead(a) ==
    LET m == mgr[a]
        updated == (m.due \cup shardNews[a]) \cap DOMAIN reg.shard
        stopping == stop[a] # "no"
    IN  /\ status[a] = "ready"
        /\ m.pc = "read" \/ (m.pc = "idle" /\ m.leader /\ updated # {})
        /\ \E visit \in VisitOrders(reg, updated) :
             Manage(a, Visiting([m EXCEPT !.due = updated, !.visit = visit,
                                          !.updated = @ /\ (stopping \/ updated = {})],
                                stopping))
        /\ shardNews' = [shardNews EXCEPT ![a] = {}]
        /\ UNCHANGED <<reg, hostNews, status, stop, faults>>

\* controls.Create and controls.Delete.
Outcome(op, id) ==
    IF op.do = "create" THEN ReplicaPost(reg, op.host, id, op.nonVoting)
    ELSE ReplicaDel(reg, op.replica)

\* The next creation or deletion.  An error ends Reconcile; after the last operation
\* the error tag is removed, if there is one.
Operate(a) ==
    LET m == mgr[a]
        at == Head(m.visit)
        n == [m EXCEPT !.updated = TRUE, !.visit[1].ops = Tail(@)]
    IN  /\ m.pc = "reconcile"
        /\ \E ok \in BOOLEAN :
             /\ primePropose(Outcome(Head(at.ops), at.id), ok)
             /\ Manage(a, IF ~ok THEN [m EXCEPT !.hadErr = TRUE, !.pc = "tagsSet"]
                          ELSE IF Len(at.ops) > 1 THEN n
                          ELSE IF at.tagged THEN [n EXCEPT !.pc = "tagsRemove"]
                          ELSE ShardDone(n, stop[a] # "no"))
        /\ UNCHANGED <<status, stop>>

\* The error of a Reconcile is kept in a tag of the shard; whether these proposals
\* succeed is ignored.
TagError(a) ==
    LET m == mgr[a]
        act == IF m.pc = "tagsSet" THEN "set" ELSE "remove"
    IN  /\ m.pc \in {"tagsSet", "tagsRemove"}
        /\ \E ok \in BOOLEAN : primePropose(ShardTags(reg, act, Head(m.visit).id, ErrorTag), ok)
        /\ Manage(a, ShardDone(m, stop[a] # "no"))
        /\ UNCHANGED <<status, stop>>

\* LeaderUpdated for shard 0: raft tells the agent whether it leads.
PrimeLeaderUpdated(a, leads) ==
    /\ status[a] # "down" /\ mgr[a].leader # leads
    /\ Manage(a, [mgr[a] EXCEPT !.leader = leads])
    /\ UNCHANGED <<regVars, status, stop>>

\* LeaderUpdated for another shard: the leader of shard 0 records it, without a look at
\* the term that is recorded already.
ShardLeaderUpdated(a, id, term) ==
    /\ mgr[a].leader /\ status[a] = "ready"
    /\ \E ok \in BOOLEAN : primePropose(ShardLeaderSet(reg, id, term), ok)
    /\ UNCHANGED <<status, stop, mgr>>

ManagerInit == mgr = [a \in Host |-> Resting(FALSE, {})]

ManagerStep(a) == ManagerRead(a) \/ Operate(a) \/ TagError(a)
=============================================================================
