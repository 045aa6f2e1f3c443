------------------------------- MODULE Cluster -------------------------------
(***************************************************************************)
(* A running cluster: the host controller and the shard controller manager *)
(* of every agent over one registry, the users of the API, the election of *)
(* a leader of raft shard 0, crashes and restarts, and Agent.Stop.         *)
(***************************************************************************)
EXTENDS HostController, ShardController

CONSTANTS
    Policies,    \* the policies a shard is created with
    Edits,       \* Edits[p]: the policies p may be replaced by
    HostTagsOf,  \* HostTagsOf[h]: the tags h was configured with
    MaxShards,   \* bound on the shards created
    MaxTerm,     \* bound on the terms of the shards' leaders
    MaxReplicas  \* bound on the replicas placed

ASSUME ReplicasAssumption == MaxReplicas \in Nat

vars == <<agentVars, hostVars, mgr>>

\* The registry after the agents have joined.
Joined ==
    [EmptyState EXCEPT !.host =
       [h \in Host |-> [Created |-> 0, Updated |-> 0, Tags |-> HostTagsOf[h]]]]

Init ==
    /\ reg = Joined
    /\ hostNews = [h \in Host |-> FALSE]
    /\ shardNews = [a \in Host |-> {}]
    /\ status = [a \in Host |-> "ready"]
    /\ stop = [a \in Host |-> "no"]
    /\ faults = 0
    /\ HostInit
    /\ ManagerInit

-----------------------------------------------------------------------------
(* Users.                                                                   *)

ShardCreate(p) ==
    /\ reg.shardID < MaxShards
    /\ Apply(ShardPost(reg, NoName, [placement |-> p]))
    /\ UNCHANGED <<status, stop, faults, hostVars, mgr>>

ShardUpdate(id, p) ==
    /\ p \in Edits[Policy(reg, id)]
    /\ Apply(ShardPut(reg, id, reg.shard[id].Name, reg.shard[id].Term, [placement |-> p]))
    /\ UNCHANGED <<status, stop, faults, hostVars, mgr>>

-----------------------------------------------------------------------------
(* Elections, crashes, restarts.                                            *)

\* Raft tells an agent that it leads shard 0, perhaps before it tells the one that did
\* until then, which is a fault, as is the loss of a lead.
Elect(a) ==
    /\ PrimeLeaderUpdated(a, TRUE)
    /\ IF \E b \in Host : mgr[b].leader THEN Fault ELSE UNCHANGED faults
    /\ UNCHANGED hostVars

LoseLead(a) ==
    /\ PrimeLeaderUpdated(a, FALSE) /\ Fault
    /\ UNCHANGED hostVars

\* A report of the term that is recorded already is left out.
ShardElects(a, id, term) ==
    /\ Runs(a, id) /\ Quorum(id) /\ term # reg.shard[id].Term
    /\ ShardLeaderUpdated(a, id, term)
    /\ UNCHANGED hostVars

Crash(a) ==
    /\ status[a] # "down" /\ Fault
    /\ status' = [status EXCEPT ![a] = "down"]
    /\ stop' = [stop EXCEPT ![a] = "no"]
    /\ node' = [node EXCEPT ![a] = {}]
    /\ ctl' = [ctl EXCEPT ![a] = Idle(TRUE)]
    /\ Manage(a, Resting(FALSE, DOMAIN reg.shard))
    /\ UNCHANGED <<regVars, disk, raft>>

\* Start of an agent that has joined before: updateHost, then the host controller.
Restart(a) ==
    /\ status[a] = "down"
    /\ Apply(HostPut(reg, a, HostTagsOf[a]))
    /\ status' = [status EXCEPT ![a] = "starting"]
    /\ UNCHANGED <<stop, faults, hostVars, mgr>>

-----------------------------------------------------------------------------
(* Agent.Stop.                                                              *)

\* Stop cancels the manager's context first.
Stop(a) ==
    /\ status[a] = "ready" /\ stop[a] = "no" /\ Fault
    /\ stop' = [stop EXCEPT ![a] = "manager"]
    /\ UNCHANGED <<regVars, status, hostVars, mgr>>

\* controllerManager.Stop needs the mutex, which a tick holds to its end.
StopManager(a) ==
    /\ stop[a] = "manager" /\ mgr[a].pc = "idle"
    /\ Manage(a, Resting(mgr[a].leader, DOMAIN reg.shard))
    /\ stop' = [stop EXCEPT ![a] = "host"]
    /\ UNCHANGED <<regVars, status, faults, hostVars>>

\* hostController.Stop waits for its goroutine, and so for a tick to end.
StopHost(a) ==
    /\ stop[a] = "host" /\ ctl[a].pc = "idle"
    /\ Control(a, Idle(TRUE))
    /\ stop' = [stop EXCEPT ![a] = "closing"]
    /\ UNCHANGED <<regVars, status, faults, node, disk, raft, mgr>>

\* The gRPC server stops within five seconds, the node host is closed.
StopClose(a) ==
    /\ stop[a] = "closing"
    /\ node' = [node EXCEPT ![a] = {}]
    /\ status' = [status EXCEPT ![a] = "down"]
    /\ stop' = [stop EXCEPT ![a] = "no"]
    /\ UNCHANGED <<regVars, faults, ctl, disk, raft, mgr>>

StopStep(a) == StopManager(a) \/ StopHost(a) \/ StopClose(a)

-----------------------------------------------------------------------------
(* The specification.                                                       *)

Users ==
    \/ \E p \in Policies : ShardCreate(p)
    \/ \E id \in DOMAIN reg.shard : \E p \in Edits[Policy(reg, id)] : ShardUpdate(id, p)

Host_(a) == HostStep(a) /\ UNCHANGED mgr
Manager(a) == ManagerStep(a) /\ UNCHANGED hostVars

Raft(a) ==
    \/ Elect(a) \/ LoseLead(a) \/ Crash(a) \/ Restart(a)
    \/ \E id \in DOMAIN reg.shard, term \in 1 .. MaxTerm : ShardElects(a, id, term)

Next == Users \/ \E a \in Host : Host_(a) \/ Manager(a) \/ Raft(a)

NextStop == Next \/ \E a \in Host : Stop(a) \/ StopStep(a)

\* Both controllers run in goroutines of their own, a crashed agent is started again,
\* raft shard 0 elects a leader when there is none.  An agent that is down takes no
\* step of a tick, so a tick and a restart share a condition.
Fairness ==
    /\ \A a \in Host :
         /\ WF_vars((HostTick(a) /\ UNCHANGED mgr) \/ Restart(a))
         /\ WF_vars(Manager(a))
    /\ WF_vars(\E a \in Host : Elect(a) /\ UNCHANGED faults)

Spec == Init /\ [][Next]_vars
FairSpec == Spec /\ Fairness

\* Stop waits for a mutex and for a goroutine; Go's mutex does not starve a waiter.
FairSpecStop ==
    /\ Init /\ [][NextStop]_vars /\ Fairness
    /\ \A a \in Host : SF_vars(StopStep(a))

-----------------------------------------------------------------------------
(* Properties.                                                              *)

\* The tables, the controllers and the managers have the shape the code gives them, a
\* node host runs what it has stored, and the registry does not panic.
TypeOK ==
    /\ reg.replicaID \in Nat /\ DOMAIN reg.replica \subseteq 1 .. reg.replicaID
    /\ hostNews \in [Host -> BOOLEAN] /\ shardNews \in [Host -> SUBSET (1 .. reg.shardID)]
    /\ status \in [Host -> {"down", "starting", "ready"}]
    /\ stop \in [Host -> {"no", "manager", "host", "closing"}]
    /\ \A h \in Host :
         /\ node[h] \subseteq DOMAIN disk[h]
         /\ ctl[h].pc \in {"idle", "work", "join", "joined", "report"}
         /\ mgr[h].pc \in {"idle", "read", "reconcile", "tagsSet", "tagsRemove"}
         /\ mgr[h].due \subseteq 1 .. reg.shardID
    /\ ~reg.panicked

\* While one agent at a time leads raft shard 0, Reconcile places at most one replica of
\* a shard on a host, also when a proposal that has failed was applied, and when the
\* leader crashes between two creations.
OnePerHost ==
    \A r, q \in DOMAIN reg.replica :
        /\ reg.replica[r].ShardID = reg.replica[q].ShardID
        /\ reg.replica[r].HostID = reg.replica[q].HostID
        => r = q

\* "Any host may have at most one active replica of any shard" (README.md), whoever
\* leads raft shard 0.
OneActivePerHost ==
    \A r, q \in DOMAIN reg.replica :
        /\ reg.replica[r].ShardID = reg.replica[q].ShardID
        /\ reg.replica[r].HostID = reg.replica[q].HostID
        /\ reg.replica[r].Status = "active" /\ reg.replica[q].Status = "active"
        => r = q

\* The replicas that bootstrap a shard of three members were given the same initial
\* members, though each host controller took them from a snapshot of its own, and the
\* raft shard has them as voters.
SameBootMembers ==
    /\ \A g, h \in Host : \A r \in DOMAIN disk[g], q \in DOMAIN disk[h] :
         /\ disk[g][r].shard = disk[h][q].shard
         /\ ~disk[g][r].join /\ ~disk[h][q].join
         => disk[g][r].members = disk[h][q].members
    /\ \A h \in Host : \A r \in node[h] :
         disk[h][r].join \/ r \in raft[disk[h][r].shard].voter

\* A replica that has joined was made a member of its raft shard before, and a replica
\* that runs does so in the shard, and as a voter or not, as the registry says, whichever
\* calls of Add were repeated and wherever the host has crashed.
JoinerIsMember ==
    \A h \in Host : \A r \in node[h] :
        LET id == disk[h][r].shard
        IN  /\ id \in DOMAIN raft
            /\ disk[h][r].join => r \in raft[id].voter \cup raft[id].other
            /\ r \in DOMAIN reg.replica =>
                 /\ reg.replica[r].ShardID = id
                 /\ reg.replica[r].IsNonVoting <=> r \in raft[id].other

\* A replica that its shard's policy asks for is not removed: the controllers do not
\* undo what they have done.
NoChurn ==
    [][\A r \in DOMAIN reg.replica \ DOMAIN reg'.replica :
         r \notin AllFound(reg, reg.replica[r].ShardID)]_vars

\* The life of a replica: its phase and home are those of its row, and a host has
\* started the replicas it has stored.
PhaseIn(s, r) ==
    IF r > s.replicaID THEN "unborn"
    ELSE IF r \notin DOMAIN s.replica THEN "removed"
    ELSE IF s.replica[r].Status = "active" THEN "active" ELSE "placed"

LifePhase == [r \in 1 .. MaxReplicas |-> PhaseIn(reg, r)]

LifeHome ==
    [r \in 1 .. MaxReplicas |->
       IF r \in DOMAIN reg.replica THEN reg.replica[r].HostID ELSE NoHost]

StartedIn(d, r) == {h \in Host : r \in DOMAIN d[h]}
LifeStartedOn == [r \in 1 .. MaxReplicas |-> StartedIn(disk, r)]

Life == INSTANCE ReplicaLife WITH
    Replica <- 1 .. MaxReplicas, phase <- LifePhase, home <- LifeHome,
    startedOn <- LifeStartedOn

\* The registry and the two controllers implement ReplicaLife: a replica ID is given to
\* one host, started by that host alone, reported active after that, never reused.
ImplementsLife == Life!Spec

\* Shard id has the replicas its policy asks for, and they run and are active.  Where the
\* proposal of a status has failed the status may stay behind: the next tick of that host
\* finds the replica running and passes it by.
Served(id) ==
    LET p == Policy(reg, id)
        rs == ReplicasOfShard(reg, id)
        desired == Desired(reg, p)
    IN  /\ \A g \in DOMAIN desired :
             Cardinality({r \in rs : /\ reg.replica[r].HostID \in InGroup(reg, p, g)
                                     /\ reg.replica[r].IsNonVoting = (g # "member")})
               >= desired[g]
        /\ \A r \in rs : Running(r) /\ (faults = 0 => reg.replica[r].Status = "active")

\* The two controllers together bring every shard to its policy, and keep it there: no
\* tick advances its index past a replica that does not run, although hosts crash and
\* proposals fail.  A joining replica whose calls have passed their deadline is the
\* exception: its tick never ends.
Placed ==
    <>[]((\A id \in DOMAIN reg.shard : Served(id)) \/ \E h \in Host : ctl[h].expired)

\* "Stop stops the agent" (agent.go), at whatever point the controllers are.
StopEnds == \A a \in Host : stop[a] # "no" ~> stop[a] = "no"
=============================================================================
