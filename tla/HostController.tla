--------------------------- MODULE HostController ---------------------------
(***************************************************************************)
(* The host controller (host_controller.go): every agent compares the      *)
(* replicas the registry places on its host with the ones its node host    *)
(* runs, and starts those that are missing; and the Add handler by which a *)
(* member's host adds a joining replica to the raft shard (grpc_server.go, *)
(* joinShardReplica in agent.go).                                          *)
(*                                                                         *)
(* A tick reads the registry once and works on that snapshot for as long   *)
(* as it takes.  Jobs are all it uses of the snapshot.  All hosts have     *)
(* registered the state machine type of every shard, and the in-memory and *)
(* on-disk variants of a start, which differ in the state machine only,    *)
(* are one.                                                                *)
(***************************************************************************)
EXTENDS Agents

CONSTANT NoHost

VARIABLES
    ctl,         \* ctl[h]: the host controller of h
    node,        \* node[h]: the replicas h's node host runs
    disk,        \* disk[h]: what h's node host has stored of the replicas it started
    raft         \* raft[id]: the members of raft shard id, once it is bootstrapped

hostVars == <<ctl, node, disk, raft>>

\* A controller between two ticks; again says that the last one failed, or that there
\* was none, so that the host row counts as updated.  jobs are the replicas a tick has
\* still to start, rid is the one being started, target the member asked to add it,
\* expired says that the context of that call has passed its deadline.
Idle(again) ==
    [pc |-> "idle", again |-> again, jobs |-> EmptyTable, rid |-> 0, target |-> NoHost,
     expired |-> FALSE, hadErr |-> FALSE]

\* Mutant: the index advances although a replica could not be started.
SettledIgnoringErrors(c) ==
    IF c.pc = "work" /\ DOMAIN c.jobs = {} THEN Idle(FALSE) ELSE c

\* A tick with no replica left to start ends: the index advances unless it failed.
Settled(c) == IF c.pc = "work" /\ DOMAIN c.jobs = {} THEN Idle(c.hadErr) ELSE c

\* The controller moves on to c.  Start runs the first tick itself, and the agent is
\* ready after it.
Control(h, c) ==
    /\ ctl' = [ctl EXCEPT ![h] = Settled(c)]
    /\ status' = [status EXCEPT ![h] =
                    IF @ = "starting" /\ Settled(c).pc = "idle" THEN "ready" ELSE @]

-----------------------------------------------------------------------------
(* Raft shards, by what the code uses of dragonboat.                        *)

Running(r) == \E h \in Host : r \in node[h]

Quorum(id) ==
    /\ id \in DOMAIN raft
    /\ 2 * Cardinality({r \in raft[id].voter : Running(r)}) > Cardinality(raft[id].voter)

Runs(h, id) == \E r \in node[h] : disk[h][r].shard = id

\* Whether the node host accepts to start replica r of shard id: it runs no replica
\* of the shard, a replica it has no data of is given members or joins, and one it
\* has is started the way it was first.
Startable(h, r, id, members, join) ==
    /\ ~Runs(h, id)
    /\ IF r \in DOMAIN disk[h]
       THEN /\ join => disk[h][r].join
            /\ DOMAIN members # {} => disk[h][r].members = members /\ ~disk[h][r].join
       ELSE join \/ DOMAIN members # {}

\* StartConcurrentReplica and StartOnDiskReplica.  The first initial member that
\* starts fixes the members of the raft shard.
StartReplica(h, r, id, members, join) ==
    /\ node' = [node EXCEPT ![h] = @ \cup {r}]
    /\ disk' = IF r \in DOMAIN disk[h] THEN disk
               ELSE [disk EXCEPT ![h] =
                       With(@, r, [shard |-> id, join |-> join, members |-> members])]
    /\ raft' = IF id \in DOMAIN raft \/ DOMAIN members = {} THEN raft
               ELSE With(raft, id, [voter |-> DOMAIN members, other |-> {}])

-----------------------------------------------------------------------------
(* tick.                                                                    *)

\* What the tick uses of replica r in the snapshot s.
Job(s, r) ==
    LET id == s.replica[r].ShardID
    IN  [shard |-> id, known |-> id \in DOMAIN s.shard, status |-> s.replica[r].Status,
         nonVoting |-> s.replica[r].IsNonVoting,
         members |-> [m \in ShardMembers(s, id) |-> s.replica[m].HostID]]

\* The replicas that should run on h and do not.
Missing(s, h) == {r \in ReplicasOfHost(s, h) : s.replica[r].ShardID > 0} \ node[h]

\* The linear read.  Nothing happens for a host that has no row or whose row has not
\* been updated since the last tick that went well.
HostRead(h) ==
    /\ status[h] # "down" /\ stop[h] # "closing" /\ ctl[h].pc = "idle"
    /\ h \in DOMAIN reg.host /\ (hostNews[h] \/ ctl[h].again)
    /\ hostNews' = [hostNews EXCEPT ![h] = FALSE]
    /\ Control(h, [ctl[h] EXCEPT !.pc = "work",
                                 !.jobs = [r \in Missing(reg, h) |-> Job(reg, r)]])
    /\ UNCHANGED <<reg, shardNews, stop, faults, node, disk, raft>>

\* Mutant: the status of a replica that cannot be started is proposed all the same.
FailsAndReports(h, r) ==
    [ctl[h] EXCEPT !.pc = "report", !.rid = r, !.jobs = Without(@, {r}), !.hadErr = TRUE]

\* The next replica, in the random order of a Go map.  One that cannot be started
\* marks the tick as failed, and the tick goes on with the others.
Fails(h, r) ==
    [ctl[h] EXCEPT !.pc = "work", !.rid = 0, !.jobs = Without(@, {r}), !.hadErr = TRUE]
Starts(h, r) == [ctl[h] EXCEPT !.pc = "report", !.rid = r, !.jobs = Without(@, {r})]

Start(h, r, id, members, join) ==
    IF Startable(h, r, id, members, join)
    THEN Control(h, Starts(h, r)) /\ StartReplica(h, r, id, members, join)
    ELSE Control(h, Fails(h, r)) /\ UNCHANGED <<node, disk, raft>>

\* Mutant: a bootstrapping replica is started with the members posted so far.
StartBootstrappingEarly(h, r) ==
    LET job == ctl[h].jobs[r]
    IN  /\ job.status = "bootstrapping"
        /\ Start(h, r, job.shard, job.members, FALSE)

\* A bootstrapping replica waits for three members to be posted.
StartBootstrapping(h, r) ==
    LET job == ctl[h].jobs[r]
    IN  /\ job.status = "bootstrapping"
        /\ IF Cardinality(DOMAIN job.members) < 3
           THEN Control(h, Fails(h, r)) /\ UNCHANGED <<node, disk, raft>>
           ELSE Start(h, r, job.shard, job.members, FALSE)

StartActive(h, r) ==
    /\ ctl[h].jobs[r].status = "active"
    /\ Start(h, r, ctl[h].jobs[r].shard, EmptyTable, FALSE)

Work(h, r) ==
    /\ ctl[h].pc = "work" /\ r \in DOMAIN ctl[h].jobs
    /\ IF ctl[h].jobs[r].known
       THEN StartBootstrapping(h, r) \/ StartActive(h, r)
       ELSE Control(h, Fails(h, r)) /\ UNCHANGED <<node, disk, raft>>
    /\ UNCHANGED <<regVars, stop, faults>>

\* requestShardJoin: a joining replica asks one member's host, in the random order of
\* a Go map, and repeats the call until it gets an answer.  The next member is
\* never asked: an answer without error always carries the replica ID.
Ask(h, r, m) ==
    LET job == ctl[h].jobs[r]
    IN  /\ ctl[h].pc = "work" /\ r \in DOMAIN ctl[h].jobs
        /\ job.known /\ job.status = "joining"
        /\ m \in DOMAIN job.members /\ job.members[m] \in DOMAIN reg.host
        /\ Control(h, [ctl[h] EXCEPT !.pc = "join", !.rid = r, !.target = job.members[m]])
        /\ UNCHANGED <<regVars, stop, faults, node, disk, raft>>

\* The Add handler: the target is ready, runs a replica of the shard and reaches a
\* quorum.
AddAnswers(h) ==
    LET id == ctl[h].jobs[ctl[h].rid].shard
    IN  /\ ctl[h].pc = "join"
        /\ status[ctl[h].target] = "ready" /\ Runs(ctl[h].target, id) /\ Quorum(id)

\* Mutant: every replica is added as a voter.
AddedVoting(h) ==
    raft' = [raft EXCEPT ![ctl[h].jobs[ctl[h].rid].shard].voter = @ \cup {ctl[h].rid}]

\* joinShardReplica: a replica that is a member already stays one.  Raft rejects a
\* change based on an older membership, so reading and changing it are one step.
Added(h) ==
    LET job == ctl[h].jobs[ctl[h].rid]
    IN  raft' = IF job.nonVoting THEN [raft EXCEPT ![job.shard].other = @ \cup {ctl[h].rid}]
                ELSE [raft EXCEPT ![job.shard].voter = @ \cup {ctl[h].rid}]

\* A call that is answered, one whose answer is lost, and the deadline after which
\* every further call fails at once.
Add(h) ==
    /\ AddAnswers(h) /\ ~ctl[h].expired
    /\ Added(h)
    /\ Control(h, [ctl[h] EXCEPT !.pc = "joined", !.target = NoHost])
    /\ UNCHANGED <<regVars, stop, faults, node, disk>>

AddLost(h) ==
    /\ AddAnswers(h) /\ ~ctl[h].expired
    /\ Added(h)
    /\ UNCHANGED <<agentVars, ctl, node, disk>>

Expire(h) ==
    /\ ctl[h].pc = "join" /\ ~ctl[h].expired /\ Fault
    /\ Control(h, [ctl[h] EXCEPT !.expired = TRUE])
    /\ UNCHANGED <<regVars, stop, node, disk, raft>>

StartJoined(h) ==
    /\ ctl[h].pc = "joined"
    /\ Start(h, ctl[h].rid, ctl[h].jobs[ctl[h].rid].shard, EmptyTable, TRUE)
    /\ UNCHANGED <<regVars, stop, faults>>

\* The status is proposed after the replica was started; an error, or a replica that
\* is gone, marks the tick as failed.
Report(h) ==
    /\ ctl[h].pc = "report"
    /\ \E ok \in BOOLEAN :
         /\ primePropose(ReplicaStatusUpdate(reg, ctl[h].rid, "active"), ok)
         /\ Control(h, [ctl[h] EXCEPT !.pc = "work", !.rid = 0,
                          !.hadErr = @ \/ ~ok \/ ctl[h].rid \notin DOMAIN reg.replica])
    /\ UNCHANGED <<stop, node, disk, raft>>

HostInit ==
    /\ ctl = [h \in Host |-> Idle(FALSE)]
    /\ node = [h \in Host |-> {}]
    /\ disk = [h \in Host |-> EmptyTable]
    /\ raft = EmptyTable

\* The steps the controller's goroutine takes by itself.
HostTick(h) ==
    \/ HostRead(h) \/ Add(h) \/ StartJoined(h) \/ Report(h)
    \/ \E r \in DOMAIN ctl[h].jobs :
         Work(h, r) \/ \E m \in DOMAIN ctl[h].jobs[r].members : Ask(h, r, m)

HostStep(h) == HostTick(h) \/ AddLost(h) \/ Expire(h)
=============================================================================
