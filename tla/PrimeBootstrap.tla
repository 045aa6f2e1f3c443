---------------------------- MODULE PrimeBootstrap ----------------------------
(***************************************************************************)
(* Agent.Start (agent.go): how the agents find each other, agree on the    *)
(* members of raft shard 0, fill the registry and become Ready; and how an *)
(* agent that is not a peer joins through the gRPC method Join             *)
(* (grpc_server.go).  Agents start in any order, run Start concurrently,   *)
(* crash and are started again.                                            *)
(*                                                                         *)
(* An agent's host ID is the element of Host itself.  Raft is external: a  *)
(* proposal or a linear read succeeds while a majority of the peers runs   *)
(* its replica, is atomic, and reg is the registry all of them agree on.   *)
(* Every crash, timeout and failed proposal counts as a fault, of which    *)
(* there are at most MaxFaults; a proposal that fails is either applied or *)
(* lost.  A failed agent's process exits, and is started again.            *)
(***************************************************************************)
EXTENDS RegistryFSM, Sequences

CONSTANTS
    Peers,       \* the sorted peer list, a sequence of hosts
    Prime,       \* the name of shard 0, "zongzi"
    MaxFaults    \* bound on faults

ASSUME PeersAssumption ==
    /\ Peers \in Seq(Host) /\ Peers # <<>> /\ Name = {Prime}
    /\ \A i, j \in DOMAIN Peers : Peers[i] = Peers[j] => i = j

ASSUME FaultsAssumption == MaxFaults \in Nat

VARIABLES
    agent,       \* agent[a]: the memory of agent a
    disk,        \* disk[a]: the ID of the prime replica in a's log store, or 0
    boot,        \* boot[a]: the initial members a's prime replica was started with
    reg,         \* the registry
    nonVoting,   \* the non-voting members of raft shard 0: replica ID -> host
    joins,       \* Join handlers that are running
    faults       \* faults so far

vars == <<agent, disk, boot, reg, nonVoting, joins, faults>>

N == Len(Peers)
Peer == {Peers[i] : i \in 1 .. N}

\* The memory of an agent that is not running.  at walks over the peer list, seen
\* and uninit are members and uninitialized of resolvePrimeMembership, next is
\* where Start continues once startPrimeReplica has returned, left are the hosts
\* primeInit has still to add, raft says that the prime replica was started.
Stopped ==
    [pc |-> "down", rid |-> 0, members |-> EmptyTable, seen |-> EmptyTable, uninit |-> {},
     at |-> 1, next |-> "", left |-> {}, raft |-> FALSE]

Init ==
    /\ agent = [a \in Host |-> Stopped]
    /\ disk = [a \in Host |-> 0]
    /\ boot = [a \in Host |-> EmptyTable]
    /\ reg = EmptyState
    /\ nonVoting = EmptyTable
    /\ joins = {}
    /\ faults = 0

Up(a) == agent[a].pc # "down"
Become(a, m) == agent' = [agent EXCEPT ![a] = m]
At(a, pc) == [agent[a] EXCEPT !.pc = pc, !.at = 1]
Goto(a, pc) == Become(a, At(a, pc))

Available == 2 * Cardinality({p \in Peer : agent[p].raft}) > N

Fault == faults < MaxFaults /\ faults' = faults + 1

\* A proposal that leads to registry t, after which agent a's memory is m; or it
\* fails, applied or not.
Proposed(a, t, m) ==
    \/ /\ Available
       /\ reg' = Commit(reg, t)
       /\ Become(a, m)
       /\ UNCHANGED <<disk, boot, nonVoting, joins, faults>>
    \/ /\ Fault
       /\ \/ Available /\ reg' = Commit(reg, t)
          \/ UNCHANGED reg
       /\ Become(a, [agent[a] EXCEPT !.pc = "failed"])
       /\ UNCHANGED <<disk, boot, nonVoting, joins>>

-----------------------------------------------------------------------------
(* Finding the peers.                                                       *)

\* Start: the gRPC server answers from here on.
Launch(a) ==
    /\ agent[a].pc = "down"
    /\ Goto(a, "probing")
    /\ UNCHANGED <<disk, boot, reg, nonVoting, joins, faults>>

\* resolvePeerGossipSeed: probe the peers one after the other, over again until
\* all have answered in one round.
Probe(a) ==
    LET m == agent[a]
    IN  /\ m.pc = "probing" /\ m.at <= N
        /\ Become(a, [m EXCEPT !.at = IF Up(Peers[m.at]) THEN @ + 1 ELSE 1])
        /\ UNCHANGED <<disk, boot, reg, nonVoting, joins, faults>>

\* NewNodeHost: the agent has a host ID.
StartHost(a) ==
    /\ agent[a].pc = "probing" /\ agent[a].at > N
    /\ Goto(a, "hosted")
    /\ UNCHANGED <<disk, boot, reg, nonVoting, joins, faults>>

\* findLocalReplicaID: the replica ID of a log left by an earlier run, or 0.
FindReplica(a) ==
    /\ agent[a].pc = "hosted"
    /\ Become(a, [agent[a] EXCEPT !.pc = "resolving", !.at = 1, !.rid = disk[a]])
    /\ UNCHANGED <<disk, boot, reg, nonVoting, joins, faults>>

-----------------------------------------------------------------------------
(* resolvePrimeMembership.                                                  *)

\* Ask the next peer for its host and replica ID (Info).  A peer without a host ID
\* is skipped, one that does not answer fails Start.
ResolveInfo(a) ==
    LET m == agent[a]
        p == Peers[m.at]
        q == agent[p]
    IN  /\ m.pc = "resolving" /\ m.at <= N
        /\ Become(a, CASE q.pc = "down" -> [m EXCEPT !.pc = "failed"]
                       [] q.pc = "probing" -> [m EXCEPT !.at = @ + 1]
                       [] q.pc \notin {"down", "probing"} /\ q.rid = 0 ->
                            [m EXCEPT !.at = @ + 1, !.uninit = @ \cup {p}]
                       [] q.pc \notin {"down", "probing"} /\ q.rid # 0 ->
                            [m EXCEPT !.at = @ + 1, !.seen = With(@, q.rid, p)])
        /\ UNCHANGED <<disk, boot, reg, nonVoting, joins, faults>>

Retry(m) ==
    [m EXCEPT !.pc = "resolving", !.at = 1, !.seen = EmptyTable, !.uninit = {}]

\* The replica ID a peer takes when it initializes: its place in the peer list.
PlaceOf(a) == IF a \in Peer THEN CHOOSE i \in 1 .. N : Peers[i] = a ELSE 0

\* Mutant: replica IDs are counted from 0.
InitialMembersFromZero == [i \in 0 .. N - 1 |-> Peers[i + 1]]

\* The members a new cluster starts with.
InitialMembers == [i \in 1 .. N |-> Peers[i]]

\* The round is complete: all peers have a replica ID; or none has, and a peer
\* initializes the cluster; or some have, and are asked for the others; or a peer
\* had no host ID yet, or the agent is no peer, and the round is repeated.
ResolveDecide(a) ==
    LET m == agent[a]
        known == Cardinality(DOMAIN m.seen)
    IN  /\ m.pc = "resolving" /\ m.at > N
        /\ Become(a,
             IF known = N THEN [m EXCEPT !.pc = "resolved", !.next = "awaiting"]
             ELSE IF m.uninit = Peer /\ a \in Peer
             THEN [m EXCEPT !.pc = "resolved", !.seen = InitialMembers, !.rid = PlaceOf(a),
                            !.next = "putShard"]
             ELSE IF m.uninit # Peer /\ known + Cardinality(m.uninit) = N
             THEN [m EXCEPT !.pc = "membership"]
             ELSE Retry(m))
        /\ UNCHANGED <<disk, boot, reg, nonVoting, joins, faults>>

\* The first other peer that has a replica ID is asked for its members (Members),
\* if there is one.
Asked(a) ==
    LET others == {i \in 1 .. N : Peers[i] \notin agent[a].uninit \cup {a}}
    IN  {Peers[i] : i \in {j \in others : \A k \in others : j <= k}}

\* The answer is copied in the random order of a Go map and the copy stops at the
\* agent's own host ID, so what is copied is everything, if it does not hold that
\* ID, and else any part with it.
Copies(a, members) ==
    LET own == {r \in DOMAIN members : members[r] = a}
    IN  IF own = {} THEN {DOMAIN members}
        ELSE {S \in SUBSET DOMAIN members : own \subseteq S}

\* Mutant: the number of members is not compared with the number of peers.
ResolvesEarly(rid, seen) == rid > 0

\* Resolution ends with a replica ID for the agent and one for every peer.
Resolves(rid, seen) == rid > 0 /\ Cardinality(DOMAIN seen) = N

\* part is the set of replica IDs that get copied.
ResolveMembers(a, part) ==
    LET m == agent[a]
        members == IF Asked(a) = {} THEN EmptyTable
                   ELSE agent[CHOOSE p \in Asked(a) : TRUE].members
        own == {r \in DOMAIN members : members[r] = a}
        rid == IF own = {} THEN m.rid ELSE CHOOSE r \in own : TRUE
        seen == [r \in DOMAIN m.seen \cup part |->
                   IF r \in part THEN members[r] ELSE m.seen[r]]
        failed == \E p \in Asked(a) : ~Up(p)
    IN  /\ m.pc = "membership"
        /\ part \in Copies(a, members)
        /\ Become(a, IF failed THEN [m EXCEPT !.pc = "failed"]
                     ELSE IF Resolves(rid, seen)
                     THEN [m EXCEPT !.pc = "resolved", !.rid = rid, !.seen = seen,
                                    !.next = "awaiting"]
                     ELSE [Retry(m) EXCEPT !.rid = rid])
        /\ UNCHANGED <<disk, boot, reg, nonVoting, joins, faults>>

-----------------------------------------------------------------------------
(* Starting the prime replica and filling the registry.                     *)

\* The members are published (Members answers with them) and Start goes one of its
\* four ways: join, initialize, wait for the initializer, or rejoin.
Resolved(a) ==
    LET m == [agent[a] EXCEPT !.members = agent[a].seen, !.seen = EmptyTable, !.uninit = {},
                              !.at = 1]
        new == m.rid # 0 /\ disk[a] = 0
    IN  /\ m.pc = "resolved"
        /\ Become(a, IF m.rid = 0 THEN [m EXCEPT !.pc = "joining"]
                     ELSE [m EXCEPT !.pc = "starting", !.raft = TRUE,
                                    !.next = IF new THEN @ ELSE "putHost"])
        /\ disk' = [disk EXCEPT ![a] = m.rid]
        /\ boot' = IF new THEN [boot EXCEPT ![a] = m.members] ELSE boot
        /\ UNCHANGED <<reg, nonVoting, joins, faults>>

\* startPrimeReplica returns when a linear read succeeds.
Started(a) ==
    /\ agent[a].pc = "starting" /\ Available
    /\ Become(a, [agent[a] EXCEPT !.pc = agent[a].next, !.left = Peer, !.at = 1])
    /\ UNCHANGED <<disk, boot, reg, nonVoting, joins, faults>>

\* primeInit adds the prime shard, the members' hosts in the random order of a Go
\* map, and a replica for each member in the order of their replica IDs.
PutShard(a) ==
    /\ agent[a].pc = "putShard"
    /\ Proposed(a, ShardPut(reg, PrimeShard, Prime, 0, EmptyTable), At(a, "addHosts"))

AddHost(a, h) ==
    LET m == agent[a]
    IN  /\ m.pc = "addHosts" /\ h \in m.left
        /\ Proposed(a, HostPut(reg, h, EmptyTable),
             [m EXCEPT !.left = @ \ {h}, !.pc = IF m.left = {h} THEN "addReplicas" ELSE @])

\* Mutant: the loop ends after the first member.
AddReplicaFirst(a) ==
    /\ agent[a].pc = "addReplicas"
    /\ Proposed(a, ReplicaPost(reg, Peers[agent[a].at], PrimeShard, FALSE), At(a, "putHost"))

AddReplica(a) ==
    LET m == agent[a]
    IN  /\ m.pc = "addReplicas"
        /\ Proposed(a, ReplicaPost(reg, Peers[m.at], PrimeShard, FALSE),
             IF m.at < N THEN [m EXCEPT !.at = @ + 1] ELSE At(a, "putHost"))

\* primeInitAwait: the registry has a replica of the agent's host.
Await(a) ==
    /\ agent[a].pc = "awaiting" /\ Available /\ ReplicasOfHost(reg, a) # {}
    /\ Goto(a, "putHost")
    /\ UNCHANGED <<disk, boot, reg, nonVoting, joins, faults>>

\* updateHost and updateReplica, after which the agent is ready.
PutHost(a) ==
    /\ agent[a].pc = "putHost"
    /\ Proposed(a, HostPut(reg, a, EmptyTable), At(a, "putStatus"))

PutStatus(a) ==
    /\ agent[a].pc = "putStatus"
    /\ Proposed(a, ReplicaStatusUpdate(reg, agent[a].rid, "active"), At(a, "ready"))

-----------------------------------------------------------------------------
(* Joining.  A call that has timed out leaves its handler running; a        *)
(* handler is wanted while its caller waits for it, and n tells handlers of *)
(* the same host apart.                                                     *)

\* joinPrimeShard: ask the peers one after the other, over again until one that is
\* ready has answered with a replica ID.
Join(a) ==
    LET m == agent[a]
        ready == m.at <= N /\ agent[Peers[m.at]].pc = "ready"
    IN  /\ m.pc = "joining"
        /\ Become(a, IF ready THEN [m EXCEPT !.pc = "calling"]
                     ELSE [m EXCEPT !.at = IF @ <= N THEN @ + 1 ELSE 1])
        /\ joins' = IF ready
                    THEN joins \cup {[peer |-> Peers[m.at], host |-> a, phase |-> "findHost",
                                      id |-> 0, wanted |-> TRUE, n |-> faults]}
                    ELSE joins
        /\ UNCHANGED <<disk, boot, reg, nonVoting, faults>>

\* The memory of the caller of handler x after the answer id, 0 for an error.
Answered(x, id) ==
    IF ~x.wanted THEN agent[x.host]
    ELSE IF id # 0 THEN [agent[x.host] EXCEPT !.pc = "joined", !.rid = id]
    ELSE [agent[x.host] EXCEPT !.pc = "joining", !.at = @ + 1]

Reply(x, id) == joins' = joins \ {x} /\ Become(x.host, Answered(x, id))

Move(x, phase, id) ==
    /\ joins' = (joins \ {x}) \cup {[x EXCEPT !.phase = phase, !.id = id]}
    /\ UNCHANGED <<agent, disk, boot, nonVoting, faults>>

\* joinPrimeReplica: add the host if it is unknown, add a replica if the host has
\* none of the prime shard.  Reads and proposals are separate steps.
FindHost(x) ==
    /\ x.phase = "findHost" /\ Available
    /\ Move(x, IF x.host \in DOMAIN reg.host THEN "findReplica" ELSE "addHost", 0)
    /\ UNCHANGED reg

JoinAddHost(x) ==
    /\ x.phase = "addHost" /\ Available
    /\ reg' = Commit(reg, HostPut(reg, x.host, EmptyTable))
    /\ Move(x, "findReplica", 0)

FindPrimeReplica(x) ==
    LET rs == ReplicasOfHost(reg, x.host) \cap ReplicasOfShard(reg, PrimeShard)
    IN  /\ x.phase = "findReplica" /\ Available
        /\ IF rs = {} THEN Move(x, "addReplica", 0)
           ELSE Move(x, "addMember", CHOOSE r \in rs : \A q \in rs : r <= q)
        /\ UNCHANGED reg

JoinAddReplica(x) ==
    /\ x.phase = "addReplica" /\ Available
    /\ reg' = Commit(reg, ReplicaPost(reg, x.host, PrimeShard, TRUE))
    /\ Move(x, "addMember", reg.replicaID + 1)

\* Mutant: the replica is not added to the raft shard.
AddMemberSkipped(x) ==
    /\ x.phase = "addMember" /\ Available
    /\ Reply(x, x.id)
    /\ UNCHANGED <<disk, boot, reg, nonVoting, faults>>

\* joinShardReplica: nothing to do for a member, else raft is asked to add it,
\* which it refuses for the ID of a voting member.
AddMember(x) ==
    /\ x.phase = "addMember" /\ Available
    /\ IF x.id \in 1 .. N
       THEN Reply(x, 0) /\ UNCHANGED nonVoting
       ELSE Reply(x, x.id) /\ nonVoting' = With(nonVoting, x.id, x.host)
    /\ UNCHANGED <<disk, boot, reg, faults>>

\* startPrimeReplica with join set.
StartJoined(a) ==
    /\ agent[a].pc = "joined"
    /\ Become(a, [At(a, "starting") EXCEPT !.raft = TRUE, !.next = "putHost"])
    /\ disk' = [disk EXCEPT ![a] = agent[a].rid]
    /\ UNCHANGED <<boot, reg, nonVoting, joins, faults>>

Handle(x) ==
    \/ FindHost(x) \/ JoinAddHost(x) \/ FindPrimeReplica(x) \/ JoinAddReplica(x)
    \/ AddMember(x)

-----------------------------------------------------------------------------
(* Faults.                                                                  *)

\* The process of an agent whose Start returned an error exits.
Exit(a) ==
    /\ agent[a].pc = "failed"
    /\ Become(a, Stopped)
    /\ UNCHANGED <<disk, boot, reg, nonVoting, joins, faults>>

\* The handlers of a process that crashes are gone, their callers get an error;
\* handlers it waits for answer to nobody.
Crash(a) ==
    /\ Fault /\ Up(a)
    /\ agent' = [b \in Host |->
         IF b = a THEN Stopped
         ELSE IF \E x \in joins : x.peer = a /\ x.host = b /\ x.wanted
         THEN [agent[b] EXCEPT !.pc = "joining", !.at = @ + 1]
         ELSE agent[b]]
    /\ joins' = {IF x.host = a THEN [x EXCEPT !.wanted = FALSE] ELSE x :
                   x \in {y \in joins : y.peer # a}}
    /\ UNCHANGED <<disk, boot, reg, nonVoting>>

\* A Join call gives up, its handler does not.
JoinTimeout(x) ==
    /\ Fault /\ x.wanted
    /\ joins' = (joins \ {x}) \cup {[x EXCEPT !.wanted = FALSE]}
    /\ Become(x.host, Answered(x, 0))
    /\ UNCHANGED <<disk, boot, reg, nonVoting>>

\* A handler returns an error.  If it is that of a proposal that was applied
\* nevertheless, the handler has moved on before.
JoinFails(x) ==
    /\ Fault
    /\ Reply(x, 0)
    /\ UNCHANGED <<disk, boot, reg, nonVoting>>

-----------------------------------------------------------------------------
(* The specification.                                                       *)

ResolveStep(a) ==
    \/ Probe(a) \/ StartHost(a) \/ FindReplica(a) \/ ResolveInfo(a) \/ ResolveDecide(a)
    \/ \E part \in SUBSET (1 .. N) : ResolveMembers(a, part)
    \/ Resolved(a)

StartStep(a) ==
    \/ Started(a) \/ PutShard(a) \/ (\E h \in Host : AddHost(a, h)) \/ AddReplica(a)
    \/ Await(a) \/ PutHost(a) \/ PutStatus(a) \/ Join(a) \/ StartJoined(a)

Next ==
    \/ \E a \in Host : Launch(a) \/ ResolveStep(a) \/ StartStep(a) \/ Exit(a) \/ Crash(a)
    \/ \E x \in joins : Handle(x) \/ JoinTimeout(x) \/ JoinFails(x)

\* Every agent's Start is run by its own goroutine, a process that ended is started
\* again, gRPC runs every handler.  Go randomizes the order of a map range, so a
\* copy of members that is tried for ever is complete at some time.
Fairness ==
    /\ \A a \in Host :
         /\ WF_vars(Launch(a) \/ ResolveStep(a) \/ StartStep(a) \/ Exit(a))
         /\ SF_vars(ResolveMembers(a, 1 .. N))
    /\ WF_vars(\E x \in joins : Handle(x))

Spec == Init /\ [][Next]_vars
FairSpec == Spec /\ Fairness

-----------------------------------------------------------------------------
(* Properties.                                                              *)

\* The replica IDs an agent holds are raft IDs, 0 standing for none, and its member
\* tables lead from replica IDs to peers (agent.go:634-646).
TypeOK ==
    /\ \A a \in Host :
         /\ agent[a].rid \in Nat /\ agent[a].at \in 1 .. N + 1
         /\ IsTable(agent[a].members, Nat \ {0}, Peer)
         /\ IsTable(agent[a].seen, Nat \ {0}, Peer)
         /\ agent[a].uninit \subseteq Peer /\ agent[a].left \subseteq Peer
         /\ disk[a] \in {0, agent[a].rid} \/ agent[a].rid = 0
    /\ IsTable(nonVoting, Nat \ {0}, Host)
    /\ faults \in 0 .. MaxFaults

\* Raft needs every initial member of a shard to be started with the same members.
\* Whoever initializes and however Info and Members answers, partial copies,
\* crashes and restarts interleave, all peers start the prime replica with the same
\* full member list, each under its own ID (resolvePrimeMembership).
SameInitialMembers ==
    \A a \in Host : boot[a] # EmptyTable => boot[a] = InitialMembers /\ disk[a] = PlaceOf(a)

\* A host that joins runs its prime replica under an ID that the registry and raft
\* both give to it and to no other host, also when Join was retried while an
\* earlier handler was still running or the host crashed in between
\* (joinPrimeReplica; README.md:71 "dereference a replicaID to the correct host").
JoinerOwnsReplica ==
    \A a \in Host \ Peer :
        disk[a] # 0 =>
            /\ disk[a] \in DOMAIN nonVoting /\ nonVoting[disk[a]] = a
            /\ disk[a] \in DOMAIN reg.replica /\ reg.replica[disk[a]].HostID = a

\* "Start starts the agent, bootstrapping the cluster if required" (agent.go:235):
\* in the end every agent is ready.
AllReady == <>[](\A a \in Host : agent[a].pc = "ready")
=============================================================================
