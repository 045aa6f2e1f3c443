------------------------- MODULE PrimeBootstrapProofs -------------------------
(***************************************************************************)
(* All peers start raft shard 0 with the same members, for every peer list *)
(* and however many faults there are.                                      *)
(*                                                                         *)
(* What makes it true is that a peer never runs under another replica ID   *)
(* than its place in the peer list, so that whatever an agent has gathered *)
(* from the answers of others, in one round or over several, is a part of  *)
(* one and the same table; and a part that has N entries is all of it.     *)
(* That a peer takes no ID from elsewhere needs that it never joins, which *)
(* needs that it cannot have seen all N peers before it has an ID itself.  *)
(***************************************************************************)
EXTENDS PrimeBootstrap, FiniteSetTheorems, TLAPS

Fields == {"pc", "rid", "members", "seen", "uninit", "at", "next", "left", "raft"}
JoinFields == {"peer", "host", "phase", "id", "wanted", "n"}

\* Where Start continues after startPrimeReplica.
Continuation == {"", "awaiting", "putShard", "putHost"}

\* Where Start has resolved the members, or has failed to, and does not join.
Later == Continuation \cup {"starting", "addHosts", "addReplicas", "putStatus", "ready", "failed"}

\* A table of members that agrees with the initial members.
Part(seen) == /\ DOMAIN seen \subseteq 1 .. N
              /\ seen = [r \in DOMAIN seen |-> Peers[r]]

\* What holds of the memory m of agent a when its log store has replica ID d.
MemoryOK(a, m, d) ==
    /\ DOMAIN m = Fields /\ m.at \in Nat \ {0} /\ m.next \in Continuation
    /\ m.members \in {EmptyTable, InitialMembers}
    /\ Part(m.seen)
    /\ m.pc \in {"down", "probing", "hosted"} => m.seen = EmptyTable
    /\ m.pc = "resolved" => m.seen = InitialMembers

PeerOK(a, m) ==
    /\ m.rid \in {0, PlaceOf(a)} /\ m.pc \notin {"joining", "calling", "joined"}
    /\ m.pc = "resolved" => m.rid = PlaceOf(a)
    /\ m.pc \in {"resolving", "membership"} /\ m.rid = 0 => PlaceOf(a) \notin DOMAIN m.seen

OtherOK(m, d) == m.pc \in {"resolving", "membership", "resolved"} => m.rid = d

AgentOK(a, m, d) ==
    MemoryOK(a, m, d) /\ (a \in Peer => PeerOK(a, m)) /\ (a \notin Peer => OtherOK(m, d))

\* A replica is started with members at a peer only, under the peer's own ID.
DiskOK(a, d, b) ==
    /\ a \in Peer => d \in {0, PlaceOf(a)}
    /\ b # EmptyTable => a \in Peer /\ b = InitialMembers /\ d = PlaceOf(a)

\* Nobody handles a Join of a peer.
JoinOK(x) == DOMAIN x = JoinFields /\ x.host \in Host \ Peer

IInv ==
    /\ DOMAIN agent = Host /\ DOMAIN disk = Host /\ DOMAIN boot = Host
    /\ \A a \in Host : AgentOK(a, agent[a], disk[a]) /\ DiskOK(a, disk[a], boot[a])
    /\ \A x \in joins : JoinOK(x)

-----------------------------------------------------------------------------
(* The peer list.                                                           *)

\* There is a peer, and the peers are hosts.
LEMMA PeersAreHosts == N \in Nat \ {0} /\ Peer \subseteq Host
BY PeersAssumption DEF N, Peer

\* Every place of the list has its own peer.
LEMMA Places ==
  /\ \A a \in Peer : PlaceOf(a) \in 1 .. N /\ Peers[PlaceOf(a)] = a
  /\ \A i \in 1 .. N : Peers[i] \in Peer /\ PlaceOf(Peers[i]) = i
<1>1. \A a \in Peer : \E i \in 1 .. N : Peers[i] = a
  BY Zenon DEF Peer
<1>2. \A a \in Peer : PlaceOf(a) \in 1 .. N /\ Peers[PlaceOf(a)] = a
  BY Zenon, <1>1 DEF PlaceOf
<1>3. DOMAIN Peers = 1 .. N
  BY PeersAssumption DEF N
<1>4. \A i \in 1 .. N : Peers[i] \in Peer
  BY Zenon DEF Peer
<1>5. \A i, j \in 1 .. N : Peers[i] = Peers[j] => i = j
  BY Zenon, <1>3, PeersAssumption
<1>6. ASSUME NEW i \in 1 .. N PROVE PlaceOf(Peers[i]) = i
  BY Zenon, <1>2, <1>4, <1>5
<1> QED
  BY Zenon, <1>2, <1>4, <1>6

\* The initial members are a table with an entry.
LEMMA InitialIsPart == Part(InitialMembers) /\ InitialMembers # EmptyTable
BY PeersAreHosts DEF Part, InitialMembers, EmptyTable

\* Nothing seen is a part.
LEMMA EmptyIsPart == Part(EmptyTable) /\ DOMAIN EmptyTable = {}
BY Zenon DEF Part, EmptyTable

\* A part with as many entries as there are peers is complete.
LEMMA FullPart ==
  ASSUME NEW seen, Part(seen), Cardinality(DOMAIN seen) = N
  PROVE  seen = InitialMembers
<1>1. N \in Nat /\ IsFiniteSet(1 .. N) /\ Cardinality(1 .. N) = N
  BY PeersAreHosts, FS_Interval
<1>2. DOMAIN seen = 1 .. N
  BY Zenon, <1>1, FS_Subset DEF Part
<1> QED
  BY Zenon, <1>2 DEF Part, InitialMembers

\* A peer that answers adds itself to what was seen.
LEMMA WithPart ==
  ASSUME NEW seen, Part(seen), NEW p \in Peer
  PROVE  /\ Part(With(seen, PlaceOf(p), p))
         /\ DOMAIN With(seen, PlaceOf(p), p) = DOMAIN seen \cup {PlaceOf(p)}
BY Places DEF Part, With

-----------------------------------------------------------------------------
(* Steps that change the memory of one agent.                               *)

\* The memory of an agent that is not running.
LEMMA StoppedOK ==
  ASSUME NEW a \in Host, NEW d PROVE AgentOK(a, Stopped, d)
<1>1. MemoryOK(a, Stopped, d)
  BY EmptyIsPart DEF MemoryOK, Stopped, Fields, Continuation
<1> QED
  BY Zenon, <1>1 DEF AgentOK, PeerOK, OtherOK, Stopped

\* Nothing is asked of an agent that goes on after resolution.
LEMMA LaterOK ==
  ASSUME NEW a \in Host, NEW d, NEW m, AgentOK(a, m, d),
         NEW k, DOMAIN k = Fields, k.at \in Nat \ {0}, k.next \in Continuation,
         k.members = m.members, k.seen = m.seen, k.rid = m.rid,
         k.pc \in Later
  PROVE  AgentOK(a, k, d)
BY Zenon DEF AgentOK, MemoryOK, PeerOK, OtherOK, Later, Continuation

\* A step that changes the memory of one agent.
LEMMA BecomeInv ==
  ASSUME IInv, NEW a \in Host, NEW m, Become(a, m), AgentOK(a, m, disk[a]),
         UNCHANGED <<disk, boot>>, \A x \in joins' : JoinOK(x)
  PROVE  IInv'
BY Zenon DEF IInv, Become

\* A step of an agent that goes on after resolution.
LEMMA LaterInv ==
  ASSUME IInv, NEW a \in Host, NEW m, Become(a, m), DOMAIN m = Fields, m.at \in Nat \ {0},
         m.next = agent[a].next, m.members = agent[a].members, m.seen = agent[a].seen,
         m.rid = agent[a].rid, m.pc \in Later, UNCHANGED <<disk, boot, joins>>
  PROVE  IInv'
<1>1. AgentOK(a, agent[a], disk[a]) /\ agent[a].next \in Continuation
  BY Zenon DEF IInv, AgentOK, MemoryOK
<1>2. AgentOK(a, m, disk[a])
  BY Zenon, <1>1, LaterOK
<1> QED
  BY Zenon, <1>2, BecomeInv DEF IInv

\* A proposal of an agent that goes on after resolution, whether it succeeds or not.
LEMMA ProposedInv ==
  ASSUME IInv, NEW a \in Host, NEW t, NEW m, Proposed(a, t, m),
         DOMAIN m = Fields, m.at \in Nat \ {0}, m.next = agent[a].next,
         m.members = agent[a].members, m.seen = agent[a].seen,
         m.rid = agent[a].rid, m.pc \in Later
  PROVE  IInv'
<1> DEFINE k == [agent[a] EXCEPT !.pc = "failed"]
<1>1. DOMAIN agent[a] = Fields /\ agent[a].at \in Nat \ {0}
  BY Zenon DEF IInv, AgentOK, MemoryOK
<1>2. /\ DOMAIN k = Fields /\ k.at = agent[a].at /\ k.next = agent[a].next
      /\ k.members = agent[a].members /\ k.seen = agent[a].seen /\ k.rid = agent[a].rid
      /\ k.pc \in Later
  BY Zenon, <1>1 DEF Fields, Later
<1>3. (Become(a, m) \/ Become(a, k)) /\ UNCHANGED <<disk, boot, joins>>
  BY Zenon DEF Proposed
<1> HIDE DEF k
<1> QED
  BY Zenon, <1>1, <1>2, <1>3, LaterInv

-----------------------------------------------------------------------------
(* Resolution.                                                              *)

\* What is known of the agent that takes a step.
LEMMA Known ==
  ASSUME IInv, NEW a \in Host
  PROVE  /\ AgentOK(a, agent[a], disk[a]) /\ MemoryOK(a, agent[a], disk[a])
         /\ DOMAIN agent[a] = Fields /\ agent[a].at \in Nat \ {0}
         /\ DiskOK(a, disk[a], boot[a])
BY Zenon DEF IInv, AgentOK, MemoryOK

\* Before resolution nothing was seen.
LEMMA EarlyInv ==
  ASSUME IInv, NEW a \in Host, Launch(a) \/ Probe(a) \/ StartHost(a) \/ FindReplica(a)
  PROVE  IInv'
<1>1. /\ DOMAIN agent[a] = Fields /\ MemoryOK(a, agent[a], disk[a])
      /\ AgentOK(a, agent[a], disk[a]) /\ DiskOK(a, disk[a], boot[a])
  BY Zenon, Known
<1> DEFINE Early(k) ==
             /\ Become(a, k) /\ DOMAIN k = Fields /\ k.at \in Nat \ {0}
             /\ k.next = agent[a].next /\ k.members = agent[a].members
             /\ k.seen = agent[a].seen /\ agent[a].seen = EmptyTable
             /\ \/ k.pc \in {"probing", "hosted"} /\ k.rid = agent[a].rid
                \/ k.pc = "resolving" /\ k.rid = disk[a]
<1>2. PICK k : Early(k)
  <2>1. CASE Launch(a)
    <3>1. Early(At(a, "probing"))
      BY <1>1, <2>1 DEF Launch, Goto, At, Fields, MemoryOK
    <3> QED
      BY Zenon, <3>1
  <2>2. CASE Probe(a)
    <3> DEFINE k == [agent[a] EXCEPT !.at = IF Up(Peers[agent[a].at]) THEN @ + 1 ELSE 1]
    <3>1. Early(k)
      BY <1>1, <2>2 DEF Probe, Fields, MemoryOK
    <3> QED
      BY Zenon, <3>1
  <2>3. CASE StartHost(a)
    <3>1. Early(At(a, "hosted"))
      BY <1>1, <2>3 DEF StartHost, Goto, At, Fields, MemoryOK
    <3> QED
      BY Zenon, <3>1
  <2>4. CASE FindReplica(a)
    <3> DEFINE k == [agent[a] EXCEPT !.pc = "resolving", !.at = 1, !.rid = disk[a]]
    <3>1. Early(k)
      BY <1>1, <2>4 DEF FindReplica, Fields, MemoryOK
    <3> QED
      BY Zenon, <3>1
  <2> QED
    BY Zenon, <2>1, <2>2, <2>3, <2>4
<1>3. AgentOK(a, k, disk[a])
  BY Zenon, <1>1, <1>2, EmptyIsPart DEF AgentOK, MemoryOK, PeerOK, OtherOK, DiskOK
<1>4. UNCHANGED <<disk, boot, joins>>
  BY Zenon DEF Launch, Probe, StartHost, FindReplica
<1> QED
  BY Zenon, <1>2, <1>3, <1>4, BecomeInv DEF IInv

\* An agent that goes on with a round.
LEMMA SeenOK ==
  ASSUME NEW a \in Host, NEW d, NEW m, AgentOK(a, m, d), m.pc = "resolving",
         NEW k, DOMAIN k = Fields, k.at \in Nat \ {0}, k.next = m.next,
         k.members = m.members, k.rid = m.rid, k.pc = "resolving", Part(k.seen),
         a \in Peer /\ k.rid = 0 => PlaceOf(a) \notin DOMAIN k.seen
  PROVE  AgentOK(a, k, d)
BY Zenon DEF AgentOK, MemoryOK, PeerOK, OtherOK

\* An answer to Info adds a peer to what was seen, under its own ID.
LEMMA ResolveInfoInv ==
  ASSUME IInv, NEW a \in Host, ResolveInfo(a)
  PROVE  IInv'
<1> DEFINE m == agent[a]
           p == Peers[m.at]
           q == agent[p]
           fail == [m EXCEPT !.pc = "failed"]
           skip == [m EXCEPT !.at = @ + 1]
           bare == [m EXCEPT !.at = @ + 1, !.uninit = @ \cup {p}]
           held == [m EXCEPT !.at = @ + 1, !.seen = With(@, q.rid, p)]
<1>1. /\ DOMAIN m = Fields /\ m.at \in Nat \ {0} /\ MemoryOK(a, m, disk[a])
      /\ AgentOK(a, m, disk[a])
  BY Known, Zenon
<1>2. m.pc = "resolving" /\ m.at <= N /\ UNCHANGED <<disk, boot, joins>>
  BY Zenon DEF ResolveInfo
<1>3. \/ Become(a, fail) \/ Become(a, skip) \/ Become(a, bare)
      \/ q.rid # 0 /\ Become(a, held)
  BY Zenon DEF ResolveInfo
<1>4. p \in Peer /\ p \in Host
  <2> HIDE DEF m
  <2>1. m.at \in 1 .. N
    BY <1>1, <1>2, PeersAreHosts
  <2> QED
    BY Zenon, <2>1, Places, PeersAreHosts
<1>5. (q.rid \in {0, PlaceOf(p)}) /\ (p = a => q = m)
  <2> HIDE DEF p
  <2> QED
    BY Zenon, <1>4 DEF IInv, AgentOK, PeerOK
<1> HIDE DEF m, p, q
<1>6. Part(m.seen) /\ (a \in Peer /\ m.rid = 0 => PlaceOf(a) \notin DOMAIN m.seen)
  BY Zenon, <1>1, <1>2 DEF MemoryOK, AgentOK, PeerOK
<1>7. CASE Become(a, fail)
  <2>1. /\ DOMAIN fail = Fields /\ fail.at = m.at /\ fail.next = m.next
        /\ fail.members = m.members /\ fail.seen = m.seen /\ fail.rid = m.rid
        /\ fail.pc \in Later
    BY Zenon, <1>1 DEF Fields, Later
  <2> HIDE DEF fail
  <2> QED
    BY Zenon, <1>1, <1>2, <1>7, <2>1, LaterInv DEF m
<1>8. ASSUME NEW k, DOMAIN k = Fields, k.at = m.at + 1, k.next = m.next,
             k.members = m.members, k.rid = m.rid, k.pc = m.pc, Become(a, k), Part(k.seen),
             a \in Peer /\ k.rid = 0 => PlaceOf(a) \notin DOMAIN k.seen
      PROVE  IInv'
  <2>1. AgentOK(a, k, disk[a])
    BY <1>1, <1>2, <1>8, SeenOK
  <2> QED
    BY Zenon, <1>2, <1>8, <2>1, BecomeInv DEF IInv
<1>9. CASE Become(a, skip)
  <2>1. /\ DOMAIN skip = Fields /\ skip.at = m.at + 1 /\ skip.next = m.next
        /\ skip.members = m.members /\ skip.rid = m.rid /\ skip.pc = m.pc
        /\ skip.seen = m.seen
    BY Zenon, <1>1 DEF Fields
  <2> HIDE DEF skip
  <2> QED
    BY Zenon, <1>6, <1>8, <1>9, <2>1
<1>10. CASE Become(a, bare)
  <2>1. /\ DOMAIN bare = Fields /\ bare.at = m.at + 1 /\ bare.next = m.next
        /\ bare.members = m.members /\ bare.rid = m.rid /\ bare.pc = m.pc
        /\ bare.seen = m.seen
    BY Zenon, <1>1 DEF Fields
  <2> HIDE DEF bare
  <2> QED
    BY Zenon, <1>6, <1>8, <1>10, <2>1
<1>11. CASE q.rid # 0 /\ Become(a, held)
  <2>1. q.rid = PlaceOf(p)
    BY Zenon, <1>5, <1>11
  <2>2. /\ DOMAIN held = Fields /\ held.at = m.at + 1 /\ held.next = m.next
        /\ held.members = m.members /\ held.rid = m.rid /\ held.pc = m.pc
        /\ held.seen = With(m.seen, q.rid, p)
    BY Zenon, <1>1 DEF Fields
  <2> HIDE DEF held
  <2>3. Part(held.seen) /\ DOMAIN held.seen = DOMAIN m.seen \cup {PlaceOf(p)}
    BY <1>4, <1>6, <2>1, <2>2, WithPart
  <2>4. ASSUME a \in Peer, m.rid = 0 PROVE PlaceOf(a) \notin DOMAIN held.seen
    <3>1. p # a
      BY Zenon, <1>5, <1>11, <2>4
    <3>2. PlaceOf(p) # PlaceOf(a)
      BY Zenon, <1>4, <2>4, <3>1, Places
    <3> QED
      BY Zenon, <1>6, <2>3, <2>4, <3>2
  <2> QED
    BY Zenon, <1>8, <1>11, <2>2, <2>3, <2>4
<1> QED
  BY Zenon, <1>3, <1>7, <1>9, <1>10, <1>11

\* A round that is repeated starts with nothing seen.
LEMMA RetryOK ==
  ASSUME NEW a \in Host, NEW d, NEW m, AgentOK(a, m, d), NEW k, k = Retry(m),
         NEW rid, a \in Peer => rid \in {0, PlaceOf(a)}, a \notin Peer => rid = d
  PROVE  AgentOK(a, [k EXCEPT !.rid = rid], d)
<1>1. DOMAIN m = Fields /\ MemoryOK(a, m, d)
  BY Zenon DEF AgentOK, MemoryOK
<1> DEFINE j == [k EXCEPT !.rid = rid]
<1>2. /\ DOMAIN j = Fields /\ j.pc = "resolving" /\ j.at = 1 /\ j.seen = EmptyTable
      /\ j.rid = rid /\ j.members = m.members /\ j.next = m.next
  BY Zenon, <1>1 DEF Retry, Fields
<1> HIDE DEF j
<1>3. AgentOK(a, j, d)
  BY <1>1, <1>2, EmptyIsPart DEF AgentOK, MemoryOK, PeerOK, OtherOK
<1> QED
  BY Zenon, <1>3 DEF j

\* The members a round ends with are the initial members, and a peer then has its ID.
LEMMA ResolveDecideInv ==
  ASSUME IInv, NEW a \in Host, ResolveDecide(a)
  PROVE  IInv'
<1> DEFINE m == agent[a]
           all == [m EXCEPT !.pc = "resolved", !.next = "awaiting"]
           new == [m EXCEPT !.pc = "resolved", !.seen = InitialMembers, !.rid = PlaceOf(a),
                            !.next = "putShard"]
           ask == [m EXCEPT !.pc = "membership"]
<1>1. /\ DOMAIN m = Fields /\ m.at \in Nat \ {0} /\ MemoryOK(a, m, disk[a])
      /\ AgentOK(a, m, disk[a])
  BY Zenon, Known
<1>2. m.pc = "resolving" /\ UNCHANGED <<disk, boot, joins>>
  BY Zenon DEF ResolveDecide
<1>3. \/ Cardinality(DOMAIN m.seen) = N /\ Become(a, all)
      \/ a \in Peer /\ Become(a, new)
      \/ Become(a, ask)
      \/ Become(a, Retry(m))
  BY Zenon DEF ResolveDecide
<1>4. CASE Cardinality(DOMAIN m.seen) = N /\ Become(a, all)
  <2>1. m.seen = InitialMembers /\ DOMAIN m.seen = 1 .. N
    BY <1>1, <1>4, FullPart, Zenon DEF MemoryOK, InitialMembers
  <2>2. a \in Peer => m.rid = PlaceOf(a)
    BY Zenon, <1>1, <1>2, <2>1, Places DEF AgentOK, PeerOK
  <2>3. /\ DOMAIN all = Fields /\ all.pc = "resolved" /\ all.next = "awaiting"
        /\ all.at = m.at /\ all.seen = m.seen /\ all.rid = m.rid /\ all.members = m.members
    BY Zenon, <1>1 DEF Fields
  <2> HIDE DEF all
  <2>4. AgentOK(a, all, disk[a])
    BY Zenon, <1>1, <1>2, <2>1, <2>2, <2>3 DEF AgentOK, MemoryOK, PeerOK, OtherOK, Continuation
  <2> QED
    BY Zenon, <1>2, <1>4, <2>4, BecomeInv DEF IInv
<1>5. CASE a \in Peer /\ Become(a, new)
  <2>1. /\ DOMAIN new = Fields /\ new.pc = "resolved" /\ new.next = "putShard"
        /\ new.at = m.at /\ new.seen = InitialMembers /\ new.rid = PlaceOf(a)
        /\ new.members = m.members
    BY Zenon, <1>1 DEF Fields
  <2> HIDE DEF new
  <2>2. AgentOK(a, new, disk[a])
    BY Zenon, <1>1, <1>5, <2>1, InitialIsPart DEF AgentOK, MemoryOK, PeerOK, Continuation
  <2> QED
    BY Zenon, <1>2, <1>5, <2>2, BecomeInv DEF IInv
<1>6. CASE Become(a, ask)
  <2>1. /\ DOMAIN ask = Fields /\ ask.pc = "membership" /\ ask.next = m.next
        /\ ask.at = m.at /\ ask.seen = m.seen /\ ask.rid = m.rid /\ ask.members = m.members
    BY Zenon, <1>1 DEF Fields
  <2> HIDE DEF ask
  <2>2. AgentOK(a, ask, disk[a])
    BY Zenon, <1>1, <1>2, <2>1 DEF AgentOK, MemoryOK, PeerOK, OtherOK
  <2> QED
    BY Zenon, <1>2, <1>6, <2>2, BecomeInv DEF IInv
<1>7. CASE Become(a, Retry(m))
  <2>1. Retry(m) = [Retry(m) EXCEPT !.rid = m.rid]
    BY <1>1, Zenon DEF Retry, Fields
  <2>2. (a \in Peer => m.rid \in {0, PlaceOf(a)}) /\ (a \notin Peer => m.rid = disk[a])
    BY Zenon, <1>1, <1>2 DEF AgentOK, PeerOK, OtherOK
  <2>3. AgentOK(a, Retry(m), disk[a])
    BY <1>1, <2>1, <2>2, RetryOK
  <2> QED
    BY Zenon, <1>2, <1>7, <2>3, BecomeInv DEF IInv
<1> QED
  BY Zenon, <1>3, <1>4, <1>5, <1>6, <1>7

\* What another peer's answer to Members adds, in part or whole, is part of the initial
\* members, and the agent's own ID in it is its place.
LEMMA ResolveMembersInv ==
  ASSUME IInv, NEW a \in Host, NEW part, ResolveMembers(a, part)
  PROVE  IInv'
<1> DEFINE m == agent[a]
           members == IF Asked(a) = {} THEN EmptyTable
                      ELSE agent[CHOOSE p \in Asked(a) : TRUE].members
           own == {r \in DOMAIN members : members[r] = a}
           rid == IF own = {} THEN m.rid ELSE CHOOSE r \in own : TRUE
           seen == [r \in DOMAIN m.seen \cup part |->
                      IF r \in part THEN members[r] ELSE m.seen[r]]
           fail == [m EXCEPT !.pc = "failed"]
           done == [m EXCEPT !.pc = "resolved", !.rid = rid, !.seen = seen,
                             !.next = "awaiting"]
           again == [Retry(m) EXCEPT !.rid = rid]
<1>1. /\ DOMAIN m = Fields /\ m.at \in Nat \ {0} /\ MemoryOK(a, m, disk[a])
      /\ AgentOK(a, m, disk[a])
  BY Zenon, Known
<1>2. m.pc = "membership" /\ UNCHANGED <<disk, boot, joins>> /\ part \in Copies(a, members)
  BY Zenon DEF ResolveMembers
<1>3. \/ Become(a, fail)
      \/ Resolves(rid, seen) /\ Become(a, done)
      \/ Become(a, again)
  BY Zenon DEF ResolveMembers
<1>4. members \in {EmptyTable, InitialMembers}
  <2>1. Asked(a) \subseteq Host
    BY Places, PeersAreHosts DEF Asked
  <2>2. CASE Asked(a) # {}
    BY Zenon, <2>1, <2>2 DEF IInv, AgentOK, MemoryOK
  <2> QED
    BY Zenon, <2>2
<1>5. Part(members) /\ part \subseteq DOMAIN members
  BY <1>2, <1>4, EmptyIsPart, InitialIsPart, Zenon DEF Copies
<1>6. \A r \in own : a \in Peer /\ r = PlaceOf(a)
  BY <1>5, Places DEF Part
<1> HIDE DEF members
<1>7. /\ a \in Peer => rid \in {0, PlaceOf(a)}
      /\ a \notin Peer => rid = disk[a]
  BY Zenon, <1>1, <1>2, <1>6 DEF AgentOK, PeerOK, OtherOK
<1>8. Part(seen)
  BY <1>1, <1>5 DEF MemoryOK, Part
<1> HIDE DEF own, rid, seen
<1>9. CASE Become(a, fail)
  <2>1. /\ DOMAIN fail = Fields /\ fail.pc \in Later /\ fail.next = m.next
        /\ fail.at = m.at /\ fail.seen = m.seen /\ fail.rid = m.rid
        /\ fail.members = m.members
    BY Zenon, <1>1 DEF Fields, Later
  <2> HIDE DEF fail
  <2> QED
    BY Zenon, <1>1, <1>2, <1>9, <2>1, LaterInv
<1>10. CASE Resolves(rid, seen) /\ Become(a, done)
  <2>1. seen = InitialMembers
    BY Zenon, <1>8, <1>10, FullPart DEF Resolves
  <2>2. a \in Peer => rid = PlaceOf(a)
    BY <1>7, <1>10 DEF Resolves
  <2>3. /\ DOMAIN done = Fields /\ done.pc = "resolved" /\ done.next = "awaiting"
        /\ done.at = m.at /\ done.seen = seen /\ done.rid = rid /\ done.members = m.members
    BY Zenon, <1>1 DEF Fields
  <2> HIDE DEF done
  <2>4. AgentOK(a, done, disk[a])
    BY Zenon, <1>1, <1>7, <2>1, <2>2, <2>3, InitialIsPart
       DEF AgentOK, MemoryOK, PeerOK, OtherOK, Continuation
  <2> QED
    BY Zenon, <1>2, <1>10, <2>4, BecomeInv DEF IInv
<1>11. CASE Become(a, again)
  <2>1. AgentOK(a, again, disk[a])
    BY Zenon, <1>1, <1>7, RetryOK
  <2> QED
    BY Zenon, <1>2, <1>11, <2>1, BecomeInv DEF IInv
<1> QED
  BY Zenon, <1>3, <1>9, <1>10, <1>11

-----------------------------------------------------------------------------
(* After resolution.                                                        *)

\* A replica that is new is started with the members resolved, under the agent's ID.
LEMMA ResolvedInv ==
  ASSUME IInv, NEW a \in Host, Resolved(a)
  PROVE  IInv'
<1> DEFINE m == [agent[a] EXCEPT !.members = agent[a].seen, !.seen = EmptyTable,
                                 !.uninit = {}, !.at = 1]
           new == m.rid # 0 /\ disk[a] = 0
           join == [m EXCEPT !.pc = "joining"]
           go == [m EXCEPT !.pc = "starting", !.raft = TRUE,
                           !.next = IF new THEN @ ELSE "putHost"]
<1>1. /\ DOMAIN agent[a] = Fields /\ MemoryOK(a, agent[a], disk[a])
      /\ AgentOK(a, agent[a], disk[a]) /\ DiskOK(a, disk[a], boot[a])
  BY Zenon, Known
<1>2. /\ DOMAIN m = Fields /\ m.pc = agent[a].pc /\ m.rid = agent[a].rid /\ m.at = 1
      /\ m.members = agent[a].seen /\ m.seen = EmptyTable /\ m.next = agent[a].next
  BY Zenon, <1>1 DEF Fields
<1>3. /\ m.pc = "resolved" /\ disk' = [disk EXCEPT ![a] = m.rid]
      /\ boot' = (IF new THEN [boot EXCEPT ![a] = m.members] ELSE boot)
      /\ UNCHANGED joins
  BY Zenon DEF Resolved
<1>4. (m.rid = 0 /\ Become(a, join)) \/ (m.rid # 0 /\ Become(a, go))
  BY Zenon DEF Resolved
<1> HIDE DEF m
<1>5. /\ m.members = InitialMembers
      /\ a \in Peer => m.rid = PlaceOf(a) /\ m.rid # 0
      /\ a \notin Peer => m.rid = disk[a]
  BY <1>1, <1>2, <1>3, Places DEF MemoryOK, AgentOK, PeerOK, OtherOK
<1> DEFINE Goes(k) ==
             /\ Become(a, k) /\ DOMAIN k = Fields /\ k.at = 1 /\ k.next \in Continuation
             /\ k.rid = m.rid /\ k.members = m.members /\ k.seen = EmptyTable
             /\ k.pc = "starting" \/ (k.pc = "joining" /\ m.rid = 0)
<1>6. PICK k : Goes(k)
  <2>1. CASE m.rid = 0 /\ Become(a, join)
    <3>1. Goes(join)
      BY Zenon, <1>1, <1>2, <2>1 DEF Fields, MemoryOK
    <3> QED
      BY Zenon, <3>1
  <2>2. CASE m.rid # 0 /\ Become(a, go)
    <3>1. /\ DOMAIN go = Fields /\ go.at = 1 /\ go.rid = m.rid /\ go.members = m.members
          /\ go.seen = EmptyTable /\ go.pc = "starting" /\ go.next \in {m.next, "putHost"}
      BY Zenon, <1>2 DEF Fields
    <3>2. Goes(go)
      BY Zenon, <1>1, <1>2, <2>2, <3>1 DEF MemoryOK, Continuation
    <3> QED
      BY Zenon, <3>2
  <2> QED
    BY Zenon, <1>4, <2>1, <2>2
<1>7. AgentOK(a, k, m.rid)
  BY <1>5, <1>6, EmptyIsPart DEF AgentOK, MemoryOK, PeerOK, OtherOK
<1>8. DiskOK(a, m.rid, IF new THEN m.members ELSE boot[a])
  BY Zenon, <1>1, <1>5 DEF DiskOK
<1>9. /\ agent' = [agent EXCEPT ![a] = k] /\ DOMAIN boot' = Host
      /\ \A b \in Host : boot'[b] = IF b = a /\ new THEN m.members ELSE boot[b]
  BY Zenon, <1>3, <1>6 DEF Become, IInv
<1> HIDE DEF new
<1> QED
  BY Zenon, <1>3, <1>7, <1>8, <1>9 DEF IInv

\* The registry is filled and the host and replica updated.
LEMMA FilledInv ==
  ASSUME IInv, NEW a \in Host,
         \/ Started(a) \/ PutShard(a) \/ (\E h \in Host : AddHost(a, h)) \/ AddReplica(a)
         \/ Await(a) \/ PutHost(a) \/ PutStatus(a)
  PROVE  IInv'
<1>1. /\ DOMAIN agent[a] = Fields /\ agent[a].at \in Nat \ {0}
      /\ agent[a].next \in Continuation
  BY Zenon, Known DEF MemoryOK
<1> DEFINE Keeps(k) == /\ DOMAIN k = Fields /\ k.at \in Nat \ {0} /\ k.next = agent[a].next
                       /\ k.members = agent[a].members /\ k.seen = agent[a].seen
                       /\ k.rid = agent[a].rid /\ k.pc \in Later
<1>2. \A pc \in Later : Keeps(At(a, pc))
  BY <1>1 DEF At, Fields
<1>3. ASSUME NEW k, Keeps(k), Become(a, k), UNCHANGED <<disk, boot, joins>> PROVE IInv'
  BY Zenon, <1>3, LaterInv
<1>4. ASSUME NEW k, Keeps(k), NEW t, Proposed(a, t, k) PROVE IInv'
  BY Zenon, <1>4, ProposedInv
<1>5. CASE Started(a)
  <2> DEFINE k == [agent[a] EXCEPT !.pc = agent[a].next, !.left = Peer, !.at = 1]
  <2>1. Keeps(k)
    BY <1>1 DEF Fields, Later
  <2>2. Become(a, k) /\ UNCHANGED <<disk, boot, joins>>
    BY Zenon, <1>5 DEF Started
  <2> HIDE DEF k, Keeps
  <2> QED
    BY Zenon, <1>3, <2>1, <2>2
<1>6. CASE Await(a)
  <2>1. Become(a, At(a, "putHost")) /\ UNCHANGED <<disk, boot, joins>>
    BY Zenon, <1>6 DEF Await, Goto
  <2>2. Keeps(At(a, "putHost"))
    BY Zenon, <1>2 DEF Later, Continuation
  <2> HIDE DEF Keeps
  <2> QED
    BY Zenon, <1>3, <2>1, <2>2
<1>7. CASE PutShard(a) \/ PutHost(a) \/ PutStatus(a)
  <2>1. \E t, pc : pc \in Later /\ Proposed(a, t, At(a, pc))
    BY Zenon, <1>7 DEF PutShard, PutHost, PutStatus, Later, Continuation
  <2> HIDE DEF Keeps
  <2> QED
    BY Zenon, <1>2, <1>4, <2>1
<1>8. CASE \E h \in Host : AddHost(a, h)
  <2>1. PICK h \in Host : AddHost(a, h)
    BY <1>8, Zenon
  <2> DEFINE k == [agent[a] EXCEPT !.left = @ \ {h},
                                   !.pc = IF agent[a].left = {h} THEN "addReplicas" ELSE @]
  <2>2. agent[a].pc = "addHosts" /\ Proposed(a, HostPut(reg, h, EmptyTable), k)
    BY <2>1, Zenon DEF AddHost
  <2>3. Keeps(k)
    BY Zenon, <1>1, <2>2 DEF Fields, Later
  <2> HIDE DEF k, Keeps
  <2> QED
    BY Zenon, <1>4, <2>2, <2>3
<1>9. CASE AddReplica(a)
  <2> DEFINE k == [agent[a] EXCEPT !.at = @ + 1]
             t == ReplicaPost(reg, Peers[agent[a].at], PrimeShard, FALSE)
  <2>1. agent[a].pc = "addReplicas"
        /\ (Proposed(a, t, k) \/ Proposed(a, t, At(a, "putHost")))
    BY <1>9, Zenon DEF AddReplica
  <2>2. Keeps(k)
    BY <1>1, <2>1 DEF Fields, Later
  <2>3. Keeps(At(a, "putHost"))
    BY Zenon, <1>2 DEF Later, Continuation
  <2> HIDE DEF k, Keeps, t
  <2> QED
    BY Zenon, <1>4, <2>1, <2>2, <2>3
<1> QED
  BY Zenon, <1>5, <1>6, <1>7, <1>8, <1>9

\* A process ends.
LEMMA ExitInv ==
  ASSUME IInv, NEW a \in Host, Exit(a)
  PROVE  IInv'
BY Zenon, StoppedOK, BecomeInv DEF Exit, IInv

-----------------------------------------------------------------------------
(* Joining.                                                                 *)

\* Nothing is asked of an agent that is no peer and joins.
LEMMA JoiningOK ==
  ASSUME NEW a \in Host \ Peer, NEW m, NEW d, NEW e, AgentOK(a, m, d),
         NEW k, DOMAIN k = Fields, k.at \in Nat \ {0}, k.next \in Continuation,
         k.members = m.members, k.seen = m.seen,
         k.pc \in {"joining", "calling", "joined", "starting"}
  PROVE  AgentOK(a, k, e)
BY Zenon DEF AgentOK, MemoryOK, OtherOK

\* Only an agent that is no peer calls Join.
LEMMA JoinInv ==
  ASSUME IInv, NEW a \in Host, Join(a)
  PROVE  IInv'
<1> DEFINE m == agent[a]
           ready == m.at <= N /\ agent[Peers[m.at]].pc = "ready"
           k == IF ready THEN [m EXCEPT !.pc = "calling"]
                ELSE [m EXCEPT !.at = IF @ <= N THEN @ + 1 ELSE 1]
           x == [peer |-> Peers[m.at], host |-> a, phase |-> "findHost",
                 id |-> 0, wanted |-> TRUE, n |-> faults]
<1>1. /\ DOMAIN m = Fields /\ m.at \in Nat \ {0} /\ AgentOK(a, m, disk[a])
      /\ m.next \in Continuation
  BY Zenon, Known DEF MemoryOK
<1>2. /\ m.pc = "joining" /\ Become(a, k) /\ UNCHANGED <<disk, boot>>
      /\ joins' \subseteq joins \cup {x}
  BY Zenon DEF Join
<1>3. a \notin Peer
  BY Zenon, <1>1, <1>2 DEF AgentOK, PeerOK
<1>4. \A y \in joins' : JoinOK(y)
  <2>1. JoinOK(x)
    BY Zenon, <1>3 DEF JoinOK, JoinFields
  <2> HIDE DEF x
  <2> QED
    BY Zenon, <1>2, <2>1 DEF IInv
<1>5. /\ DOMAIN k = Fields /\ k.at \in Nat \ {0} /\ k.next = m.next
      /\ k.members = m.members /\ k.seen = m.seen /\ k.pc \in {"joining", "calling"}
  BY <1>1, <1>2, PeersAreHosts DEF Fields
<1> HIDE DEF k
<1>6. AgentOK(a, k, disk[a])
  BY Zenon, <1>1, <1>3, <1>5, JoiningOK
<1> QED
  BY Zenon, <1>2, <1>4, <1>6, BecomeInv

\* The caller of a handler is no peer.
LEMMA AnsweredOK ==
  ASSUME IInv, NEW x \in joins, NEW id
  PROVE  x.host \in Host /\ AgentOK(x.host, Answered(x, id), disk[x.host])
<1> DEFINE a == x.host
           k == [agent[a] EXCEPT !.pc = "joined", !.rid = id]
           j == [agent[a] EXCEPT !.pc = "joining", !.at = @ + 1]
<1>1. a \in Host \ Peer
  BY Zenon DEF IInv, JoinOK
<1>2. /\ DOMAIN agent[a] = Fields /\ agent[a].at \in Nat \ {0}
      /\ AgentOK(a, agent[a], disk[a]) /\ agent[a].next \in Continuation
  BY Zenon, <1>1, Known DEF MemoryOK
<1>3. Answered(x, id) \in {agent[a], k, j}
  BY Zenon DEF Answered
<1>4. /\ DOMAIN k = Fields /\ k.at = agent[a].at /\ k.next = agent[a].next
      /\ k.members = agent[a].members /\ k.seen = agent[a].seen /\ k.pc = "joined"
  BY Zenon, <1>2 DEF Fields
<1>5. /\ DOMAIN j = Fields /\ j.at \in Nat \ {0} /\ j.next = agent[a].next
      /\ j.members = agent[a].members /\ j.seen = agent[a].seen /\ j.pc = "joining"
  BY <1>2 DEF Fields
<1> HIDE DEF a, k, j
<1>6. AgentOK(a, k, disk[a]) /\ AgentOK(a, j, disk[a])
  BY Zenon, <1>1, <1>2, <1>4, <1>5, JoiningOK
<1>7. a \in Host /\ AgentOK(a, Answered(x, id), disk[a])
  BY Zenon, <1>1, <1>2, <1>3, <1>6
<1> QED
  BY Zenon, <1>7 DEF a

\* A handler answers its caller, and is gone or wanted no more.
LEMMA AnswerInv ==
  ASSUME IInv, NEW x \in joins, NEW id, Become(x.host, Answered(x, id)),
         UNCHANGED <<disk, boot>>,
         joins' \subseteq joins \cup {[x EXCEPT !.wanted = FALSE]}
  PROVE  IInv'
<1>1. x.host \in Host /\ AgentOK(x.host, Answered(x, id), disk[x.host])
  BY Zenon, AnsweredOK
<1>2. JoinOK([x EXCEPT !.wanted = FALSE])
  BY Zenon DEF IInv, JoinOK, JoinFields
<1>3. \A y \in joins' : JoinOK(y)
  BY <1>2, Zenon DEF IInv
<1> QED
  BY Zenon, <1>1, <1>3, BecomeInv

\* A step of a handler.
LEMMA HandleInv ==
  ASSUME IInv, NEW x \in joins, Handle(x)
  PROVE  IInv'
<1>1. ASSUME NEW phase, NEW id, Move(x, phase, id) PROVE IInv'
  <2>1. JoinOK([x EXCEPT !.phase = phase, !.id = id])
    BY Zenon DEF IInv, JoinOK, JoinFields
  <2> QED
    BY Zenon, <1>1, <2>1 DEF IInv, Move
<1>2. CASE FindHost(x) \/ JoinAddHost(x) \/ FindPrimeReplica(x) \/ JoinAddReplica(x)
  <2>1. \E phase, id : Move(x, phase, id)
    BY <1>2, Zenon DEF FindHost, JoinAddHost, FindPrimeReplica, JoinAddReplica
  <2> QED
    BY Zenon, <1>1, <2>1
<1>3. CASE AddMember(x)
  <2>1. PICK id : Reply(x, id) /\ UNCHANGED <<disk, boot>>
    BY Zenon, <1>3 DEF AddMember
  <2> QED
    BY Zenon, <2>1, AnswerInv DEF Reply
<1> QED
  BY Zenon, <1>2, <1>3 DEF Handle

\* A Join call that times out or fails.
LEMMA JoinFaultInv ==
  ASSUME IInv, NEW x \in joins, JoinTimeout(x) \/ JoinFails(x)
  PROVE  IInv'
<1>1. /\ Become(x.host, Answered(x, 0)) /\ UNCHANGED <<disk, boot>>
      /\ joins' \subseteq joins \cup {[x EXCEPT !.wanted = FALSE]}
  BY Zenon DEF JoinTimeout, JoinFails, Reply
<1> QED
  BY Zenon, <1>1, AnswerInv

\* A host that has joined starts its replica without members.
LEMMA StartJoinedInv ==
  ASSUME IInv, NEW a \in Host, StartJoined(a)
  PROVE  IInv'
<1> DEFINE m == agent[a]
           k == [At(a, "starting") EXCEPT !.raft = TRUE, !.next = "putHost"]
<1>1. /\ DOMAIN m = Fields /\ AgentOK(a, m, disk[a]) /\ DiskOK(a, disk[a], boot[a])
  BY Zenon, Known
<1>2. /\ m.pc = "joined" /\ Become(a, k) /\ disk' = [disk EXCEPT ![a] = m.rid]
      /\ UNCHANGED <<boot, joins>>
  BY Zenon DEF StartJoined
<1>3. a \notin Peer
  BY Zenon, <1>1, <1>2 DEF AgentOK, PeerOK
<1>4. /\ DOMAIN k = Fields /\ k.at \in Nat \ {0} /\ k.next \in Continuation
      /\ k.members = m.members /\ k.seen = m.seen /\ k.pc = "starting"
  BY <1>1 DEF At, Fields, Continuation
<1> HIDE DEF k
<1>5. AgentOK(a, k, m.rid)
  BY Zenon, <1>1, <1>3, <1>4, JoiningOK
<1>6. DiskOK(a, m.rid, boot[a])
  BY Zenon, <1>1, <1>3 DEF DiskOK
<1> QED
  BY Zenon, <1>2, <1>5, <1>6 DEF IInv, Become

\* A process crashes, and the callers of its handlers go on to the next peer.
LEMMA CrashInv ==
  ASSUME IInv, NEW a \in Host, Crash(a)
  PROVE  IInv'
<1> DEFINE turned(b) == [agent[b] EXCEPT !.pc = "joining", !.at = @ + 1]
<1>1. /\ DOMAIN agent' = Host /\ UNCHANGED <<disk, boot>>
      /\ \A b \in Host : \/ agent'[b] = Stopped
                         \/ agent'[b] = agent[b]
                         \/ agent'[b] = turned(b) /\ \E x \in joins : x.host = b
  <2> HIDE DEF turned
  <2>1. agent' = [b \in Host |->
          IF b = a THEN Stopped
          ELSE IF \E x \in joins : x.peer = a /\ x.host = b /\ x.wanted THEN turned(b)
          ELSE agent[b]]
    BY Zenon DEF Crash, turned
  <2>2. UNCHANGED <<disk, boot>>
    BY Zenon DEF Crash
  <2> QED
    BY <2>1, <2>2, Zenon
<1>2. \A y \in joins' : \E x \in joins : y = x \/ y = [x EXCEPT !.wanted = FALSE]
  BY Zenon DEF Crash
<1>3. \A y \in joins' : JoinOK(y)
  BY <1>2 DEF IInv, JoinOK, JoinFields
<1>4. ASSUME NEW b \in Host, NEW x \in joins, x.host = b
      PROVE  AgentOK(b, turned(b), disk[b])
  <2>1. b \in Host \ Peer
    BY Zenon, <1>4 DEF IInv, JoinOK
  <2>2. /\ DOMAIN agent[b] = Fields /\ agent[b].at \in Nat \ {0}
        /\ AgentOK(b, agent[b], disk[b]) /\ agent[b].next \in Continuation
    BY Zenon, Known DEF MemoryOK
  <2> DEFINE j == turned(b)
  <2>3. /\ DOMAIN j = Fields /\ j.at \in Nat \ {0} /\ j.next = agent[b].next
        /\ j.members = agent[b].members /\ j.seen = agent[b].seen /\ j.pc = "joining"
    BY <2>2 DEF Fields
  <2> HIDE DEF j
  <2>4. AgentOK(b, j, disk[b])
    BY Zenon, <2>1, <2>2, <2>3, JoiningOK
  <2> QED
    BY Zenon, <2>4 DEF j
<1> HIDE DEF turned
<1>5. \A b \in Host : AgentOK(b, agent'[b], disk[b])
  BY <1>1, <1>4, StoppedOK DEF IInv
<1>6. DOMAIN disk = Host /\ DOMAIN boot = Host
      /\ \A b \in Host : DiskOK(b, disk[b], boot[b])
  BY Zenon DEF IInv
<1> QED
  BY <1>1, <1>3, <1>5, <1>6, Zenon DEF IInv

-----------------------------------------------------------------------------
(* The specification.                                                       *)

\* The initial states satisfy the invariant.
LEMMA InitInv == Init => IInv
BY StoppedOK, Places, PeersAreHosts DEF Init, IInv, DiskOK

\* Every step preserves it.
LEMMA NextInv == IInv /\ [Next]_vars => IInv'
<1> SUFFICES ASSUME IInv, [Next]_vars PROVE IInv'
  OBVIOUS
<1>1. ASSUME NEW a \in Host, Launch(a) \/ ResolveStep(a) PROVE IInv'
  BY Zenon, <1>1, EarlyInv, ResolveInfoInv, ResolveDecideInv, ResolveMembersInv, ResolvedInv
     DEF ResolveStep
<1>2. ASSUME NEW a \in Host, StartStep(a) PROVE IInv'
  BY Zenon, <1>2, FilledInv, JoinInv, StartJoinedInv DEF StartStep
<1>3. ASSUME NEW a \in Host, Exit(a) \/ Crash(a) PROVE IInv'
  BY Zenon, <1>3, ExitInv, CrashInv
<1>4. ASSUME NEW x \in joins, Handle(x) \/ JoinTimeout(x) \/ JoinFails(x) PROVE IInv'
  BY Zenon, <1>4, HandleInv, JoinFaultInv
<1>5. CASE UNCHANGED vars
  BY Zenon, <1>5 DEF IInv, vars
<1> QED
  BY Zenon, <1>1, <1>2, <1>3, <1>4, <1>5 DEF Next

\* The invariant holds in every reachable state.
THEOREM AlwaysIInv == Spec => []IInv
BY InitInv, NextInv, PTL DEF Spec

\* Whoever initializes the cluster, in whatever order agents start, answer, crash and
\* come back, every replica of raft shard 0 that is started with members is that of a
\* peer, has the full list and runs under the peer's place in it
\* (resolvePrimeMembership, agent.go).
THEOREM SameMembers == Spec => []SameInitialMembers
<1>1. IInv => SameInitialMembers
  BY Zenon DEF IInv, DiskOK, SameInitialMembers
<1> QED
  BY <1>1, AlwaysIInv, PTL
=============================================================================
