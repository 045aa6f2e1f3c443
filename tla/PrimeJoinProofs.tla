---------------------------- MODULE PrimeJoinProofs ----------------------------
(***************************************************************************)
(* A host that joins runs under a replica ID that the registry and raft    *)
(* give to it and to no other host, for every peer list, any number of     *)
(* hosts that join, and however many calls, handlers and faults there are. *)
(*                                                                         *)
(* The argument: replicas are added and never moved, so the host a handler *)
(* has found or added a replica for stays that replica's host; a handler   *)
(* adds to raft the replica it has found, and answers with that one.  That *)
(* a replica was added at all needs that no command panics, and so that    *)
(* primeInit and the handlers add a replica after its host.                *)
(***************************************************************************)
EXTENDS PrimeBootstrapProofs, RegistryFSMProofs

\* Registry s places replica r on host a.
Row(r, a, s) == r \in DOMAIN s.replica /\ s.replica[r].HostID = a

\* Registry s and the raft members nv give replica ID r to host a.
Owns(r, a, s, nv) == r \in DOMAIN nv /\ nv[r] = a /\ Row(r, a, s)

\* What an agent walks over and collects.
Shape(m) ==
    /\ m.at \in 1 .. N + 1 /\ m.uninit \subseteq Peer /\ m.left \subseteq Peer
    /\ m.pc = "calling" => m.at <= N

\* primeInit adds the replica of a host after the host.
Fills(m, s) ==
    /\ m.pc \in {"putShard", "addHosts"} => m.at = 1 /\ Peer \ m.left \subseteq DOMAIN s.host
    /\ m.pc = "addReplicas" => m.at <= N /\ Peer \subseteq DOMAIN s.host

\* What an agent that is no peer has joined as.
Joiner(m, d, a, s, nv) ==
    /\ m.rid = 0 \/ Owns(m.rid, a, s, nv)
    /\ d = 0 \/ Owns(d, a, s, nv)
    /\ m.rid # 0 => d \in {0, m.rid}
    /\ m.pc \in {"joining", "calling", "joined"} => d = 0

Sound(a, m, d, s, nv) ==
    Shape(m) /\ Fills(m, s) /\ (a \notin Peer => Joiner(m, d, a, s, nv))

\* How far handler x has got.
Phase(x, s) ==
    /\ x.phase \in {"findReplica", "addReplica"} => x.host \in DOMAIN s.host
    /\ x.phase = "addMember" => Row(x.id, x.host, s)

\* A host waits for at most one handler.
Waits ==
    /\ \A x \in joins : x.wanted => agent[x.host].pc = "calling"
    /\ \A x, y \in joins : x.wanted /\ y.wanted /\ x.host = y.host => x = y

JInv ==
    /\ Good(reg) /\ ~reg.panicked
    /\ \A a \in Host : Sound(a, agent[a], disk[a], reg, nonVoting)
    /\ \A x \in joins : Phase(x, reg)
    /\ nonVoting \in [DOMAIN nonVoting -> Host]
    /\ \A r \in DOMAIN nonVoting : Row(r, nonVoting[r], reg)
    /\ Waits
    /\ faults \in 0 .. MaxFaults

-----------------------------------------------------------------------------
(* What stays true while the registry grows.                                *)

\* A registry that grows keeps what was true of an agent and of a handler.
LEMMA Monotone ==
  ASSUME NEW s, NEW t, Grows(s, t)
  PROVE  /\ \A a, m, d, nv : Sound(a, m, d, s, nv) => Sound(a, m, d, t, nv)
         /\ \A x : Phase(x, s) => Phase(x, t)
         /\ \A r, a : Row(r, a, s) => Row(r, a, t)
<1>1. \A r, a : Row(r, a, s) => Row(r, a, t)
  BY Zenon DEF Row, Grows
<1>2. DOMAIN s.host \subseteq DOMAIN t.host
  BY Zenon DEF Grows
<1>3. \A x : Phase(x, s) => Phase(x, t)
  BY Zenon, <1>1, <1>2 DEF Phase
<1>4. \A m : Fills(m, s) => Fills(m, t)
  BY Zenon, <1>2 DEF Fills
<1>5. \A m, d, a, nv : Joiner(m, d, a, s, nv) => Joiner(m, d, a, t, nv)
  <2>1. \A r, a, nv : Owns(r, a, s, nv) => Owns(r, a, t, nv)
    BY <1>1, Zenon DEF Owns
  <2> QED
    BY <2>1 DEF Joiner
<1> QED
  BY <1>1, <1>3, <1>4, <1>5, Zenon DEF Sound

\* A step of one agent that waits for no handler.
LEMMA StepSound ==
  ASSUME IInv, JInv, NEW a \in Host, NEW k, Become(a, k), agent[a].pc # "calling",
         Grows(reg, reg'), Sound(a, k, disk'[a], reg', nonVoting),
         \A b \in Host \ {a} : disk'[b] = disk[b],
         UNCHANGED <<nonVoting, joins>>, faults' \in 0 .. MaxFaults
  PROVE  JInv'
<1>1. agent'[a] = k /\ \A b \in Host \ {a} : agent'[b] = agent[b]
  BY Zenon DEF IInv, Become
<1>2. \A b \in Host : Sound(b, agent'[b], disk'[b], reg', nonVoting)
  <2>1. ASSUME NEW b \in Host, b # a PROVE Sound(b, agent'[b], disk'[b], reg', nonVoting)
    BY Zenon, <1>1, <2>1, Monotone DEF JInv
  <2> QED
    BY Zenon, <1>1, <2>1
<1>3. /\ \A x \in joins : Phase(x, reg')
      /\ \A r \in DOMAIN nonVoting : Row(r, nonVoting[r], reg')
  BY Zenon, Monotone DEF JInv
<1>4. \A x \in joins : x.wanted => agent'[x.host].pc = "calling"
  <2>1. \A x \in joins : x.host \in Host
    BY Zenon DEF IInv, JoinOK
  <2>2. \A x \in joins : x.wanted => agent[x.host].pc = "calling"
    BY Zenon DEF JInv, Waits
  <2>3. \A x \in joins : x.wanted => x.host # a
    BY Zenon, <2>2
  <2> QED
    BY Zenon, <1>1, <2>1, <2>2, <2>3
<1>5. Waits'
  BY Zenon, <1>4 DEF JInv, Waits
<1>6. Good(reg') /\ ~reg'.panicked
  BY Zenon DEF Grows
<1> QED
  BY Zenon, <1>2, <1>3, <1>5, <1>6 DEF JInv

\* What is known of the agent that takes a step.
LEMMA KnownSound ==
  ASSUME IInv, JInv, NEW a \in Host
  PROVE  /\ DOMAIN agent[a] = Fields /\ AgentOK(a, agent[a], disk[a])
         /\ Shape(agent[a]) /\ Fills(agent[a], reg)
         /\ a \notin Peer => Joiner(agent[a], disk[a], a, reg, nonVoting)
         /\ Grows(reg, reg) /\ N \in Nat \ {0}
BY Zenon, Known, GrowsItself, PeersAreHosts DEF JInv, Sound

\* A step of one agent that changes neither the registry nor the log store, and leads
\* neither to a call nor to primeInit.
LEMMA LocalSound ==
  ASSUME IInv, JInv, NEW a \in Host, NEW k, Become(a, k), agent[a].pc # "calling",
         k.at \in 1 .. N + 1, k.uninit \subseteq Peer, k.left \subseteq Peer,
         k.pc \notin {"calling", "putShard", "addHosts", "addReplicas"},
         a \notin Peer => k.rid \in {agent[a].rid, disk[a]},
         a \notin Peer /\ k.pc \in {"joining", "joined"} => disk[a] = 0,
         UNCHANGED <<disk, reg, nonVoting, joins, faults>>
  PROVE  JInv'
<1>1. Shape(k) /\ Fills(k, reg)
  BY Zenon DEF Shape, Fills
<1>2. ASSUME a \notin Peer PROVE Joiner(k, disk[a], a, reg, nonVoting)
  BY Zenon, <1>2, KnownSound DEF Joiner
<1>3. Sound(a, k, disk[a], reg, nonVoting)
  BY Zenon, <1>1, <1>2 DEF Sound
<1>4. faults \in 0 .. MaxFaults /\ Grows(reg, reg)
  BY Zenon, KnownSound DEF JInv
<1> QED
  BY Zenon, <1>3, <1>4, StepSound

-----------------------------------------------------------------------------
(* Finding the peers and resolving the members.                             *)

\* Before resolution.
LEMMA EarlySound ==
  ASSUME IInv, JInv, NEW a \in Host, Launch(a) \/ Probe(a) \/ StartHost(a) \/ FindReplica(a)
  PROVE  JInv'
<1>1. DOMAIN agent[a] = Fields /\ Shape(agent[a]) /\ N \in Nat \ {0}
  BY Zenon, KnownSound
<1>2. /\ agent[a].pc \in {"down", "probing", "hosted"}
      /\ UNCHANGED <<disk, reg, nonVoting, joins, faults>>
  BY Zenon DEF Launch, Probe, StartHost, FindReplica
<1>3. ASSUME NEW pc, pc \in {"probing", "hosted"}, Become(a, At(a, pc)) PROVE JInv'
  <2> DEFINE k == At(a, pc)
  <2>1. /\ k.at = 1 /\ k.uninit = agent[a].uninit /\ k.left = agent[a].left /\ k.pc = pc
        /\ k.rid = agent[a].rid
    BY Zenon, <1>1 DEF At, Fields
  <2>2. Become(a, k)
    BY Zenon, <1>3
  <2> HIDE DEF k
  <2> QED
    BY <1>1, <1>2, <1>3, <2>1, <2>2, LocalSound DEF Shape
<1>4. CASE Launch(a)
  BY <1>3, <1>4, Zenon DEF Launch, Goto
<1>5. CASE StartHost(a)
  BY <1>3, <1>5, Zenon DEF StartHost, Goto
<1>6. CASE Probe(a)
  <2> DEFINE k == [agent[a] EXCEPT !.at = IF Up(Peers[agent[a].at]) THEN @ + 1 ELSE 1]
  <2>1. /\ k.at \in {agent[a].at + 1, 1} /\ k.uninit = agent[a].uninit
        /\ k.left = agent[a].left /\ k.pc = agent[a].pc /\ k.rid = agent[a].rid
    BY Zenon, <1>1 DEF Fields
  <2>2. Become(a, k) /\ agent[a].at <= N /\ agent[a].pc = "probing"
    BY <1>6, Zenon DEF Probe
  <2> HIDE DEF k
  <2>3. k.at \in 1 .. N + 1
    BY <1>1, <2>1, <2>2 DEF Shape
  <2> QED
    BY Zenon, <1>1, <1>2, <2>1, <2>2, <2>3, LocalSound DEF Shape
<1>7. CASE FindReplica(a)
  <2> DEFINE k == [agent[a] EXCEPT !.pc = "resolving", !.at = 1, !.rid = disk[a]]
  <2>1. /\ k.at = 1 /\ k.uninit = agent[a].uninit /\ k.left = agent[a].left
        /\ k.pc = "resolving" /\ k.rid = disk[a]
    BY Zenon, <1>1 DEF Fields
  <2>2. Become(a, k)
    BY <1>7, Zenon DEF FindReplica
  <2> HIDE DEF k
  <2> QED
    BY <1>1, <1>2, <2>1, <2>2, LocalSound DEF Shape
<1> QED
  BY Zenon, <1>4, <1>5, <1>6, <1>7

\* A round of Info.
LEMMA ResolveInfoSound ==
  ASSUME IInv, JInv, NEW a \in Host, ResolveInfo(a)
  PROVE  JInv'
<1> DEFINE m == agent[a]
           p == Peers[m.at]
           q == agent[p]
           fail == [m EXCEPT !.pc = "failed"]
           skip == [m EXCEPT !.at = @ + 1]
           bare == [m EXCEPT !.at = @ + 1, !.uninit = @ \cup {p}]
           held == [m EXCEPT !.at = @ + 1, !.seen = With(@, q.rid, p)]
<1>1. DOMAIN m = Fields /\ Shape(m) /\ N \in Nat \ {0}
  BY KnownSound, Zenon
<1>2. m.pc = "resolving" /\ m.at <= N /\ UNCHANGED <<disk, reg, nonVoting, joins, faults>>
  BY Zenon DEF ResolveInfo
<1>3. Become(a, fail) \/ Become(a, skip) \/ Become(a, bare) \/ Become(a, held)
  BY Zenon DEF ResolveInfo
<1>4. p \in Peer
  <2> HIDE DEF m
  <2>1. m.at \in 1 .. N
    BY <1>1, <1>2 DEF Shape
  <2> QED
    BY Zenon, <2>1, Places
<1> HIDE DEF m, p, q
<1>5. ASSUME NEW k, Become(a, k), k.at \in {m.at, m.at + 1},
             k.uninit \in {m.uninit, m.uninit \cup {p}}, k.left = m.left,
             k.pc \in {"resolving", "failed"}, k.rid = m.rid
      PROVE  JInv'
  <2>1. k.at \in 1 .. N + 1 /\ k.uninit \subseteq Peer /\ k.left \subseteq Peer
    BY <1>1, <1>2, <1>4, <1>5 DEF Shape
  <2> QED
    BY Zenon, <1>2, <1>5, <2>1, LocalSound DEF m
<1>6. /\ fail.at = m.at /\ fail.uninit = m.uninit /\ fail.left = m.left
      /\ fail.pc = "failed" /\ fail.rid = m.rid
  BY Zenon, <1>1 DEF Fields
<1>7. /\ skip.at = m.at + 1 /\ skip.uninit = m.uninit /\ skip.left = m.left
      /\ skip.pc = m.pc /\ skip.rid = m.rid
  BY Zenon, <1>1 DEF Fields
<1>8. /\ bare.at = m.at + 1 /\ bare.uninit = m.uninit \cup {p} /\ bare.left = m.left
      /\ bare.pc = m.pc /\ bare.rid = m.rid
  BY Zenon, <1>1 DEF Fields
<1>9. /\ held.at = m.at + 1 /\ held.uninit = m.uninit /\ held.left = m.left
      /\ held.pc = m.pc /\ held.rid = m.rid
  BY Zenon, <1>1 DEF Fields
<1> HIDE DEF fail, skip, bare, held
<1> QED
  BY Zenon, <1>2, <1>3, <1>5, <1>6, <1>7, <1>8, <1>9

\* The end of a round, and the answer to Members.  The ID of an agent that is no peer
\* stays the one in its log store.
LEMMA ResolveSound ==
  ASSUME IInv, IInv', JInv, NEW a \in Host,
         ResolveDecide(a) \/ \E part \in SUBSET (1 .. N) : ResolveMembers(a, part)
  PROVE  JInv'
<1> DEFINE m == agent[a]
<1>1. DOMAIN m = Fields /\ Shape(m) /\ N \in Nat \ {0}
  BY KnownSound, Zenon
<1>2. /\ m.pc \in {"resolving", "membership"}
      /\ UNCHANGED <<disk, reg, nonVoting, joins, faults>>
  BY Zenon DEF ResolveDecide, ResolveMembers
<1> DEFINE Fine(k) == /\ k.at \in {m.at, 1} /\ k.uninit \in {m.uninit, {}} /\ k.left = m.left
                      /\ \/ k.pc = "failed" /\ k.rid = m.rid
                         \/ k.pc \in {"resolving", "membership", "resolved"}
<1>3. PICK k : Become(a, k) /\ Fine(k)
  <2>1. \A seen, rid, next :
          Fine([m EXCEPT !.pc = "resolved", !.seen = seen, !.rid = rid, !.next = next])
    BY <1>1 DEF Fields
  <2>2. \A seen, rid, next :
          Fine([m EXCEPT !.pc = "resolved", !.rid = rid, !.seen = seen, !.next = next])
    BY <1>1 DEF Fields
  <2>3. Fine([m EXCEPT !.pc = "resolved", !.next = "awaiting"])
    BY Zenon, <1>1 DEF Fields
  <2>4. Fine([m EXCEPT !.pc = "membership"]) /\ Fine([m EXCEPT !.pc = "failed"])
    BY Zenon, <1>1 DEF Fields
  <2>5. Fine(Retry(m)) /\ \A rid : Fine([Retry(m) EXCEPT !.rid = rid])
    BY Zenon, <1>1 DEF Fields, Retry
  <2> HIDE DEF Fine
  <2>6. CASE ResolveDecide(a)
    <3>1. \/ Become(a, [m EXCEPT !.pc = "resolved", !.next = "awaiting"])
          \/ Become(a, [m EXCEPT !.pc = "resolved", !.seen = InitialMembers,
                                 !.rid = PlaceOf(a), !.next = "putShard"])
          \/ Become(a, [m EXCEPT !.pc = "membership"])
          \/ Become(a, Retry(m))
      BY <2>6, Zenon DEF ResolveDecide
    <3> QED
      BY <2>1, <2>3, <2>4, <2>5, <3>1, Zenon
  <2>7. CASE \E part \in SUBSET (1 .. N) : ResolveMembers(a, part)
    <3>1. \/ Become(a, [m EXCEPT !.pc = "failed"])
          \/ \E rid, seen : Become(a, [m EXCEPT !.pc = "resolved", !.rid = rid, !.seen = seen,
                                                !.next = "awaiting"])
          \/ \E rid : Become(a, [Retry(m) EXCEPT !.rid = rid])
      BY <2>7, Zenon DEF ResolveMembers
    <3> QED
      BY <2>2, <2>4, <2>5, <3>1, Zenon
  <2> QED
    BY Zenon, <2>6, <2>7
<1>4. a \notin Peer => k.rid \in {m.rid, disk[a]}
  <2>1. agent'[a] = k /\ disk'[a] = disk[a]
    BY Zenon, <1>2, <1>3 DEF IInv, Become
  <2> QED
    BY Zenon, <1>3, <2>1 DEF IInv, AgentOK, OtherOK
<1> QED
  BY <1>1, <1>2, <1>3, <1>4, LocalSound DEF Shape

-----------------------------------------------------------------------------
(* Starting the prime replica and filling the registry.                     *)

\* The memory of an agent that is not running.
LEMMA StoppedSound ==
  ASSUME IInv, JInv, NEW a \in Host
  PROVE  Sound(a, Stopped, disk[a], reg, nonVoting)
<1>1. /\ Stopped.at = 1 /\ Stopped.uninit = {} /\ Stopped.left = {} /\ Stopped.pc = "down"
      /\ Stopped.rid = 0
  BY Zenon DEF Stopped
<1>2. /\ a \notin Peer => Joiner(agent[a], disk[a], a, reg, nonVoting)
      /\ N \in Nat \ {0}
  BY Zenon, KnownSound
<1> QED
  BY <1>1, <1>2 DEF Sound, Shape, Fills, Joiner

\* A process ends.
LEMMA ExitSound ==
  ASSUME IInv, JInv, NEW a \in Host, Exit(a)
  PROVE  JInv'
<1>1. /\ agent[a].pc = "failed" /\ Become(a, Stopped)
      /\ UNCHANGED <<disk, reg, nonVoting, joins, faults>>
  BY Zenon DEF Exit
<1>2. faults \in 0 .. MaxFaults /\ Grows(reg, reg)
  BY Zenon, KnownSound DEF JInv
<1> QED
  BY Zenon, <1>1, <1>2, StoppedSound, StepSound

\* An agent that goes on with the ID it has, and does not join.
LEMMA KeepSound ==
  ASSUME IInv, JInv, NEW a \in Host, NEW s, Grows(reg, s),
         NEW k, k.at \in 1 .. N + 1, k.uninit \subseteq Peer, k.left \subseteq Peer,
         k.rid = agent[a].rid, k.pc \notin {"joining", "calling", "joined"}, Fills(k, s)
  PROVE  Sound(a, k, disk[a], s, nonVoting)
<1>1. ASSUME a \notin Peer PROVE Joiner(k, disk[a], a, reg, nonVoting)
  BY Zenon, <1>1, KnownSound DEF Joiner
<1>2. ASSUME a \notin Peer PROVE Joiner(k, disk[a], a, s, nonVoting)
  <2>1. \A r \in Nat \cup {agent[a].rid, disk[a]} :
          Owns(r, a, reg, nonVoting) => Owns(r, a, s, nonVoting)
    BY Zenon, Monotone DEF Owns
  <2> QED
    BY <1>1, <1>2, <2>1, Zenon DEF Joiner
<1> QED
  BY Zenon, <1>2 DEF Sound, Shape

\* Raft starts the replica the agent has resolved.
LEMMA ResolvedSound ==
  ASSUME IInv, JInv, NEW a \in Host, Resolved(a)
  PROVE  JInv'
<1> DEFINE m == [agent[a] EXCEPT !.members = agent[a].seen, !.seen = EmptyTable,
                                 !.uninit = {}, !.at = 1]
           new == m.rid # 0 /\ disk[a] = 0
           join == [m EXCEPT !.pc = "joining"]
           go == [m EXCEPT !.pc = "starting", !.raft = TRUE,
                           !.next = IF new THEN @ ELSE "putHost"]
<1>1. /\ DOMAIN agent[a] = Fields /\ AgentOK(a, agent[a], disk[a]) /\ Shape(agent[a])
      /\ a \notin Peer => Joiner(agent[a], disk[a], a, reg, nonVoting)
      /\ Grows(reg, reg) /\ N \in Nat \ {0}
  BY Zenon, KnownSound
<1>2. /\ DOMAIN m = Fields /\ m.pc = agent[a].pc /\ m.rid = agent[a].rid /\ m.at = 1
      /\ m.uninit = {} /\ m.left = agent[a].left
  BY Zenon, <1>1 DEF Fields
<1>3. /\ m.pc = "resolved" /\ disk' = [disk EXCEPT ![a] = m.rid]
      /\ UNCHANGED <<reg, nonVoting, joins, faults>>
  BY Zenon DEF Resolved
<1>4. (m.rid = 0 /\ Become(a, join)) \/ (m.rid # 0 /\ Become(a, go))
  BY Zenon DEF Resolved
<1> HIDE DEF m
<1>5. a \notin Peer => m.rid = disk[a]
  BY Zenon, <1>1, <1>2, <1>3 DEF AgentOK, OtherOK
<1>6. ASSUME NEW k, Become(a, k), k.at = 1, k.uninit = {}, k.left = m.left, k.rid = m.rid,
             k.pc \in {"joining", "starting"}, k.pc = "joining" => m.rid = 0
      PROVE  JInv'
  <2>1. Shape(k) /\ Fills(k, reg)
    BY <1>1, <1>2, <1>6 DEF Shape, Fills
  <2>2. a \notin Peer => Joiner(k, m.rid, a, reg, nonVoting)
    BY Zenon, <1>1, <1>2, <1>5, <1>6 DEF Joiner
  <2>3. Sound(a, k, m.rid, reg, nonVoting)
    BY Zenon, <2>1, <2>2 DEF Sound
  <2>4. disk'[a] = m.rid /\ \A b \in Host \ {a} : disk'[b] = disk[b]
    BY Zenon, <1>3 DEF IInv
  <2>5. faults \in 0 .. MaxFaults
    BY Zenon DEF JInv
  <2> QED
    BY <1>1, <1>2, <1>3, <1>6, <2>3, <2>4, <2>5, StepSound, Zenon
<1>7. /\ join.at = 1 /\ join.uninit = {} /\ join.left = m.left /\ join.rid = m.rid
      /\ join.pc = "joining"
  BY Zenon, <1>2 DEF Fields
<1>8. /\ go.at = 1 /\ go.uninit = {} /\ go.left = m.left /\ go.rid = m.rid
      /\ go.pc = "starting"
  BY Zenon, <1>2 DEF Fields
<1> HIDE DEF join, go
<1> QED
  BY Zenon, <1>4, <1>6, <1>7, <1>8

\* Start goes on.
LEMMA StartedSound ==
  ASSUME IInv, JInv, NEW a \in Host, Started(a) \/ Await(a)
  PROVE  JInv'
<1>1. /\ DOMAIN agent[a] = Fields /\ Shape(agent[a]) /\ Grows(reg, reg) /\ N \in Nat \ {0}
      /\ agent[a].next \in Continuation
  BY Zenon, KnownSound, Known DEF MemoryOK
<1>2. /\ agent[a].pc \in {"starting", "awaiting"}
      /\ UNCHANGED <<disk, reg, nonVoting, joins, faults>>
  BY Zenon DEF Started, Await
<1>3. PICK k : /\ Become(a, k) /\ k.at = 1 /\ k.uninit = agent[a].uninit
               /\ k.rid = agent[a].rid
               /\ \/ k.left = Peer /\ k.pc = agent[a].next
                  \/ k.left = agent[a].left /\ k.pc = "putHost"
  <2>1. CASE Started(a)
    <3> DEFINE k == [agent[a] EXCEPT !.pc = agent[a].next, !.left = Peer, !.at = 1]
    <3>1. /\ k.at = 1 /\ k.uninit = agent[a].uninit /\ k.rid = agent[a].rid
          /\ k.left = Peer /\ k.pc = agent[a].next
      BY Zenon, <1>1 DEF Fields
    <3>2. Become(a, k)
      BY <2>1, Zenon DEF Started
    <3> HIDE DEF k
    <3> QED
      BY Zenon, <3>1, <3>2
  <2>2. CASE Await(a)
    <3> DEFINE k == At(a, "putHost")
    <3>1. /\ k.at = 1 /\ k.uninit = agent[a].uninit /\ k.rid = agent[a].rid
          /\ k.left = agent[a].left /\ k.pc = "putHost"
      BY Zenon, <1>1 DEF Fields, At
    <3>2. Become(a, k)
      BY <2>2, Zenon DEF Await, Goto
    <3> HIDE DEF k
    <3> QED
      BY Zenon, <3>1, <3>2
  <2> QED
    BY Zenon, <2>1, <2>2
<1>4. /\ k.at \in 1 .. N + 1 /\ k.uninit \subseteq Peer /\ k.left \subseteq Peer
      /\ k.pc \notin {"joining", "calling", "joined"} /\ Fills(k, reg)
  <2>1. k.at \in 1 .. N + 1 /\ k.uninit \subseteq Peer /\ k.left \subseteq Peer
    BY <1>1, <1>3 DEF Shape
  <2>2. k.pc \in Continuation /\ (k.pc = "putShard" => k.left = Peer)
    BY Zenon, <1>1, <1>3 DEF Continuation
  <2>3. k.pc \notin {"joining", "calling", "joined", "addHosts", "addReplicas"}
    BY Zenon, <2>2 DEF Continuation
  <2> QED
    BY Zenon, <1>3, <2>1, <2>2, <2>3 DEF Fills
<1>5. Sound(a, k, disk[a], reg, nonVoting)
  BY Zenon, <1>1, <1>3, <1>4, KeepSound
<1>6. faults \in 0 .. MaxFaults
  BY Zenon DEF JInv
<1> QED
  BY Zenon, <1>1, <1>2, <1>3, <1>5, <1>6, StepSound

\* A proposal, whether it succeeds or not.
LEMMA ProposedSound ==
  ASSUME IInv, JInv, NEW a \in Host, NEW t, NEW m, Proposed(a, t, m),
         agent[a].pc # "calling", Grows(reg, Commit(reg, t)),
         Sound(a, m, disk[a], Commit(reg, t), nonVoting)
  PROVE  JInv'
<1> DEFINE k == [agent[a] EXCEPT !.pc = "failed"]
<1>1. /\ DOMAIN agent[a] = Fields /\ Shape(agent[a]) /\ Grows(reg, reg)
      /\ faults \in 0 .. MaxFaults /\ N \in Nat \ {0}
  BY Zenon, KnownSound DEF JInv
<1>2. /\ k.at = agent[a].at /\ k.uninit = agent[a].uninit /\ k.left = agent[a].left
      /\ k.rid = agent[a].rid /\ k.pc = "failed"
  BY Zenon, <1>1 DEF Fields
<1>3. /\ reg' = Commit(reg, t) \/ reg' = reg
      /\ (Become(a, m) /\ reg' = Commit(reg, t) /\ faults' = faults) \/ (Become(a, k) /\ Fault)
      /\ UNCHANGED <<disk, nonVoting, joins>>
  BY Zenon DEF Proposed
<1> HIDE DEF k
<1>4. Grows(reg, reg')
  BY Zenon, <1>1, <1>3
<1>5. Sound(a, k, disk[a], reg', nonVoting)
  <2>1. Fills(k, reg')
    BY Zenon, <1>2 DEF Fills
  <2> QED
    BY Zenon, <1>1, <1>2, <1>4, <2>1, KeepSound DEF Shape
<1>6. faults' \in 0 .. MaxFaults
  BY <1>1, <1>3, FaultsAssumption DEF Fault
<1>7. CASE Become(a, m) /\ reg' = Commit(reg, t)
  BY Zenon, <1>3, <1>4, <1>6, <1>7, StepSound
<1>8. CASE Become(a, k)
  BY Zenon, <1>3, <1>4, <1>5, <1>6, <1>8, StepSound
<1> QED
  BY Zenon, <1>3, <1>7, <1>8
\* What primeInit puts is well formed.
LEMMA PutsAreTyped ==
  ASSUME JInv
  PROVE  /\ EmptyTable \in TagMap /\ Prime \in Name
         /\ PrimeShard \in Nat /\ PrimeShard <= reg.shardID
<1>1. EmptyTable \in [{} -> TagValue]
  BY Zenon DEF EmptyTable
<1>2. EmptyTable \in TagMap
  BY Zenon, <1>1 DEF TagMap
<1> QED
  BY <1>2, PeersAssumption DEF JInv, Good, StateType, PrimeShard

\* updateHost, updateReplica and the proposals of primeInit.
LEMMA FillSound ==
  ASSUME IInv, JInv, NEW a \in Host,
         PutShard(a) \/ AddReplica(a) \/ PutHost(a) \/ PutStatus(a)
  PROVE  JInv'
<1>1. /\ DOMAIN agent[a] = Fields /\ Shape(agent[a]) /\ Fills(agent[a], reg)
      /\ N \in Nat \ {0} /\ Good(reg) /\ ~reg.panicked
  BY Zenon, KnownSound DEF JInv
<1>2. ASSUME NEW pc \in {"addHosts", "putHost", "putStatus", "ready"}, NEW t, Grows(reg, t),
             pc = "addHosts" => Peer \ agent[a].left \subseteq DOMAIN reg.host
      PROVE  Sound(a, At(a, pc), disk[a], t, nonVoting)
  <2> DEFINE k == At(a, pc)
  <2>1. /\ k.at = 1 /\ k.uninit = agent[a].uninit /\ k.rid = agent[a].rid
        /\ k.left = agent[a].left /\ k.pc = pc
    BY Zenon, <1>1 DEF Fields, At
  <2> HIDE DEF k
  <2>2. DOMAIN reg.host \subseteq DOMAIN t.host
    BY Zenon, <1>2 DEF Grows
  <2>3. Fills(k, t)
    BY Zenon, <1>2, <2>1, <2>2 DEF Fills
  <2>4. Sound(a, k, disk[a], t, nonVoting)
    BY <1>1, <1>2, <2>1, <2>3, KeepSound DEF Shape
  <2> QED
    BY Zenon, <2>4 DEF k
<1>3. /\ EmptyTable \in TagMap /\ Prime \in Name \cup {NoName} /\ PrimeShard \in Nat
      /\ PrimeShard <= reg.shardID
  BY Zenon, PutsAreTyped
<1>4. CASE PutShard(a)
  <2> DEFINE t == ShardPut(reg, PrimeShard, Prime, 0, EmptyTable)
  <2>1. agent[a].pc = "putShard" /\ Proposed(a, t, At(a, "addHosts"))
    BY <1>4, Zenon DEF PutShard
  <2>2. Grows(reg, Commit(reg, t))
    BY Zenon, <1>1, <1>3, ShardPutGrows
  <2> HIDE DEF t
  <2>3. Sound(a, At(a, "addHosts"), disk[a], Commit(reg, t), nonVoting)
    BY Zenon, <1>1, <1>2, <2>1, <2>2 DEF Fills
  <2> QED
    BY Zenon, <2>1, <2>2, <2>3, ProposedSound
<1>5. CASE PutHost(a)
  <2> DEFINE t == HostPut(reg, a, EmptyTable)
  <2>1. agent[a].pc = "putHost" /\ Proposed(a, t, At(a, "putStatus"))
    BY <1>5, Zenon DEF PutHost
  <2>2. Grows(reg, Commit(reg, t))
    BY Zenon, <1>1, <1>3, HostPutGrows
  <2> HIDE DEF t
  <2>3. Sound(a, At(a, "putStatus"), disk[a], Commit(reg, t), nonVoting)
    BY Zenon, <1>2, <2>2
  <2> QED
    BY Zenon, <2>1, <2>2, <2>3, ProposedSound
<1>6. CASE PutStatus(a)
  <2> DEFINE t == ReplicaStatusUpdate(reg, agent[a].rid, "active")
  <2>1. agent[a].pc = "putStatus" /\ Proposed(a, t, At(a, "ready"))
    BY <1>6, Zenon DEF PutStatus
  <2>2. Grows(reg, Commit(reg, t))
    BY Zenon, <1>1, ReplicaStatusUpdateGrows DEF ReplicaStatus
  <2> HIDE DEF t
  <2>3. Sound(a, At(a, "ready"), disk[a], Commit(reg, t), nonVoting)
    BY Zenon, <1>2, <2>2
  <2> QED
    BY Zenon, <2>1, <2>2, <2>3, ProposedSound
<1>7. CASE AddReplica(a)
  <2> DEFINE t == ReplicaPost(reg, Peers[agent[a].at], PrimeShard, FALSE)
             k == [agent[a] EXCEPT !.at = @ + 1]
             m == IF agent[a].at < N THEN k ELSE At(a, "putHost")
  <2>1. agent[a].pc = "addReplicas" /\ Proposed(a, t, m)
    BY <1>7, Zenon DEF AddReplica
  <2>2. agent[a].at \in 1 .. N /\ Peer \subseteq DOMAIN reg.host
    BY <1>1, <2>1 DEF Fills, Shape
  <2>3. Peers[agent[a].at] \in DOMAIN reg.host
    BY Zenon, <2>2 DEF Peer
  <2>8. Peers[agent[a].at] \in Host
    BY Zenon, <2>2, PeersAreHosts, Places
  <2>4. Grows(reg, Commit(reg, t))
    BY <1>1, <1>3, <2>3, <2>8, ReplicaPostGrows, Zenon
  <2> HIDE DEF t
  <2>5. Sound(a, At(a, "putHost"), disk[a], Commit(reg, t), nonVoting)
    BY Zenon, <1>2, <2>4
  <2>6. ASSUME agent[a].at < N PROVE Sound(a, k, disk[a], Commit(reg, t), nonVoting)
    <3>1. /\ k.at = agent[a].at + 1 /\ k.uninit = agent[a].uninit /\ k.rid = agent[a].rid
          /\ k.left = agent[a].left /\ k.pc = agent[a].pc
      BY Zenon, <1>1 DEF Fields
    <3> HIDE DEF k
    <3>2. DOMAIN reg.host \subseteq DOMAIN Commit(reg, t).host
      BY Zenon, <2>4 DEF Grows
    <3>3. Fills(k, Commit(reg, t))
      BY <1>1, <2>1, <2>2, <2>6, <3>1, <3>2, SMTT(20) DEF Fills
    <3> QED
      BY <1>1, <2>1, <2>2, <2>4, <2>6, <3>1, <3>3, KeepSound DEF Shape
  <2> HIDE DEF k
  <2>7. Sound(a, m, disk[a], Commit(reg, t), nonVoting)
    BY Zenon, <2>5, <2>6
  <2> HIDE DEF m
  <2> QED
    BY Zenon, <2>1, <2>4, <2>7, ProposedSound
<1> QED
  BY <1>4, <1>5, <1>6, <1>7, Zenon

\* primeInit adds a host.
LEMMA AddHostSound ==
  ASSUME IInv, JInv, NEW a \in Host, NEW h \in Host, AddHost(a, h)
  PROVE  JInv'
<1> DEFINE t == HostPut(reg, h, EmptyTable)
           k == [agent[a] EXCEPT !.left = @ \ {h},
                                 !.pc = IF agent[a].left = {h} THEN "addReplicas" ELSE @]
<1>1. /\ DOMAIN agent[a] = Fields /\ Shape(agent[a]) /\ Fills(agent[a], reg)
      /\ N \in Nat \ {0} /\ Good(reg) /\ ~reg.panicked
  BY Zenon, KnownSound DEF JInv
<1>2. agent[a].pc = "addHosts" /\ h \in agent[a].left /\ Proposed(a, t, k)
  BY Zenon DEF AddHost
<1>3. Grows(reg, Commit(reg, t)) /\ h \in DOMAIN Commit(reg, t).host
  BY Zenon, <1>1, PutsAreTyped, HostPutGrows
<1> HIDE DEF t
<1>4. /\ k.at = agent[a].at /\ k.uninit = agent[a].uninit /\ k.rid = agent[a].rid
      /\ k.left = agent[a].left \ {h}
      /\ k.pc = IF agent[a].left = {h} THEN "addReplicas" ELSE "addHosts"
  BY Zenon, <1>1, <1>2 DEF Fields
<1> HIDE DEF k
<1>5. DOMAIN reg.host \subseteq DOMAIN Commit(reg, t).host
  BY Zenon, <1>3 DEF Grows
<1>6. agent[a].at = 1 /\ Peer \ agent[a].left \subseteq DOMAIN reg.host
  BY Zenon, <1>1, <1>2 DEF Fills
<1>7. Peer \ k.left \subseteq DOMAIN Commit(reg, t).host
  BY Zenon, <1>3, <1>4, <1>5, <1>6
<1>8. agent[a].left = {h} => k.left = {}
  BY Zenon, <1>4
<1>9. Fills(k, Commit(reg, t))
  BY <1>1, <1>4, <1>6, <1>7, <1>8, SMTT(20) DEF Fills
<1>10. Sound(a, k, disk[a], Commit(reg, t), nonVoting)
  <2>1. k.pc \notin {"joining", "calling", "joined"}
    BY Zenon, <1>4
  <2> QED
    BY Zenon, <1>1, <1>3, <1>4, <1>9, <2>1, KeepSound DEF Shape
<1> QED
  BY Zenon, <1>2, <1>3, <1>10, ProposedSound
-----------------------------------------------------------------------------
(* Joining.                                                                 *)

\* Raft starts the replica the agent has joined with.
LEMMA StartJoinedSound ==
  ASSUME IInv, JInv, NEW a \in Host, StartJoined(a)
  PROVE  JInv'
<1> DEFINE k == [At(a, "starting") EXCEPT !.raft = TRUE, !.next = "putHost"]
<1>1. /\ DOMAIN agent[a] = Fields /\ Shape(agent[a]) /\ Grows(reg, reg)
      /\ a \notin Peer => Joiner(agent[a], disk[a], a, reg, nonVoting)
      /\ N \in Nat \ {0} /\ faults \in 0 .. MaxFaults
  BY Zenon, KnownSound DEF JInv
<1>2. /\ k.at = 1 /\ k.uninit = agent[a].uninit /\ k.rid = agent[a].rid
      /\ k.left = agent[a].left /\ k.pc = "starting"
  BY Zenon, <1>1 DEF Fields, At
<1>3. /\ agent[a].pc = "joined" /\ Become(a, k)
      /\ disk' = [disk EXCEPT ![a] = agent[a].rid]
      /\ UNCHANGED <<reg, nonVoting, joins, faults>>
  BY Zenon DEF StartJoined
<1> HIDE DEF k
<1>4. disk'[a] = agent[a].rid /\ \A b \in Host \ {a} : disk'[b] = disk[b]
  BY Zenon, <1>3 DEF IInv
<1>5. Shape(k) /\ Fills(k, reg)
  BY <1>1, <1>2 DEF Shape, Fills
<1>6. a \notin Peer => Joiner(k, agent[a].rid, a, reg, nonVoting)
  BY Zenon, <1>1, <1>2 DEF Joiner
<1>7. Sound(a, k, agent[a].rid, reg, nonVoting)
  BY Zenon, <1>5, <1>6 DEF Sound
<1> QED
  BY Zenon, <1>1, <1>3, <1>4, <1>7, StepSound

\* An agent calls Join at a peer, or goes on to the next one.
LEMMA JoinSound ==
  ASSUME IInv, JInv, NEW a \in Host, Join(a)
  PROVE  JInv'
<1> DEFINE ready == agent[a].at <= N /\ agent[Peers[agent[a].at]].pc = "ready"
           call == [agent[a] EXCEPT !.pc = "calling"]
           next == [agent[a] EXCEPT !.at = IF @ <= N THEN @ + 1 ELSE 1]
           x == [peer |-> Peers[agent[a].at], host |-> a, phase |-> "findHost",
                 id |-> 0, wanted |-> TRUE, n |-> faults]
<1>1. /\ DOMAIN agent[a] = Fields /\ Shape(agent[a]) /\ Grows(reg, reg)
      /\ a \notin Peer => Joiner(agent[a], disk[a], a, reg, nonVoting)
      /\ N \in Nat \ {0} /\ faults \in 0 .. MaxFaults
  BY Zenon, KnownSound DEF JInv
<1>2. agent[a].pc = "joining" /\ UNCHANGED <<disk, reg, nonVoting, faults>>
  BY Zenon DEF Join
<1>3. /\ call.at = agent[a].at /\ call.uninit = agent[a].uninit /\ call.rid = agent[a].rid
      /\ call.left = agent[a].left /\ call.pc = "calling"
  BY Zenon, <1>1 DEF Fields
<1>4. /\ next.at = (IF agent[a].at <= N THEN agent[a].at + 1 ELSE 1)
      /\ next.uninit = agent[a].uninit /\ next.rid = agent[a].rid
      /\ next.left = agent[a].left /\ next.pc = "joining"
  BY Zenon, <1>1, <1>2 DEF Fields
<1>5. \/ ready /\ Become(a, call) /\ joins' = joins \cup {x}
      \/ Become(a, next) /\ joins' = joins
  BY Zenon DEF Join
<1>6. x.host = a /\ x.phase = "findHost" /\ x.wanted
  OBVIOUS
<1> HIDE DEF call, next, x
<1>7. ASSUME NEW k, Shape(k), k.rid = agent[a].rid, k.pc \in {"joining", "calling"}
      PROVE  Sound(a, k, disk[a], reg, nonVoting)
  <2>1. Fills(k, reg)
    BY Zenon, <1>7 DEF Fills
  <2>2. a \notin Peer => Joiner(k, disk[a], a, reg, nonVoting)
    BY Zenon, <1>1, <1>2, <1>7 DEF Joiner
  <2> QED
    BY Zenon, <1>7, <2>1, <2>2 DEF Sound
<1>8. CASE Become(a, next) /\ joins' = joins
  <2>1. Shape(next)
    BY <1>1, <1>4 DEF Shape
  <2>2. Sound(a, next, disk[a], reg, nonVoting)
    BY Zenon, <1>4, <1>7, <2>1
  <2> QED
    BY Zenon, <1>1, <1>2, <1>8, <2>2, StepSound
<1>9. CASE ready /\ Become(a, call) /\ joins' = joins \cup {x}
  <2>1. Shape(call)
    BY Zenon, <1>1, <1>3, <1>9 DEF Shape
  <2>2. Sound(a, call, disk[a], reg, nonVoting)
    BY Zenon, <1>3, <1>7, <2>1
  <2>3. agent'[a] = call /\ \A b \in Host \ {a} : agent'[b] = agent[b]
    BY Zenon, <1>9 DEF IInv, Become
  <2>4. \A b \in Host : Sound(b, agent'[b], disk'[b], reg', nonVoting')
    BY Zenon, <1>2, <2>2, <2>3 DEF JInv
  <2>5. \A y \in joins' : Phase(y, reg')
    BY Zenon, <1>2, <1>6, <1>9 DEF JInv, Phase
  <2>6. \A y \in joins : y.wanted => y.host \in Host \ {a} /\ agent[y.host].pc = "calling"
    BY Zenon, <1>2 DEF IInv, JoinOK, JInv, Waits
  <2>7. \A y \in joins' : y.wanted => agent'[y.host].pc = "calling"
    BY <1>3, <1>6, <1>9, <2>3, <2>6, SMTT(20)
  <2>8. \A y, z \in joins' : y.wanted /\ z.wanted /\ y.host = z.host => y = z
    BY <1>6, <1>9, <2>6 DEF JInv, Waits
  <2> QED
    BY Zenon, <1>2, <2>4, <2>5, <2>7, <2>8 DEF JInv, Waits
<1> QED
  BY Zenon, <1>5, <1>8, <1>9

\* A handler goes on to its next phase.
LEMMA MoveSound ==
  ASSUME IInv, JInv, NEW x \in joins, NEW phase, NEW id, Move(x, phase, id),
         Grows(reg, reg'),
         phase \in {"findReplica", "addReplica"} => x.host \in DOMAIN reg'.host,
         phase = "addMember" => Row(id, x.host, reg')
  PROVE  JInv'
<1> DEFINE y == [x EXCEPT !.phase = phase, !.id = id]
<1>1. DOMAIN x = JoinFields
  BY Zenon DEF IInv, JoinOK
<1>2. y.host = x.host /\ y.phase = phase /\ y.id = id /\ (y.wanted => x.wanted)
  BY Zenon, <1>1 DEF JoinFields
<1>3. /\ joins' = (joins \ {x}) \cup {y}
      /\ UNCHANGED <<agent, disk, boot, nonVoting, faults>>
  BY Zenon DEF Move
<1> HIDE DEF y
<1>4. \A a \in Host : Sound(a, agent[a], disk[a], reg', nonVoting)
  BY Zenon, Monotone DEF JInv
<1>5. /\ \A z \in joins : Phase(z, reg')
      /\ \A r \in DOMAIN nonVoting : Row(r, nonVoting[r], reg')
  BY Zenon, Monotone DEF JInv
<1>6. Phase(y, reg')
  BY Zenon, <1>2 DEF Phase
<1>7. Waits'
  BY <1>2, <1>3 DEF JInv, Waits
<1>8. Good(reg') /\ ~reg'.panicked
  BY Zenon DEF Grows
<1> QED
  BY Zenon, <1>3, <1>4, <1>5, <1>6, <1>7, <1>8 DEF JInv

\* A set of natural numbers that is not empty has a least element.
LEMMA Least ==
  ASSUME NEW S, S \subseteq Nat, S # {}
  PROVE  (CHOOSE r \in S : \A q \in S : r <= q) \in S
<1>1. PICK r \in S : \A q \in S : <<q, r>> \notin OpToRel(<, Nat)
  BY WFMin, NatLessThanWellFounded, Zenon
<1>2. ASSUME NEW q \in S PROVE r <= q
  <2>1. q < r => <<q, r>> \in {p \in Nat \X Nat : p[1] < p[2]}
    OBVIOUS
  <2>2. <<q, r>> \notin {p \in Nat \X Nat : p[1] < p[2]}
    BY <1>1, Zenon DEF OpToRel
  <2>3. q \in Nat /\ r \in Nat
    OBVIOUS
  <2> QED
    BY <2>1, <2>2, <2>3
<1> QED
  BY <1>2, Zenon
\* A new replica has the next ID and is on the host it was added for.
LEMMA NewRow ==
  ASSUME NEW s, Good(s), ~s.panicked, NEW h \in Host, h \in DOMAIN s.host,
         NEW id \in Nat, NEW b \in BOOLEAN
  PROVE  /\ Grows(s, Commit(s, ReplicaPost(s, h, id, b)))
         /\ Row(s.replicaID + 1, h, Commit(s, ReplicaPost(s, h, id, b)))
BY ReplicaPostGrows DEF Row

\* The handler finds the host and its replica, or adds them.
LEMMA FindSound ==
  ASSUME IInv, JInv, NEW x \in joins,
         FindHost(x) \/ JoinAddHost(x) \/ FindPrimeReplica(x) \/ JoinAddReplica(x)
  PROVE  JInv'
<1>1. /\ Good(reg) /\ ~reg.panicked /\ Grows(reg, reg) /\ x.host \in Host /\ Phase(x, reg)
      /\ EmptyTable \in TagMap /\ PrimeShard \in Nat
  BY Zenon, GrowsItself, PutsAreTyped DEF JInv, IInv, JoinOK
<1>2. CASE FindHost(x)
  <2> DEFINE phase == IF x.host \in DOMAIN reg.host THEN "findReplica" ELSE "addHost"
  <2>1. Move(x, phase, 0) /\ reg' = reg
    BY <1>2, Zenon DEF FindHost
  <2>2. /\ phase \in {"findReplica", "addReplica"} => x.host \in DOMAIN reg.host
        /\ phase # "addMember"
    OBVIOUS
  <2> HIDE DEF phase
  <2> QED
    BY Zenon, <1>1, <2>1, <2>2, MoveSound
<1>3. CASE JoinAddHost(x)
  <2>1. Move(x, "findReplica", 0) /\ reg' = Commit(reg, HostPut(reg, x.host, EmptyTable))
    BY <1>3, Zenon DEF JoinAddHost
  <2>2. Grows(reg, reg') /\ x.host \in DOMAIN reg'.host
    BY Zenon, <1>1, <2>1, HostPutGrows
  <2> QED
    BY Zenon, <2>1, <2>2, MoveSound
<1>4. CASE FindPrimeReplica(x)
  <2> DEFINE rs == ReplicasOfHost(reg, x.host) \cap ReplicasOfShard(reg, PrimeShard)
             least == CHOOSE r \in rs : \A q \in rs : r <= q
  <2>1. /\ x.phase = "findReplica" /\ reg' = reg
        /\ (rs = {} /\ Move(x, "addReplica", 0)) \/ (rs # {} /\ Move(x, "addMember", least))
    BY <1>4, Zenon DEF FindPrimeReplica
  <2>2. DOMAIN reg.replica \subseteq Nat
    BY Zenon, <1>1 DEF Good, StateType, IsTable
  <2>3. \A r \in rs : r \in Nat /\ Row(r, x.host, reg)
    BY Zenon, <2>2 DEF ReplicasOfHost, Row
  <2>4. rs # {} => least \in rs
    BY <2>3, Least, Zenon
  <2>5. rs # {} => Row(least, x.host, reg)
    BY Zenon, <2>3, <2>4
  <2> HIDE DEF rs, least
  <2>6. x.host \in DOMAIN reg.host
    BY Zenon, <1>1, <2>1 DEF Phase
  <2> QED
    BY Zenon, <1>1, <2>1, <2>5, <2>6, MoveSound
<1>5. CASE JoinAddReplica(x)
  <2>1. /\ x.phase = "addReplica" /\ Move(x, "addMember", reg.replicaID + 1)
        /\ reg' = Commit(reg, ReplicaPost(reg, x.host, PrimeShard, TRUE))
    BY <1>5, Zenon DEF JoinAddReplica
  <2>2. x.host \in DOMAIN reg.host
    BY Zenon, <1>1, <2>1 DEF Phase
  <2>3. Grows(reg, reg') /\ Row(reg.replicaID + 1, x.host, reg')
    <3> DEFINE u == Commit(reg, ReplicaPost(reg, x.host, PrimeShard, TRUE))
    <3>1. Grows(reg, u) /\ Row(reg.replicaID + 1, x.host, u)
      BY <1>1, <2>2, NewRow, TRUE \in BOOLEAN, Zenon
    <3> HIDE DEF u
    <3> QED
      BY <2>1, <3>1, Zenon DEF u
  <2> QED
    BY <2>1, <2>3, MoveSound, Zenon
<1> QED
  BY <1>2, <1>3, <1>4, <1>5, Zenon

\* The caller of handler x gets an answer, and x is gone or not wanted any more.
LEMMA AnsweredSound ==
  ASSUME IInv, JInv, NEW x \in joins, NEW id, Become(x.host, Answered(x, id)),
         id = 0 \/ Owns(id, x.host, reg, nonVoting'),
         \A r, a : Owns(r, a, reg, nonVoting) => Owns(r, a, reg, nonVoting'),
         \A r \in DOMAIN nonVoting' : Row(r, nonVoting'[r], reg),
         nonVoting' \in [DOMAIN nonVoting' -> Host],
         \A y \in joins' : Phase(y, reg) /\ (y.wanted => y \in joins \ {x}),
         UNCHANGED <<disk, reg>>, faults' \in 0 .. MaxFaults
  PROVE  JInv'
<1> DEFINE h == x.host
           k == Answered(x, id)
<1>1. /\ h \in Host \ Peer /\ DOMAIN agent[h] = Fields /\ Shape(agent[h])
      /\ Joiner(agent[h], disk[h], h, reg, nonVoting) /\ N \in Nat \ {0}
  BY Zenon, KnownSound DEF IInv, JoinOK
<1>2. x.wanted => agent[h].pc = "calling"
  BY Zenon DEF JInv, Waits
<1>3. agent'[h] = k /\ \A b \in Host \ {h} : agent'[b] = agent[b]
  BY Zenon, <1>1 DEF IInv, Become
<1>4. \A b \in Host : Sound(b, agent[b], disk[b], reg, nonVoting')
  <2>1. \A m, d, a : Joiner(m, d, a, reg, nonVoting) => Joiner(m, d, a, reg, nonVoting')
    BY DEF Joiner
  <2> QED
    BY Zenon, <2>1 DEF JInv, Sound
<1>5. \/ ~x.wanted /\ k = agent[h]
      \/ /\ x.wanted /\ k.uninit = agent[h].uninit /\ k.left = agent[h].left
         /\ \/ id # 0 /\ k.pc = "joined" /\ k.rid = id /\ k.at = agent[h].at
            \/ k.pc = "joining" /\ k.rid = agent[h].rid /\ k.at = agent[h].at + 1
  BY Zenon, <1>1 DEF Answered, Fields
<1> HIDE DEF k
<1>6. Sound(h, k, disk[h], reg, nonVoting')
  <2>1. CASE ~x.wanted /\ k = agent[h]
    BY Zenon, <1>1, <1>4, <2>1
  <2>2. CASE x.wanted /\ k # agent[h]
    <3>1. Shape(k) /\ Fills(k, reg)
      BY <1>1, <1>2, <1>5, <2>2 DEF Shape, Fills
    <3>2. Joiner(agent[h], disk[h], h, reg, nonVoting')
      BY Zenon, <1>1, <1>4 DEF Sound
    <3>3. Joiner(k, disk[h], h, reg, nonVoting')
      BY Zenon, <1>2, <1>5, <2>2, <3>2 DEF Joiner
    <3> QED
      BY Zenon, <3>1, <3>3 DEF Sound
  <2> QED
    BY Zenon, <1>1, <1>4, <1>5, <2>1, <2>2
<1>7. \A b \in Host : Sound(b, agent'[b], disk'[b], reg', nonVoting')
  BY Zenon, <1>3, <1>4, <1>6
<1>8. \A y \in joins' : y.wanted => agent'[y.host].pc = "calling"
  <2>1. SUFFICES ASSUME NEW y \in joins', y.wanted PROVE agent'[y.host].pc = "calling"
    OBVIOUS
  <2>2. y \in joins \ {x} /\ y.host \in Host /\ agent[y.host].pc = "calling"
    BY Zenon, <2>1 DEF IInv, JoinOK, JInv, Waits
  <2>3. CASE x.wanted
    BY Zenon, <1>3, <2>1, <2>2, <2>3 DEF JInv, Waits
  <2>4. CASE ~x.wanted
    BY Zenon, <1>3, <1>5, <2>2, <2>4
  <2> QED
    BY Zenon, <2>3, <2>4
<1>9. \A y, z \in joins' : y.wanted /\ z.wanted /\ y.host = z.host => y = z
  BY Zenon DEF JInv, Waits
<1> QED
  BY Zenon, <1>7, <1>8, <1>9 DEF JInv, Waits
\* Raft adds the member, or refuses; a handler fails; or a call times out.
LEMMA ReplySound ==
  ASSUME IInv, JInv, NEW x \in joins, AddMember(x) \/ JoinFails(x) \/ JoinTimeout(x)
  PROVE  JInv'
<1>1. /\ \A y \in joins : Phase(y, reg)
      /\ \A r \in DOMAIN nonVoting : Row(r, nonVoting[r], reg)
      /\ nonVoting \in [DOMAIN nonVoting -> Host] /\ x.host \in Host
      /\ faults \in 0 .. MaxFaults /\ DOMAIN x = JoinFields
  BY Zenon DEF JInv, IInv, JoinOK
<1>2. CASE AddMember(x)
  <2>1. /\ x.phase = "addMember" /\ UNCHANGED <<disk, reg, faults>>
        /\ \/ Reply(x, 0) /\ nonVoting' = nonVoting
           \/ Reply(x, x.id) /\ nonVoting' = With(nonVoting, x.id, x.host)
    BY <1>2, Zenon DEF AddMember
  <2>2. Row(x.id, x.host, reg)
    BY Zenon, <1>1, <2>1 DEF Phase
  <2>3. ASSUME nonVoting' = With(nonVoting, x.id, x.host)
        PROVE  /\ Owns(x.id, x.host, reg, nonVoting')
               /\ \A r, a : Owns(r, a, reg, nonVoting) => Owns(r, a, reg, nonVoting')
               /\ \A r \in DOMAIN nonVoting' : Row(r, nonVoting'[r], reg)
               /\ nonVoting' \in [DOMAIN nonVoting' -> Host]
    <3>2. nonVoting' \in [DOMAIN nonVoting' -> Host]
      BY Zenon, <1>1, <2>3 DEF With
    <3>1. /\ DOMAIN nonVoting' = DOMAIN nonVoting \cup {x.id} /\ nonVoting'[x.id] = x.host
          /\ \A r \in DOMAIN nonVoting : r # x.id => nonVoting'[r] = nonVoting[r]
      BY Zenon, <2>3 DEF With
    <3> QED
      BY Zenon, <1>1, <2>2, <3>1, <3>2 DEF Owns, Row
  <2>4. CASE Reply(x, 0) /\ nonVoting' = nonVoting
    <3>1. joins' = joins \ {x} /\ Become(x.host, Answered(x, 0))
      BY <2>4, Zenon DEF Reply
    <3> QED
      BY Zenon, <1>1, <2>1, <2>4, <3>1, AnsweredSound
  <2>5. CASE Reply(x, x.id) /\ nonVoting' = With(nonVoting, x.id, x.host)
    <3>1. joins' = joins \ {x} /\ Become(x.host, Answered(x, x.id))
      BY <2>5, Zenon DEF Reply
    <3> QED
      BY Zenon, <1>1, <2>1, <2>3, <2>5, <3>1, AnsweredSound
  <2> QED
    BY Zenon, <2>1, <2>4, <2>5
<1>3. CASE JoinFails(x)
  <2>1. /\ joins' = joins \ {x} /\ Become(x.host, Answered(x, 0)) /\ Fault
        /\ UNCHANGED <<disk, reg, nonVoting>>
    BY <1>3, Zenon DEF JoinFails, Reply
  <2>2. faults' \in 0 .. MaxFaults
    BY <1>1, <2>1, FaultsAssumption DEF Fault
  <2> QED
    BY Zenon, <1>1, <2>1, <2>2, AnsweredSound
<1>4. CASE JoinTimeout(x)
  <2> DEFINE y == [x EXCEPT !.wanted = FALSE]
  <2>1. /\ joins' = (joins \ {x}) \cup {y} /\ Become(x.host, Answered(x, 0)) /\ Fault
        /\ UNCHANGED <<disk, reg, nonVoting>>
    BY <1>4, Zenon DEF JoinTimeout
  <2>2. faults' \in 0 .. MaxFaults
    BY <1>1, <2>1, FaultsAssumption DEF Fault
  <2>3. y.host = x.host /\ y.phase = x.phase /\ y.id = x.id /\ ~y.wanted
    BY Zenon, <1>1 DEF JoinFields
  <2> HIDE DEF y
  <2>4. Phase(y, reg)
    BY Zenon, <1>1, <2>3 DEF Phase
  <2> QED
    BY Zenon, <1>1, <2>1, <2>2, <2>3, <2>4, AnsweredSound
<1> QED
  BY Zenon, <1>2, <1>3, <1>4

\* A process crashes.
LEMMA CrashSound ==
  ASSUME IInv, JInv, NEW a \in Host, Crash(a)
  PROVE  JInv'
<1> DEFINE Called(b) == \E x \in joins : x.peer = a /\ x.host = b /\ x.wanted
           Off(x) == [x EXCEPT !.wanted = FALSE]
           next(b) == [agent[b] EXCEPT !.pc = "joining", !.at = @ + 1]
<1>1. /\ agent' = [b \in Host |-> IF b = a THEN Stopped
                                  ELSE IF Called(b) THEN next(b) ELSE agent[b]]
      /\ Fault /\ UNCHANGED <<disk, reg, nonVoting>>
  BY Zenon DEF Crash
<1>2. joins' = {IF x.host = a THEN Off(x) ELSE x : x \in {y \in joins : y.peer # a}}
  BY Zenon DEF Crash
<1>3. \A x \in joins : /\ DOMAIN x = JoinFields /\ x.host \in Host /\ Phase(x, reg)
                       /\ x.wanted => agent[x.host].pc = "calling"
  BY Zenon DEF IInv, JoinOK, JInv, Waits
<1>4. \A x \in joins : /\ Off(x).host = x.host /\ Off(x).phase = x.phase /\ Off(x).id = x.id
                       /\ ~Off(x).wanted
  BY Zenon, <1>3 DEF JoinFields
<1> HIDE DEF Off
<1>5. \A y \in joins' : \E x \in joins :
        /\ x.peer # a /\ y.phase = x.phase /\ y.id = x.id /\ y.host = x.host
        /\ y.wanted => y = x /\ y.host # a
  BY <1>2, <1>4
<1>6. \A y \in joins' : Phase(y, reg)
  BY <1>3, <1>5 DEF Phase
<1>7. \A b \in Host : Sound(b, agent'[b], disk[b], reg, nonVoting)
  <2>1. ASSUME NEW b \in Host, Called(b) PROVE Sound(b, next(b), disk[b], reg, nonVoting)
    <3> DEFINE k == next(b)
    <3>1. /\ DOMAIN agent[b] = Fields /\ Shape(agent[b]) /\ N \in Nat \ {0}
          /\ b \notin Peer => Joiner(agent[b], disk[b], b, reg, nonVoting)
      BY Zenon, KnownSound
    <3>2. agent[b].pc = "calling"
      BY Zenon, <1>3, <2>1
    <3>3. /\ k.at = agent[b].at + 1 /\ k.uninit = agent[b].uninit /\ k.rid = agent[b].rid
          /\ k.left = agent[b].left /\ k.pc = "joining"
      BY Zenon, <3>1 DEF Fields
    <3> HIDE DEF k
    <3>4. Shape(k) /\ Fills(k, reg)
      BY <3>1, <3>2, <3>3 DEF Shape, Fills
    <3>5. b \notin Peer => Joiner(k, disk[b], b, reg, nonVoting)
      BY Zenon, <3>1, <3>2, <3>3 DEF Joiner
    <3>6. Sound(b, k, disk[b], reg, nonVoting)
      BY Zenon, <3>4, <3>5 DEF Sound
    <3> QED
      BY Zenon, <3>6 DEF k
  <2>2. \A b \in Host : Sound(b, agent[b], disk[b], reg, nonVoting)
    BY Zenon DEF JInv
  <2> HIDE DEF next, Called
  <2> QED
    BY Zenon, <1>1, <2>1, <2>2, StoppedSound
<1>8. \A y \in joins' : y.wanted => agent'[y.host].pc = "calling"
  <2>1. SUFFICES ASSUME NEW y \in joins', y.wanted PROVE agent'[y.host].pc = "calling"
    OBVIOUS
  <2>2. y \in joins /\ y.peer # a /\ y.host # a
    BY Zenon, <1>5, <2>1
  <2>3. ~Called(y.host)
    BY Zenon, <2>1, <2>2 DEF JInv, Waits
  <2> HIDE DEF next, Called
  <2>4. agent'[y.host] = agent[y.host]
    BY Zenon, <1>1, <1>3, <2>2, <2>3
  <2> QED
    BY Zenon, <1>3, <2>1, <2>2, <2>4
<1>9. \A y, z \in joins' : y.wanted /\ z.wanted /\ y.host = z.host => y = z
  BY Zenon, <1>5 DEF JInv, Waits
<1>10. Fault /\ disk' = disk /\ reg' = reg /\ nonVoting' = nonVoting
  BY Zenon DEF Crash
<1>11. faults' \in 0 .. MaxFaults
  BY <1>10, FaultsAssumption DEF Fault, JInv
<1> HIDE DEF Called, next
<1> QED
  BY Zenon, <1>6, <1>7, <1>8, <1>9, <1>10, <1>11 DEF JInv, Waits

-----------------------------------------------------------------------------
(* The theorems.                                                            *)

\* Nothing has been started.
LEMMA InitSound == Init => JInv
<1> SUFFICES ASSUME Init PROVE JInv
  OBVIOUS
<1>1. IInv /\ N \in Nat \ {0}
  BY Zenon, InitInv, PeersAreHosts
<1>2. Good(reg) /\ ~reg.panicked
  BY Zenon, EmptyGood DEF Init, EmptyState
<1>3. /\ Stopped.at = 1 /\ Stopped.uninit = {} /\ Stopped.left = {} /\ Stopped.pc = "down"
      /\ Stopped.rid = 0
  BY Zenon DEF Stopped
<1>4. \A a \in Host : Sound(a, agent[a], disk[a], reg, nonVoting)
  <2>1. \A a \in Host : agent[a] = Stopped /\ disk[a] = 0
    BY Zenon DEF Init
  <2>2. \A a : Sound(a, Stopped, 0, reg, nonVoting)
    BY <1>1, <1>3 DEF Sound, Shape, Fills, Joiner
  <2> QED
    BY Zenon, <2>1, <2>2
<1>5. /\ joins = {} /\ DOMAIN nonVoting = {} /\ faults \in 0 .. MaxFaults
      /\ nonVoting \in [DOMAIN nonVoting -> Host]
  BY FaultsAssumption DEF Init, EmptyTable
<1> QED
  BY Zenon, <1>2, <1>4, <1>5 DEF JInv, Waits

\* Every step preserves the invariant.
LEMMA NextSound == IInv /\ IInv' /\ JInv /\ [Next]_vars => JInv'
<1> SUFFICES ASSUME IInv, IInv', JInv, [Next]_vars PROVE JInv'
  OBVIOUS
<1>1. CASE UNCHANGED vars
  BY Zenon, <1>1 DEF vars, JInv, Waits
<1>2. ASSUME NEW a \in Host,
             Launch(a) \/ ResolveStep(a) \/ StartStep(a) \/ Exit(a) \/ Crash(a)
      PROVE  JInv'
  <2>1. CASE Launch(a) \/ Exit(a) \/ Crash(a)
    BY Zenon, <2>1, EarlySound, ExitSound, CrashSound
  <2>2. CASE ResolveStep(a)
    BY Zenon, <2>2, EarlySound, ResolveInfoSound, ResolveSound, ResolvedSound DEF ResolveStep
  <2>3. CASE StartStep(a)
    BY <2>3, StartedSound, FillSound, AddHostSound, JoinSound, StartJoinedSound, Zenon
       DEF StartStep
  <2> QED
    BY Zenon, <1>2, <2>1, <2>2, <2>3
<1>3. ASSUME NEW x \in joins, Handle(x) \/ JoinTimeout(x) \/ JoinFails(x) PROVE JInv'
  BY <1>3, FindSound, ReplySound, Zenon DEF Handle
<1> QED
  BY <1>1, <1>2, <1>3, Zenon DEF Next

\* The invariant holds in every reachable state.
THEOREM AlwaysJInv == Spec => []JInv
<1>1. Spec => []IInv
  BY Zenon, AlwaysIInv
<1>2. IInv /\ IInv' /\ JInv /\ [Next]_vars => JInv'
  BY Zenon, NextSound
<1> QED
  BY <1>1, <1>2, InitSound, PTL DEF Spec

\* A host that joins runs its prime replica under an ID that the registry and raft
\* give to it and to no other host (joinPrimeReplica), for every peer list, every set
\* of hosts, any number of retried calls and any bound on faults.
THEOREM JoinersOwn == Spec => []JoinerOwnsReplica
<1>1. JInv => JoinerOwnsReplica
  BY Zenon DEF JInv, Sound, Joiner, Owns, Row, JoinerOwnsReplica
<1> QED
  BY <1>1, AlwaysJInv, PTL

\* The memory of every agent and the raft members are well formed.
THEOREM TypeCorrect == Spec => []TypeOK
<1>1. ASSUME IInv, JInv PROVE TypeOK
  <2>1. \A r, a : Row(r, a, reg) => r \in Nat \ {0} /\ a \in Host
    <3>1. /\ DOMAIN reg.replica \subseteq Nat /\ reg.replica \in [DOMAIN reg.replica -> ReplicaRow]
          /\ \A r \in DOMAIN reg.replica : 0 < r
      BY Zenon, <1>1 DEF JInv, Good, StateType, IDsAllocated, IsTable
    <3>2. \A r \in DOMAIN reg.replica : reg.replica[r].HostID \in Host
      BY Zenon, <3>1 DEF ReplicaRow
    <3> QED
      BY <3>1, <3>2 DEF Row
  <2>2. ASSUME NEW a \in Host
        PROVE  /\ agent[a].rid \in Nat /\ agent[a].at \in 1 .. N + 1
               /\ IsTable(agent[a].members, Nat \ {0}, Peer)
               /\ IsTable(agent[a].seen, Nat \ {0}, Peer)
               /\ agent[a].uninit \subseteq Peer /\ agent[a].left \subseteq Peer
               /\ disk[a] \in {0, agent[a].rid} \/ agent[a].rid = 0
    <3>1. /\ AgentOK(a, agent[a], disk[a]) /\ DiskOK(a, disk[a], boot[a]) /\ Shape(agent[a])
          /\ a \notin Peer => Joiner(agent[a], disk[a], a, reg, nonVoting)
      BY Zenon, <1>1, KnownSound DEF IInv
    <3>2. ASSUME NEW t, Part(t) PROVE IsTable(t, Nat \ {0}, Peer)
      BY <3>2, Places, SMTT(20) DEF Part, IsTable
    <3>3. /\ IsTable(agent[a].members, Nat \ {0}, Peer)
          /\ IsTable(agent[a].seen, Nat \ {0}, Peer)
      BY Zenon, <3>1, <3>2, EmptyIsPart, InitialIsPart DEF AgentOK, MemoryOK
    <3>4. agent[a].rid \in Nat /\ (disk[a] \in {0, agent[a].rid} \/ agent[a].rid = 0)
      <4>1. CASE a \in Peer
        BY <3>1, <4>1, Places, SMTT(20) DEF AgentOK, PeerOK, DiskOK
      <4>2. CASE a \notin Peer
        BY <2>1, <3>1, <4>2 DEF Joiner, Owns
      <4> QED
        BY Zenon, <4>1, <4>2
    <3> QED
      BY Zenon, <3>1, <3>3, <3>4 DEF Shape
  <2> QED
    <3>1. IsTable(nonVoting, Nat \ {0}, Host)
      BY Zenon, <1>1, <2>1 DEF JInv, IsTable
    <3> QED
      BY Zenon, <1>1, <2>2, <3>1 DEF TypeOK, JInv
<1> QED
  BY <1>1, AlwaysIInv, AlwaysJInv, PTL
=============================================================================
