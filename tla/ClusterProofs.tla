---------------------------- MODULE ClusterProofs ----------------------------
(***************************************************************************)
(* The registry and the two controllers implement ReplicaLife, for every   *)
(* set of hosts, every policy and every number of shards, replicas and     *)
(* faults, and whoever leads raft shard 0: a replica ID is given to one    *)
(* host, started by that host alone, reported active after that and never  *)
(* reused.                                                                 *)
(*                                                                         *)
(* The argument: a host controller works on a snapshot that may be old,    *)
(* but the replicas it has taken from it were its own when it has read     *)
(* them, IDs are not used twice and no command moves a replica, so they    *)
(* stay its own.  Which replicas Reconcile asks for plays no part.         *)
(***************************************************************************)
EXTENDS Cluster, RegistryFSMProofs

CtlFields == {"pc", "again", "jobs", "rid", "target", "expired", "hadErr"}

\* The part of the registry the argument is about.
RegOK(s) ==
    /\ DOMAIN s = StateFields /\ DOMAIN s.host \subseteq Host
    /\ s.replicaID \in Nat /\ DOMAIN s.replica \subseteq 1 .. s.replicaID
    /\ \A r \in DOMAIN s.replica :
         DOMAIN s.replica[r] = ReplicaFields /\ s.replica[r].HostID \in Host

\* A controller reports a replica it has started, and joins one it is to start.
CtlOK(c, d) ==
    /\ DOMAIN c = CtlFields
    /\ c.pc \in {"join", "joined"} => c.rid \in DOMAIN c.jobs
    /\ c.pc = "report" => c.rid \in DOMAIN d

\* The replicas host h has started or is about to start.
Holds(h) == DOMAIN disk[h] \cup DOMAIN ctl[h].jobs

\* Replica r of registry s was not given to another host than h.
Given(r, h, s) ==
    r \in 1 .. s.replicaID /\ (r \in DOMAIN s.replica => s.replica[r].HostID = h)

CInv ==
    /\ RegOK(reg) /\ DOMAIN ctl = Host /\ DOMAIN disk = Host
    /\ \A h \in Host : CtlOK(ctl[h], disk[h])
    /\ \A h \in Host : \A r \in Holds(h) : Given(r, h, reg)
    /\ \A g, h \in Host : g # h => Holds(g) \cap Holds(h) = {}

-----------------------------------------------------------------------------
(* How the registry moves.                                                  *)

\* Registry t has the replicas of registry s, with the same hosts and status.
Same(s, t) ==
    /\ DOMAIN t = StateFields /\ DOMAIN t.host \subseteq Host
    /\ t.replicaID = s.replicaID /\ DOMAIN t.replica = DOMAIN s.replica
    /\ \A r \in DOMAIN s.replica :
         /\ DOMAIN t.replica[r] = ReplicaFields
         /\ t.replica[r].HostID = s.replica[r].HostID
         /\ t.replica[r].Status = s.replica[r].Status

\* Registry t has one replica more, under a new ID.
Posted(s, t) ==
    /\ RegOK(t) /\ t.replicaID = s.replicaID + 1
    /\ DOMAIN t.replica = DOMAIN s.replica \cup {t.replicaID}
    /\ t.replica[t.replicaID].Status # "active"
    /\ \A r \in DOMAIN s.replica :
         /\ t.replica[r].HostID = s.replica[r].HostID
         /\ t.replica[r].Status = s.replica[r].Status

\* Registry t has replica q no more.
Deleted(s, t, q) ==
    /\ RegOK(t) /\ t.replicaID = s.replicaID
    /\ q \in DOMAIN s.replica /\ DOMAIN t.replica = DOMAIN s.replica \ {q}
    /\ \A r \in DOMAIN t.replica :
         /\ t.replica[r].HostID = s.replica[r].HostID
         /\ t.replica[r].Status = s.replica[r].Status

\* In registry t replica q is active.
Activated(s, t, q) ==
    /\ RegOK(t) /\ t.replicaID = s.replicaID
    /\ q \in DOMAIN s.replica /\ DOMAIN t.replica = DOMAIN s.replica
    /\ \A r \in DOMAIN s.replica :
         /\ t.replica[r].HostID = s.replica[r].HostID
         /\ t.replica[r].Status = IF r = q THEN "active" ELSE s.replica[r].Status

\* No replica has moved and no ID is used again.
Forward(s, t) ==
    /\ RegOK(t) /\ s.replicaID <= t.replicaID
    /\ \A r \in DOMAIN t.replica : r <= s.replicaID =>
         r \in DOMAIN s.replica /\ t.replica[r].HostID = s.replica[r].HostID

\* A registry that has not changed.
LEMMA SameItself ==
  ASSUME NEW s, RegOK(s) PROVE Same(s, s)
BY Zenon DEF RegOK, Same

\* A registry with the same replicas is as sound.
LEMMA SameOK ==
  ASSUME NEW s, RegOK(s), NEW t, Same(s, t) PROVE RegOK(t)
BY Zenon DEF RegOK, Same

\* Every move goes forward.
LEMMA MovesForward ==
  ASSUME NEW s, RegOK(s), NEW t, NEW q,
         Same(s, t) \/ Posted(s, t) \/ Deleted(s, t, q) \/ Activated(s, t, q)
  PROVE  Forward(s, t)
<1>1. CASE Same(s, t)
  BY <1>1, SameOK DEF Same, Forward, RegOK
<1>2. CASE Posted(s, t)
  BY <1>2 DEF Posted, Forward, RegOK
<1>3. CASE Deleted(s, t, q)
  BY <1>3 DEF Deleted, Forward, RegOK
<1>4. CASE Activated(s, t, q)
  BY <1>4 DEF Activated, Forward, RegOK
<1> QED
  BY Zenon, <1>1, <1>2, <1>3, <1>4

\* A command is applied: what it has done to the replicas is done, or it has panicked
\* and nothing is done.
LEMMA ApplyEffect ==
  ASSUME RegOK(reg), NEW t, Apply(t), DOMAIN t = StateFields, DOMAIN t.host \subseteq Host,
         \A r \in DOMAIN t.replica : DOMAIN t.replica[r] = ReplicaFields
  PROVE  Same(reg, reg') \/ (~t.panicked /\ Same(t, reg'))
<1> DEFINE after == Commit(reg, t)
<1>1. reg' = Timeless(after)
  BY Zenon DEF Apply
<1>2. \/ t.panicked /\ after = [reg EXCEPT !.panicked = TRUE]
      \/ ~t.panicked /\ after = [t EXCEPT !.index = Entry(reg)]
  BY Zenon DEF Commit
<1> HIDE DEF after
<1>3. ASSUME NEW s, DOMAIN s = StateFields, DOMAIN s.host \subseteq Host,
             \A r \in DOMAIN s.replica : DOMAIN s.replica[r] = ReplicaFields,
             DOMAIN after = StateFields, after.host = s.host, after.replica = s.replica,
             after.replicaID = s.replicaID
      PROVE  Same(s, reg')
  <2> DEFINE tab == TimelessTable(after.replica)
  <2>1. /\ DOMAIN reg' = StateFields /\ reg'.replicaID = s.replicaID
        /\ reg'.host = TimelessTable(after.host) /\ reg'.replica = tab
    BY Zenon, <1>1, <1>3 DEF Timeless, StateFields
  <2>2. /\ DOMAIN tab = DOMAIN s.replica
        /\ \A r \in DOMAIN s.replica :
             tab[r] = [s.replica[r] EXCEPT !.Created = 0, !.Updated = 0]
    BY <1>3, Zenon DEF TimelessTable
  <2>3. \A r \in DOMAIN s.replica : /\ DOMAIN tab[r] = ReplicaFields
                                    /\ tab[r].HostID = s.replica[r].HostID
                                    /\ tab[r].Status = s.replica[r].Status
    BY <1>3, <2>2, Zenon DEF ReplicaFields
  <2> HIDE DEF tab
  <2>4. DOMAIN reg'.host = DOMAIN s.host
    BY <1>3, <2>1, Zenon DEF TimelessTable
  <2> QED
    BY <1>3, <2>1, <2>2, <2>3, <2>4, Zenon DEF Same
<1>4. CASE t.panicked /\ after = [reg EXCEPT !.panicked = TRUE]
  <2>1. /\ DOMAIN after = StateFields /\ after.host = reg.host /\ after.replica = reg.replica
        /\ after.replicaID = reg.replicaID
    BY Zenon, <1>4 DEF RegOK, StateFields
  <2> QED
    BY Zenon, <1>3, <2>1 DEF RegOK
<1>5. CASE ~t.panicked /\ after = [t EXCEPT !.index = Entry(reg)]
  <2>1. /\ DOMAIN after = StateFields /\ after.host = t.host /\ after.replica = t.replica
        /\ after.replicaID = t.replicaID
    BY Zenon, <1>5 DEF StateFields
  <2> QED
    BY Zenon, <1>3, <1>5, <2>1
<1> QED
  BY Zenon, <1>2, <1>4, <1>5
\* A command that leaves the replicas alone.
LEMMA QuietApply ==
  ASSUME RegOK(reg), NEW t, Apply(t), DOMAIN t = StateFields, DOMAIN t.host \subseteq Host,
         t.replica = reg.replica, t.replicaID = reg.replicaID
  PROVE  Same(reg, reg')
<1>1. Same(reg, reg') \/ Same(t, reg')
  BY Zenon, ApplyEffect DEF RegOK
<1> QED
  BY Zenon, <1>1 DEF Same

\* A replica is added.
LEMMA PostApply ==
  ASSUME RegOK(reg), NEW h, NEW id, NEW nonVoting, NEW t, t = ReplicaPost(reg, h, id, nonVoting),
         Apply(t)
  PROVE  Same(reg, reg') \/ Posted(reg, reg')
<1> DEFINE r == reg.replicaID + 1
<1>1. /\ DOMAIN t = StateFields /\ t.replicaID = r /\ DOMAIN t.host = DOMAIN reg.host
      /\ ~t.panicked => h \in DOMAIN reg.host
      /\ \E row : /\ t.replica = With(reg.replica, r, row)
                  /\ DOMAIN row = ReplicaFields /\ row.HostID = h
                  /\ row.Status \in {"bootstrapping", "joining"}
  BY ReplicaPostEffect DEF RegOK
<1>2. PICK row : /\ t.replica = With(reg.replica, r, row)
                 /\ DOMAIN row = ReplicaFields /\ row.HostID = h
                 /\ row.Status \in {"bootstrapping", "joining"}
  BY Zenon, <1>1
<1>3. /\ DOMAIN t.replica = DOMAIN reg.replica \cup {r} /\ t.replica[r] = row
      /\ \A q \in DOMAIN reg.replica : t.replica[q] = reg.replica[q]
  BY <1>2 DEF With, RegOK
<1>4. \A q \in DOMAIN t.replica : DOMAIN t.replica[q] = ReplicaFields
  BY Zenon, <1>2, <1>3 DEF RegOK
<1>5. Same(reg, reg') \/ (~t.panicked /\ Same(t, reg'))
  BY Zenon, <1>1, <1>4, ApplyEffect DEF RegOK
<1>6. ASSUME ~t.panicked, Same(t, reg') PROVE Posted(reg, reg')
  <2>1. h \in Host /\ r \in Nat /\ reg.replicaID \in Nat
    BY <1>1, <1>6 DEF RegOK
  <2>2. RegOK(reg')
    BY <1>1, <1>2, <1>3, <1>6, <2>1 DEF Same, RegOK
  <2>3. /\ reg'.replicaID = r /\ DOMAIN reg'.replica = DOMAIN reg.replica \cup {r}
        /\ reg'.replica[r].Status = row.Status
        /\ \A q \in DOMAIN reg.replica : /\ reg'.replica[q].HostID = reg.replica[q].HostID
                                         /\ reg'.replica[q].Status = reg.replica[q].Status
    BY <1>1, <1>3, <1>6 DEF Same
  <2> QED
    BY Zenon, <1>2, <2>2, <2>3 DEF Posted
<1> QED
  BY Zenon, <1>5, <1>6

\* A replica is removed.
LEMMA DelApply ==
  ASSUME RegOK(reg), NEW q, NEW t, t = ReplicaDel(reg, q), Apply(t)
  PROVE  Same(reg, reg') \/ Deleted(reg, reg', q)
<1>1. /\ DOMAIN t = StateFields /\ t.replicaID = reg.replicaID
      /\ DOMAIN t.host = DOMAIN reg.host
      /\ t.replica = reg.replica \/ t.replica = Without(reg.replica, {q})
  BY ReplicaDelEffect DEF RegOK
<1>2. CASE t.replica = reg.replica
  BY Zenon, <1>1, <1>2, QuietApply DEF RegOK
<1>3. CASE t.replica = Without(reg.replica, {q})
  <2>1. /\ DOMAIN t.replica = DOMAIN reg.replica \ {q}
        /\ \A r \in DOMAIN t.replica : t.replica[r] = reg.replica[r]
    BY Zenon, <1>3 DEF Without
  <2>2. Same(reg, reg') \/ Same(t, reg')
    BY Zenon, <1>1, <2>1, ApplyEffect DEF RegOK
  <2>3. CASE Same(t, reg')
    <3>1. RegOK(reg')
      BY <1>1, <2>1, <2>3 DEF Same, RegOK
    <3>2. CASE q \in DOMAIN reg.replica
      BY <1>1, <2>1, <2>3, <3>1, <3>2 DEF Same, Deleted
    <3>3. CASE q \notin DOMAIN reg.replica
      BY <1>1, <2>1, <2>3, <3>3 DEF Same
    <3> QED
      BY Zenon, <3>2, <3>3
  <2> QED
    BY Zenon, <2>2, <2>3
<1> QED
  BY Zenon, <1>1, <1>2, <1>3

\* A replica is reported active.
LEMMA StatusApply ==
  ASSUME RegOK(reg), NEW q, NEW t, t = ReplicaStatusUpdate(reg, q, "active"), Apply(t)
  PROVE  Same(reg, reg') \/ Activated(reg, reg', q)
<1> DEFINE row == [reg.replica[q] EXCEPT !.Status = "active"]
<1>1. /\ DOMAIN t = StateFields /\ t.replicaID = reg.replicaID
      /\ DOMAIN t.host = DOMAIN reg.host
      /\ t.replica = IF q \in DOMAIN reg.replica THEN With(reg.replica, q, row) ELSE reg.replica
  <2>1. q \in DOMAIN reg.replica => "HostID" \in DOMAIN reg.replica[q]
    BY Zenon DEF RegOK, ReplicaFields
  <2> QED
    BY <2>1, ReplicaStatusUpdateEffect DEF RegOK
<1>2. CASE q \notin DOMAIN reg.replica
  BY Zenon, <1>1, <1>2, QuietApply DEF RegOK
<1>3. CASE q \in DOMAIN reg.replica
  <2>1. DOMAIN row = ReplicaFields /\ row.HostID = reg.replica[q].HostID /\ row.Status = "active"
    BY Zenon, <1>3 DEF RegOK, ReplicaFields
  <2> HIDE DEF row
  <2>2. /\ DOMAIN t.replica = DOMAIN reg.replica /\ t.replica[q] = row
        /\ \A r \in DOMAIN reg.replica : r # q => t.replica[r] = reg.replica[r]
    BY Zenon, <1>1, <1>3 DEF With
  <2>3. \A r \in DOMAIN t.replica : DOMAIN t.replica[r] = ReplicaFields
    BY Zenon, <2>1, <2>2 DEF RegOK
  <2>4. Same(reg, reg') \/ Same(t, reg')
    BY Zenon, <1>1, <2>3, ApplyEffect DEF RegOK
  <2>5. ASSUME Same(t, reg') PROVE Activated(reg, reg', q)
    <3>1. RegOK(reg')
      BY <1>1, <2>1, <2>2, <2>5 DEF Same, RegOK
    <3> QED
      BY <1>1, <1>3, <2>1, <2>2, <2>5, <3>1 DEF Same, Activated
  <2> QED
    BY Zenon, <2>4, <2>5
<1> QED
  BY Zenon, <1>2, <1>3

-----------------------------------------------------------------------------
(* How the life of a replica moves.                                         *)

\* Nothing has happened to a replica.
LEMMA LifeStutters ==
  ASSUME CInv, Same(reg, reg'), \A h \in Host : DOMAIN disk'[h] = DOMAIN disk[h]
  PROVE  UNCHANGED <<LifePhase, LifeHome, LifeStartedOn>>
<1>1. LifePhase' = LifePhase /\ LifeHome' = LifeHome
  BY Zenon DEF Same, LifePhase, PhaseIn, LifeHome
<1>2. LifeStartedOn' = LifeStartedOn
  BY Zenon DEF LifeStartedOn, StartedIn
<1> QED
  BY Zenon, <1>1, <1>2

\* A replica that is added is placed.
LEMMA LifePlaces ==
  ASSUME CInv, Posted(reg, reg'), disk' = disk
  PROVE  [Life!Next]_<<LifePhase, LifeHome, LifeStartedOn>>
<1> DEFINE q == reg'.replicaID
<1>1. /\ q = reg.replicaID + 1 /\ reg.replicaID \in Nat
      /\ q \notin DOMAIN reg.replica /\ DOMAIN reg.replica \subseteq 1 .. reg.replicaID
      /\ reg'.replica[q].HostID \in Host
  BY DEF CInv, Posted, RegOK
<1>2. LifeStartedOn' = LifeStartedOn
  BY Zenon DEF LifeStartedOn
<1>3. CASE q \in 1 .. MaxReplicas
  <2>1. LifePhase[q] = "unborn" /\ LifePhase' = [LifePhase EXCEPT ![q] = "placed"]
    <3>1. PhaseIn(reg, q) = "unborn" /\ PhaseIn(reg', q) = "placed"
      BY <1>1 DEF PhaseIn, Posted
    <3>2. \A r \in 1 .. MaxReplicas : r # q => PhaseIn(reg', r) = PhaseIn(reg, r)
      BY <1>1, ReplicasAssumption DEF PhaseIn, Posted
    <3> HIDE DEF q
    <3> QED
      BY <1>3, <3>1, <3>2, Zenon DEF LifePhase
  <2>2. LifeHome' = [LifeHome EXCEPT ![q] = reg'.replica[q].HostID]
    BY <1>1, <1>3, ReplicasAssumption, Zenon DEF LifeHome, Posted
  <2> HIDE DEF q
  <2>3. Life!Place(q)
    BY <1>1, <1>2, <2>1, <2>2, Zenon DEF Life!Place
  <2> QED
    BY Zenon, <1>3, <2>3 DEF Life!Next
<1>4. CASE q \notin 1 .. MaxReplicas
  <2>1. LifePhase' = LifePhase
    BY <1>1, <1>4, ReplicasAssumption DEF LifePhase, PhaseIn, Posted
  <2>2. LifeHome' = LifeHome
    BY Zenon, <1>1, <1>4, ReplicasAssumption DEF LifeHome, Posted
  <2> QED
    BY Zenon, <1>2, <2>1, <2>2
<1> QED
  BY Zenon, <1>3, <1>4

\* A replica that is deleted is removed.
LEMMA LifeRemoves ==
  ASSUME CInv, NEW q, Deleted(reg, reg', q), disk' = disk
  PROVE  [Life!Next]_<<LifePhase, LifeHome, LifeStartedOn>>
<1>1. /\ q \in 1 .. reg.replicaID /\ q \in DOMAIN reg.replica /\ reg.replicaID \in Nat
      /\ reg'.replicaID = reg.replicaID /\ DOMAIN reg'.replica = DOMAIN reg.replica \ {q}
  BY Zenon DEF CInv, Deleted, RegOK
<1>2. LifeStartedOn' = LifeStartedOn
  BY Zenon DEF LifeStartedOn
<1>3. CASE q \in 1 .. MaxReplicas
  <2>1. /\ LifePhase[q] \in {"placed", "active"}
        /\ LifePhase' = [LifePhase EXCEPT ![q] = "removed"]
    <3>1. PhaseIn(reg, q) \in {"placed", "active"} /\ PhaseIn(reg', q) = "removed"
      BY <1>1 DEF PhaseIn, Deleted
    <3>2. \A r \in 1 .. MaxReplicas : r # q => PhaseIn(reg', r) = PhaseIn(reg, r)
      BY Zenon, <1>1, ReplicasAssumption DEF PhaseIn, Deleted
    <3> QED
      BY <1>3, <3>1, <3>2, Zenon DEF LifePhase
  <2>2. LifeHome' = [LifeHome EXCEPT ![q] = NoHost]
    BY <1>1, <1>3, ReplicasAssumption, Zenon DEF LifeHome, Deleted
  <2>3. Life!Remove(q)
    BY Zenon, <1>2, <2>1, <2>2 DEF Life!Remove
  <2> QED
    BY Zenon, <1>3, <2>3 DEF Life!Next
<1>4. CASE q \notin 1 .. MaxReplicas
  <2>1. LifePhase' = LifePhase
    BY Zenon, <1>1, <1>4, ReplicasAssumption DEF LifePhase, PhaseIn, Deleted
  <2>2. LifeHome' = LifeHome
    BY Zenon, <1>1, <1>4, ReplicasAssumption DEF LifeHome, Deleted
  <2> QED
    BY Zenon, <1>2, <2>1, <2>2
<1> QED
  BY Zenon, <1>3, <1>4
\* A replica that is reported active was started by its host, and by no other.
LEMMA LifeConfirms ==
  ASSUME CInv, NEW q, Activated(reg, reg', q), disk' = disk,
         NEW h \in Host, q \in DOMAIN disk[h]
  PROVE  [Life!Next]_<<LifePhase, LifeHome, LifeStartedOn>>
<1>1. /\ q \in 1 .. reg.replicaID /\ q \in DOMAIN reg.replica /\ reg.replicaID \in Nat
      /\ reg'.replicaID = reg.replicaID /\ DOMAIN reg'.replica = DOMAIN reg.replica
      /\ \A r \in DOMAIN reg.replica : reg'.replica[r].HostID = reg.replica[r].HostID
  BY Zenon DEF CInv, Activated, RegOK
<1>2. LifeStartedOn' = LifeStartedOn /\ LifeHome' = LifeHome
  BY Zenon, <1>1 DEF LifeStartedOn, LifeHome
<1>3. \A r \in 1 .. MaxReplicas : r # q => PhaseIn(reg', r) = PhaseIn(reg, r)
  BY Zenon, <1>1, ReplicasAssumption DEF PhaseIn, Activated
<1>4. CASE q \in 1 .. MaxReplicas /\ PhaseIn(reg, q) = "placed"
  <2>1. PhaseIn(reg', q) = "active"
    BY <1>1 DEF PhaseIn, Activated
  <2>2. LifePhase[q] = "placed" /\ LifePhase' = [LifePhase EXCEPT ![q] = "active"]
    BY <1>3, <1>4, <2>1, Zenon DEF LifePhase
  <2>3. reg.replica[q].HostID = h
    BY <1>1 DEF CInv, Holds, Given
  <2>4. \A g \in Host : q \in DOMAIN disk[g] => g = h
    BY Zenon DEF CInv, Holds
  <2>5. LifeHome[q] = h /\ LifeStartedOn[q] = {h}
    BY Zenon, <1>1, <1>4, <2>3, <2>4 DEF LifeHome, LifeStartedOn, StartedIn
  <2>6. Life!Confirm(q)
    BY Zenon, <1>2, <2>2, <2>5 DEF Life!Confirm
  <2> QED
    BY Zenon, <1>4, <2>6 DEF Life!Next
<1>5. CASE q \notin 1 .. MaxReplicas \/ PhaseIn(reg, q) # "placed"
  <2>1. PhaseIn(reg, q) # "placed" => PhaseIn(reg', q) = PhaseIn(reg, q)
    BY Zenon, <1>1 DEF PhaseIn, Activated
  <2>2. LifePhase' = LifePhase
    BY Zenon, <1>3, <1>5, <2>1 DEF LifePhase
  <2> QED
    BY Zenon, <1>2, <2>2
<1> QED
  BY Zenon, <1>4, <1>5

\* A replica is started by the host that holds it.
LEMMA LifeStarts ==
  ASSUME CInv, reg' = reg, NEW h \in Host, NEW q \in Holds(h), q \notin DOMAIN disk[h],
         \A g \in Host : DOMAIN disk'[g] = DOMAIN disk[g] \cup (IF g = h THEN {q} ELSE {})
  PROVE  [Life!Next]_<<LifePhase, LifeHome, LifeStartedOn>>
<1>1. LifePhase' = LifePhase /\ LifeHome' = LifeHome
  BY Zenon DEF LifePhase, LifeHome
<1>2. Given(q, h, reg) /\ reg.replicaID \in Nat
  BY Zenon DEF CInv, RegOK
<1>3. \A g \in Host : q \notin DOMAIN disk[g]
  BY Zenon DEF CInv, Holds
<1>4. CASE q \in 1 .. MaxReplicas
  <2>1. LifeStartedOn[q] = {} /\ LifeStartedOn' = [LifeStartedOn EXCEPT ![q] = {h}]
    <3>1. StartedIn(disk, q) = {} /\ StartedIn(disk', q) = {h}
      BY Zenon, <1>3 DEF StartedIn
    <3>2. \A r : r # q => StartedIn(disk', r) = StartedIn(disk, r)
      BY Zenon DEF StartedIn
    <3> QED
      BY <1>4, <3>1, <3>2, Zenon DEF LifeStartedOn
  <2>2. LifePhase[q] # "unborn" /\ LifeHome[q] \in {h, NoHost}
    BY <1>2, <1>4 DEF LifePhase, PhaseIn, LifeHome, Given
  <2>3. Life!Start(q)
    BY <1>1, <2>1, <2>2, Zenon DEF Life!Start
  <2> QED
    BY Zenon, <1>4, <2>3 DEF Life!Next
<1>5. CASE q \notin 1 .. MaxReplicas
  <2>1. LifeStartedOn' = LifeStartedOn
    BY <1>5 DEF LifeStartedOn, StartedIn
  <2> QED
    BY Zenon, <1>1, <2>1
<1> QED
  BY Zenon, <1>4, <1>5
-----------------------------------------------------------------------------
(* The invariant.                                                           *)

\* The registry moves forward and the controllers do nothing.
LEMMA RegKeeps ==
  ASSUME CInv, Forward(reg, reg'), UNCHANGED <<ctl, disk>>
  PROVE  CInv'
<1>1. \A r, h : Given(r, h, reg) => Given(r, h, reg')
  BY DEF Given, Forward, CInv, RegOK
<1> QED
  BY Zenon, <1>1 DEF CInv, Forward, Holds

\* The controller of h moves on to c, and holds what it has held or what is placed on h.
LEMMA CtlKeeps ==
  ASSUME CInv, Forward(reg, reg'), NEW h \in Host, NEW c,
         ctl' = [ctl EXCEPT ![h] = Settled(c)],
         DOMAIN disk' = Host, \A g \in Host \ {h} : disk'[g] = disk[g], CtlOK(c, disk'[h]),
         \A r \in DOMAIN disk'[h] \cup DOMAIN c.jobs :
           r \in Holds(h) \/ (r \in DOMAIN reg.replica /\ reg.replica[r].HostID = h)
  PROVE  CInv'
<1> DEFINE k == Settled(c)
<1>1. DOMAIN ctl' = Host /\ ctl'[h] = k /\ \A g \in Host \ {h} : ctl'[g] = ctl[g]
  BY Zenon DEF CInv
<1>2. CtlOK(k, disk'[h]) /\ DOMAIN k.jobs \subseteq DOMAIN c.jobs
  <2>1. CASE k = c
    BY Zenon, <2>1
  <2>2. CASE k # c
    <3> DEFINE i == Idle(c.hadErr)
    <3>1. k = i
      BY Zenon, <2>2 DEF Settled
    <3>2. DOMAIN i = CtlFields /\ i.pc = "idle" /\ DOMAIN i.jobs = {}
      BY Zenon DEF Idle, CtlFields, EmptyTable
    <3> HIDE DEF i, k
    <3> QED
      BY Zenon, <3>1, <3>2 DEF CtlOK
  <2> QED
    BY Zenon, <2>1, <2>2
<1> HIDE DEF k
<1>3. /\ \A r \in Holds(h)' : Given(r, h, reg)
      /\ \A g \in Host \ {h} : \A r \in Holds(h)' : r \notin Holds(g)
  <2>1. \A r \in Holds(h)' :
          r \in Holds(h) \/ (r \in DOMAIN reg.replica /\ reg.replica[r].HostID = h)
    BY Zenon, <1>1, <1>2 DEF Holds
  <2>2. \A r \in DOMAIN reg.replica : r \in 1 .. reg.replicaID
    BY Zenon DEF CInv, RegOK
  <2>3. \A g \in Host : \A r \in Holds(g) : Given(r, g, reg)
    BY Zenon DEF CInv
  <2>4. \A g \in Host \ {h} : Holds(g) \cap Holds(h) = {}
    BY Zenon DEF CInv
  <2>5. \A r \in Holds(h)' : Given(r, h, reg)
    BY Zenon, <2>1, <2>2, <2>3 DEF Given
  <2>6. \A g \in Host \ {h} : \A r \in Holds(h)' : r \notin Holds(g)
    BY <2>1, <2>3, <2>4 DEF Given
  <2> QED
    BY Zenon, <2>5, <2>6
<1>4. \A g \in Host \ {h} : Holds(g)' = Holds(g)
  BY Zenon, <1>1 DEF Holds
<1>5. \A r, g : Given(r, g, reg) => Given(r, g, reg')
  BY DEF Given, Forward, CInv, RegOK
<1>6. \A g \in Host : CtlOK(ctl'[g], disk'[g])
  BY Zenon, <1>1, <1>2 DEF CInv
<1>7. \A g \in Host : \A r \in Holds(g)' : Given(r, g, reg')
  BY <1>3, <1>4, <1>5 DEF CInv
<1>8. \A f, g \in Host : f # g => Holds(f)' \cap Holds(g)' = {}
  BY <1>3, <1>4 DEF CInv
<1> QED
  BY Zenon, <1>1, <1>6, <1>7, <1>8 DEF CInv, Forward
-----------------------------------------------------------------------------
(* The steps.                                                               *)

\* A step of ReplicaLife, or none.
LifeStep == [Life!Next]_<<LifePhase, LifeHome, LifeStartedOn>>

\* A step that leaves the replicas and the host controllers alone.
LEMMA QuietStep ==
  ASSUME CInv, Same(reg, reg'), UNCHANGED <<ctl, disk>>
  PROVE  CInv' /\ LifeStep
<1>1. Forward(reg, reg')
  BY Zenon, MovesForward DEF CInv
<1> QED
  BY Zenon, <1>1, RegKeeps, LifeStutters DEF LifeStep

\* A step that only a host controller takes.
LEMMA CtlStep ==
  ASSUME CInv, Same(reg, reg'), disk' = disk, NEW h \in Host, NEW c,
         ctl' = [ctl EXCEPT ![h] = Settled(c)], CtlOK(c, disk[h]),
         \A r \in DOMAIN c.jobs :
           r \in Holds(h) \/ (r \in DOMAIN reg.replica /\ reg.replica[r].HostID = h)
  PROVE  CInv' /\ LifeStep
<1>1. Forward(reg, reg') /\ DOMAIN disk' = Host
  BY Zenon, MovesForward DEF CInv
<1>2. \A r \in DOMAIN disk'[h] \cup DOMAIN c.jobs :
        r \in Holds(h) \/ (r \in DOMAIN reg.replica /\ reg.replica[r].HostID = h)
  BY Zenon DEF Holds
<1>3. CInv'
  BY <1>1, <1>2, CtlKeeps, Zenon
<1> QED
  BY Zenon, <1>3, LifeStutters DEF LifeStep

\* A proposal is applied or not.
LEMMA ProposedOrNot ==
  ASSUME NEW t, NEW ok, primePropose(t, ok)
  PROVE  Apply(t) \/ reg' = reg
BY Zenon DEF primePropose, regVars

\* Users, and the update of a host that starts.
LEMMA UserSteps ==
  ASSUME CInv, Users \/ \E a \in Host : Restart(a)
  PROVE  CInv' /\ LifeStep
<1>1. RegOK(reg) /\ DOMAIN reg = StateFields /\ DOMAIN reg.host \subseteq Host
  BY Zenon DEF CInv, RegOK
<1>2. ASSUME NEW p, ShardCreate(p) PROVE CInv' /\ LifeStep
  <2> DEFINE t == ShardPost(reg, NoName, [placement |-> p])
  <2>1. Apply(t) /\ UNCHANGED hostVars
    BY <1>2, Zenon DEF ShardCreate
  <2>2. /\ DOMAIN t = StateFields /\ t.replica = reg.replica
        /\ t.replicaID = reg.replicaID /\ t.host = reg.host
    BY <1>1, ShardPostEffect
  <2> HIDE DEF t
  <2>3. Same(reg, reg')
    BY Zenon, <1>1, <2>1, <2>2, QuietApply
  <2> QED
    BY Zenon, <2>1, <2>3, QuietStep DEF hostVars
<1>3. ASSUME NEW id, NEW p, ShardUpdate(id, p) PROVE CInv' /\ LifeStep
  <2> DEFINE t == ShardPut(reg, id, reg.shard[id].Name, reg.shard[id].Term, [placement |-> p])
  <2>1. Apply(t) /\ UNCHANGED hostVars
    BY <1>3, Zenon DEF ShardUpdate
  <2>2. /\ DOMAIN t = StateFields /\ t.replica = reg.replica
        /\ t.replicaID = reg.replicaID /\ DOMAIN t.host = DOMAIN reg.host
    BY <1>1, ShardPutEffect
  <2> HIDE DEF t
  <2>3. Same(reg, reg')
    BY Zenon, <1>1, <2>1, <2>2, QuietApply
  <2> QED
    BY Zenon, <2>1, <2>3, QuietStep DEF hostVars
<1>4. ASSUME NEW a \in Host, Restart(a) PROVE CInv' /\ LifeStep
  <2> DEFINE t == HostPut(reg, a, HostTagsOf[a])
  <2>1. Apply(t) /\ UNCHANGED hostVars
    BY <1>4, Zenon DEF Restart
  <2>2. /\ DOMAIN t = StateFields /\ t.replica = reg.replica
        /\ t.replicaID = reg.replicaID /\ DOMAIN t.host = DOMAIN reg.host \cup {a}
    BY <1>1, HostPutEffect
  <2> HIDE DEF t
  <2>3. Same(reg, reg')
    BY Zenon, <1>1, <2>1, <2>2, QuietApply
  <2> QED
    BY Zenon, <2>1, <2>3, QuietStep DEF hostVars
<1> QED
  BY <1>2, <1>3, <1>4, Zenon DEF Users

\* The manager reads and records errors, raft reports leaders.
LEMMA ManagerSteps ==
  ASSUME CInv, NEW a \in Host,
         \/ (ManagerRead(a) \/ TagError(a)) /\ UNCHANGED hostVars
         \/ Elect(a) \/ LoseLead(a)
         \/ \E id, term : ShardElects(a, id, term)
  PROVE  CInv' /\ LifeStep
<1>1. RegOK(reg) /\ DOMAIN reg = StateFields /\ DOMAIN reg.host \subseteq Host
  BY Zenon DEF CInv, RegOK
<1>2. Same(reg, reg)
  BY Zenon, <1>1, SameItself
<1>3. UNCHANGED hostVars
  BY Zenon DEF Elect, LoseLead, ShardElects
<1>4. CASE ManagerRead(a) \/ Elect(a) \/ LoseLead(a)
  <2>1. reg' = reg
    BY <1>4, Zenon DEF ManagerRead, Elect, LoseLead, PrimeLeaderUpdated, regVars
  <2> QED
    BY Zenon, <1>2, <1>3, <2>1, QuietStep DEF hostVars
<1>5. CASE TagError(a)
  <2>1. PICK t, act, id, ok : t = ShardTags(reg, act, id, ErrorTag) /\ primePropose(t, ok)
    BY <1>5, Zenon DEF TagError
  <2>2. /\ DOMAIN t = StateFields /\ t.replica = reg.replica
        /\ t.replicaID = reg.replicaID /\ DOMAIN t.host = DOMAIN reg.host
    BY <1>1, <2>1, ShardTagsEffect
  <2>3. Same(reg, reg')
    BY Zenon, <1>1, <1>2, <2>1, <2>2, ProposedOrNot, QuietApply
  <2> QED
    BY Zenon, <1>3, <2>3, QuietStep DEF hostVars
<1>6. CASE \E id, term : ShardElects(a, id, term)
  <2>1. PICK t, id, term, ok : t = ShardLeaderSet(reg, id, term) /\ primePropose(t, ok)
    BY <1>6, Zenon DEF ShardElects, ShardLeaderUpdated
  <2>2. /\ DOMAIN t = StateFields /\ t.replica = reg.replica
        /\ t.replicaID = reg.replicaID /\ t.host = reg.host
    BY <1>1, <2>1, ShardLeaderSetEffect
  <2>3. Same(reg, reg')
    BY Zenon, <1>1, <1>2, <2>1, <2>2, ProposedOrNot, QuietApply
  <2> QED
    BY Zenon, <1>3, <2>3, QuietStep DEF hostVars
<1> QED
  BY Zenon, <1>4, <1>5, <1>6

\* The manager creates or deletes a replica.
LEMMA OperateSteps ==
  ASSUME CInv, NEW a \in Host, Operate(a), UNCHANGED hostVars
  PROVE  CInv' /\ LifeStep
<1>1. RegOK(reg) /\ UNCHANGED <<ctl, disk>>
  BY Zenon DEF CInv, hostVars
<1>2. PICK op, id, ok : primePropose(Outcome(op, id), ok)
  BY Zenon DEF Operate
<1>3. Apply(Outcome(op, id)) \/ reg' = reg
  BY Zenon, <1>2, ProposedOrNot
<1>4. \/ reg' = reg
      \/ Apply(ReplicaPost(reg, op.host, id, op.nonVoting))
      \/ Apply(ReplicaDel(reg, op.replica))
  BY <1>3, Zenon DEF Outcome
<1>5. Same(reg, reg') \/ Posted(reg, reg') \/ Deleted(reg, reg', op.replica)
  BY Zenon, <1>1, <1>4, SameItself, PostApply, DelApply
<1>6. CASE Same(reg, reg')
  BY Zenon, <1>1, <1>6, QuietStep
<1>7. CASE Posted(reg, reg')
  BY Zenon, <1>1, <1>7, MovesForward, RegKeeps, LifePlaces DEF LifeStep
<1>8. CASE Deleted(reg, reg', op.replica)
  BY Zenon, <1>1, <1>8, MovesForward, RegKeeps, LifeRemoves DEF LifeStep
<1> QED
  BY Zenon, <1>5, <1>6, <1>7, <1>8
\* What is known of the controller that takes a step.
LEMMA KnownCtl ==
  ASSUME CInv, NEW h \in Host
  PROVE  /\ DOMAIN ctl[h] = CtlFields /\ CtlOK(ctl[h], disk[h])
         /\ DOMAIN ctl[h].jobs \subseteq Holds(h) /\ DOMAIN disk[h] \subseteq Holds(h)
         /\ Same(reg, reg)
BY Zenon, SameItself DEF CInv, CtlOK, Holds

\* A controller that rests holds nothing but what it has stored.
LEMMA IdleStep ==
  ASSUME CInv, Same(reg, reg'), disk' = disk, NEW h \in Host,
         ctl' = [ctl EXCEPT ![h] = Idle(TRUE)]
  PROVE  CInv' /\ LifeStep
<1> DEFINE i == Idle(TRUE)
<1>1. DOMAIN i = CtlFields /\ i.pc = "idle" /\ DOMAIN i.jobs = {}
  BY Zenon DEF Idle, CtlFields, EmptyTable
<1> HIDE DEF i
<1>2. Settled(i) = i
  BY Zenon, <1>1 DEF Settled
<1>3. ctl' = [ctl EXCEPT ![h] = Settled(i)] /\ CtlOK(i, disk[h])
  BY <1>1, <1>2, Zenon DEF i, CtlOK
<1> QED
  BY <1>1, <1>3, CtlStep, Zenon

\* Crashes and the steps of Stop.
LEMMA StopSteps ==
  ASSUME CInv, NEW a \in Host, Crash(a) \/ Stop(a) \/ StopStep(a)
  PROVE  CInv' /\ LifeStep
<1>1. reg' = reg /\ disk' = disk
  BY Zenon DEF Crash, Stop, StopStep, StopManager, StopHost, StopClose, regVars, hostVars
<1>2. Same(reg, reg')
  BY Zenon, <1>1, KnownCtl
<1>3. \/ ctl' = ctl
      \/ ctl' = [ctl EXCEPT ![a] = Idle(TRUE)]
      \/ ctl' = [ctl EXCEPT ![a] = Settled(Idle(TRUE))]
  BY Zenon DEF Crash, Stop, StopStep, StopManager, StopHost, StopClose, Control, hostVars
<1>4. Settled(Idle(TRUE)) = Idle(TRUE)
  BY Zenon DEF Settled, Idle
<1>5. CASE ctl' = ctl
  BY Zenon, <1>1, <1>2, <1>5, QuietStep
<1>6. CASE ctl' = [ctl EXCEPT ![a] = Idle(TRUE)]
  BY <1>1, <1>2, <1>6, IdleStep, Zenon
<1> QED
  BY <1>3, <1>4, <1>5, <1>6, Zenon

\* The controller reads the registry: what it takes from it is placed on its host.
LEMMA HostReadStep ==
  ASSUME CInv, NEW h \in Host, HostRead(h)
  PROVE  CInv' /\ LifeStep
<1> DEFINE jobs == [r \in Missing(reg, h) |-> Job(reg, r)]
           c == [ctl[h] EXCEPT !.pc = "work", !.jobs = jobs]
<1>1. /\ reg' = reg /\ disk' = disk /\ ctl' = [ctl EXCEPT ![h] = Settled(c)]
  BY Zenon DEF HostRead, Control
<1>2. DOMAIN jobs = Missing(reg, h)
  OBVIOUS
<1> HIDE DEF jobs
<1>3. DOMAIN c = CtlFields /\ c.pc = "work" /\ c.jobs = jobs
  BY Zenon, KnownCtl DEF CtlFields
<1> HIDE DEF c
<1>4. CtlOK(c, disk[h])
  BY Zenon, <1>3 DEF CtlOK
<1>5. \A r \in DOMAIN c.jobs : r \in DOMAIN reg.replica /\ reg.replica[r].HostID = h
  BY Zenon, <1>2, <1>3 DEF Missing, ReplicasOfHost
<1> QED
  BY <1>1, <1>4, <1>5, KnownCtl, CtlStep, Zenon

\* The controller asks a member to add the replica, and gets an answer or none.
LEMMA JoinSteps ==
  ASSUME CInv, NEW h \in Host,
         \/ Add(h) \/ AddLost(h) \/ Expire(h)
         \/ \E r \in DOMAIN ctl[h].jobs : \E m : Ask(h, r, m)
  PROVE  CInv' /\ LifeStep
<1>1. DOMAIN ctl[h] = CtlFields /\ CtlOK(ctl[h], disk[h]) /\ Same(reg, reg)
  BY Zenon, KnownCtl
<1>2. reg' = reg /\ disk' = disk
  BY Zenon DEF Add, AddLost, Expire, Ask, regVars, agentVars
<1>3. ASSUME NEW c, ctl' = [ctl EXCEPT ![h] = Settled(c)], DOMAIN c = CtlFields,
             c.jobs = ctl[h].jobs, c.pc \in {"join", "joined"}, c.rid \in DOMAIN ctl[h].jobs
      PROVE  CInv' /\ LifeStep
  <2>1. CtlOK(c, disk[h])
    BY Zenon, <1>3 DEF CtlOK
  <2> QED
    BY <1>1, <1>2, <1>3, <2>1, KnownCtl, CtlStep, Zenon
<1>4. CASE Add(h)
  <2> DEFINE c == [ctl[h] EXCEPT !.pc = "joined", !.target = NoHost]
  <2>1. ctl[h].pc = "join" /\ ctl' = [ctl EXCEPT ![h] = Settled(c)]
    BY <1>4, Zenon DEF Add, AddAnswers, Control
  <2>2. /\ DOMAIN c = CtlFields /\ c.jobs = ctl[h].jobs /\ c.pc = "joined"
        /\ c.rid = ctl[h].rid
    BY Zenon, <1>1 DEF CtlFields
  <2> HIDE DEF c
  <2> QED
    BY <1>1, <1>3, <2>1, <2>2, Zenon DEF CtlOK
<1>5. CASE Expire(h)
  <2> DEFINE c == [ctl[h] EXCEPT !.expired = TRUE]
  <2>1. ctl[h].pc = "join" /\ ctl' = [ctl EXCEPT ![h] = Settled(c)]
    BY <1>5, Zenon DEF Expire, Control
  <2>2. /\ DOMAIN c = CtlFields /\ c.jobs = ctl[h].jobs /\ c.pc = ctl[h].pc
        /\ c.rid = ctl[h].rid
    BY Zenon, <1>1 DEF CtlFields
  <2> HIDE DEF c
  <2> QED
    BY <1>1, <1>3, <2>1, <2>2, Zenon DEF CtlOK
<1>6. CASE \E r \in DOMAIN ctl[h].jobs : \E m : Ask(h, r, m)
  <2>4. PICK r \in DOMAIN ctl[h].jobs : \E m : Ask(h, r, m)
    BY <1>6, Zenon
  <2>1. PICK m : Ask(h, r, m)
    BY <2>4, Zenon
  <2> DEFINE c == [ctl[h] EXCEPT !.pc = "join", !.rid = r,
                                 !.target = ctl[h].jobs[r].members[m]]
  <2>2. ctl' = [ctl EXCEPT ![h] = Settled(c)]
    BY <2>1, Zenon DEF Ask, Control
  <2>3. DOMAIN c = CtlFields /\ c.jobs = ctl[h].jobs /\ c.pc = "join" /\ c.rid = r
    BY Zenon, <1>1 DEF CtlFields
  <2> HIDE DEF c
  <2> QED
    BY <1>3, <2>1, <2>2, <2>3, Zenon
<1>7. CASE AddLost(h)
  <2>1. ctl' = ctl
    BY <1>7, Zenon DEF AddLost
  <2> QED
    BY Zenon, <1>1, <1>2, <2>1, QuietStep
<1> QED
  BY Zenon, <1>4, <1>5, <1>6, <1>7

\* A replica that the controller holds is started, or cannot be.
LEMMA StartSteps ==
  ASSUME CInv, NEW h \in Host, NEW r \in DOMAIN ctl[h].jobs, NEW id, NEW members, NEW join,
         \/ Start(h, r, id, members, join)
         \/ Control(h, Fails(h, r)) /\ UNCHANGED <<node, disk, raft>>,
         UNCHANGED regVars
  PROVE  CInv' /\ LifeStep
<1>1. /\ DOMAIN ctl[h] = CtlFields /\ CtlOK(ctl[h], disk[h]) /\ Same(reg, reg)
      /\ DOMAIN ctl[h].jobs \subseteq Holds(h) /\ DOMAIN disk[h] \subseteq Holds(h)
      /\ reg' = reg /\ DOMAIN disk = Host
  BY Zenon, KnownCtl DEF regVars, CInv
<1> DEFINE f == Fails(h, r)
           c == Starts(h, r)
<1>2. /\ DOMAIN f = CtlFields /\ f.pc = "work" /\ f.jobs = Without(ctl[h].jobs, {r})
      /\ DOMAIN c = CtlFields /\ c.pc = "report" /\ c.jobs = Without(ctl[h].jobs, {r})
      /\ c.rid = r
  BY Zenon, <1>1 DEF Fails, Starts, CtlFields
<1>3. \/ ctl' = [ctl EXCEPT ![h] = Settled(f)] /\ disk' = disk
      \/ /\ ctl' = [ctl EXCEPT ![h] = Settled(c)]
         /\ StartReplica(h, r, id, members, join)
  BY Zenon DEF Start, Control
<1> HIDE DEF f, c
<1>4. DOMAIN Without(ctl[h].jobs, {r}) \subseteq Holds(h)
  BY Zenon, <1>1 DEF Without
<1>5. CASE ctl' = [ctl EXCEPT ![h] = Settled(f)] /\ disk' = disk
  <2>1. CtlOK(f, disk[h])
    BY Zenon, <1>2 DEF CtlOK
  <2> QED
    BY <1>1, <1>2, <1>4, <1>5, <2>1, CtlStep, Zenon
<1>6. CASE ctl' = [ctl EXCEPT ![h] = Settled(c)] /\ StartReplica(h, r, id, members, join)
  <2>1. /\ DOMAIN disk' = Host /\ \A g \in Host \ {h} : disk'[g] = disk[g]
        /\ DOMAIN disk'[h] = DOMAIN disk[h] \cup {r}
        /\ r \in DOMAIN disk[h] => disk' = disk
    BY Zenon, <1>1, <1>6 DEF StartReplica, With
  <2>2. CtlOK(c, disk'[h])
    BY Zenon, <1>2, <2>1 DEF CtlOK
  <2>3. \A q \in DOMAIN disk'[h] \cup DOMAIN c.jobs : q \in Holds(h)
    BY Zenon, <1>1, <1>2, <1>4, <2>1
  <2>4. Forward(reg, reg')
    BY <1>1, MovesForward, Zenon DEF CInv
  <2>5. CInv'
    BY <1>6, <2>1, <2>2, <2>3, <2>4, CtlKeeps, Zenon
  <2>6. CASE r \in DOMAIN disk[h]
    <3>1. LifeStep
      BY Zenon, <1>1, <2>1, <2>6, LifeStutters DEF LifeStep
    <3> QED
      BY Zenon, <2>5, <3>1
  <2>7. CASE r \notin DOMAIN disk[h]
    <3>1. r \in Holds(h)
      BY Zenon, <1>1
    <3>2. \A g \in Host : DOMAIN disk'[g] = DOMAIN disk[g] \cup (IF g = h THEN {r} ELSE {})
      BY Zenon, <2>1
    <3>3. LifeStep
      BY <1>1, <2>7, <3>1, <3>2, LifeStarts DEF LifeStep
    <3> QED
      BY Zenon, <2>5, <3>3
  <2> QED
    BY Zenon, <2>6, <2>7
<1> QED
  BY Zenon, <1>3, <1>5, <1>6
\* The status of the replica that was started is proposed.
LEMMA ReportStep ==
  ASSUME CInv, NEW h \in Host, Report(h)
  PROVE  CInv' /\ LifeStep
<1> DEFINE q == ctl[h].rid
           t == ReplicaStatusUpdate(reg, q, "active")
           Next_(ok) == [ctl[h] EXCEPT !.pc = "work", !.rid = 0,
                           !.hadErr = @ \/ ~ok \/ q \notin DOMAIN reg.replica]
<1>1. /\ DOMAIN ctl[h] = CtlFields /\ CtlOK(ctl[h], disk[h]) /\ RegOK(reg)
      /\ DOMAIN ctl[h].jobs \subseteq Holds(h) /\ DOMAIN disk[h] \subseteq Holds(h)
      /\ DOMAIN disk = Host
  BY Zenon, KnownCtl DEF CInv
<1>2. PICK ok : primePropose(t, ok) /\ ctl' = [ctl EXCEPT ![h] = Settled(Next_(ok))]
  BY Zenon DEF Report, Control
<1>3. ctl[h].pc = "report" /\ disk' = disk
  BY Zenon DEF Report
<1> DEFINE c == Next_(ok)
<1>4. DOMAIN c = CtlFields /\ c.pc = "work" /\ c.jobs = ctl[h].jobs
  BY Zenon, <1>1 DEF CtlFields
<1>5. ctl' = [ctl EXCEPT ![h] = Settled(c)]
  BY Zenon, <1>2
<1> HIDE DEF c, Next_
<1>6. q \in DOMAIN disk[h]
  BY Zenon, <1>1, <1>3 DEF CtlOK
<1>7. Same(reg, reg') \/ Activated(reg, reg', q)
  <2>1. Apply(t) \/ reg' = reg
    BY Zenon, <1>2, ProposedOrNot
  <2> QED
    BY Zenon, <1>1, <2>1, StatusApply, SameItself
<1>8. Forward(reg, reg')
  BY Zenon, <1>1, <1>7, MovesForward
<1>9. CtlOK(c, disk'[h])
  BY Zenon, <1>4 DEF CtlOK
<1>10. \A r \in DOMAIN disk'[h] \cup DOMAIN c.jobs : r \in Holds(h)
  BY Zenon, <1>1, <1>3, <1>4
<1>11. CInv'
  BY <1>1, <1>3, <1>5, <1>8, <1>9, <1>10, CtlKeeps, Zenon
<1> HIDE DEF q
<1>12. CASE Same(reg, reg')
  BY Zenon, <1>3, <1>11, <1>12, LifeStutters DEF LifeStep
<1>13. CASE Activated(reg, reg', q)
  BY Zenon, <1>3, <1>6, <1>11, <1>13, LifeConfirms DEF LifeStep
<1> QED
  BY Zenon, <1>7, <1>12, <1>13

\* Every step of a host controller.
LEMMA HostSteps ==
  ASSUME CInv, NEW h \in Host, HostStep(h)
  PROVE  CInv' /\ LifeStep
<1>1. CASE HostRead(h) \/ Report(h)
  BY Zenon, <1>1, HostReadStep, ReportStep
<1>2. CASE \/ Add(h) \/ AddLost(h) \/ Expire(h)
           \/ \E r \in DOMAIN ctl[h].jobs : \E m : Ask(h, r, m)
  BY Zenon, <1>2, JoinSteps
<1>3. CASE StartJoined(h)
  <2>1. ctl[h].rid \in DOMAIN ctl[h].jobs
    BY Zenon, <1>3, KnownCtl DEF StartJoined, CtlOK
  <2>2. /\ Start(h, ctl[h].rid, ctl[h].jobs[ctl[h].rid].shard, EmptyTable, TRUE)
        /\ UNCHANGED regVars
    BY <1>3, Zenon DEF StartJoined
  <2> QED
    BY <2>1, <2>2, StartSteps, Zenon
<1>4. ASSUME NEW r \in DOMAIN ctl[h].jobs, Work(h, r) PROVE CInv' /\ LifeStep
  <2>1. /\ UNCHANGED regVars
        /\ \/ \E id, members, join : Start(h, r, id, members, join)
           \/ Control(h, Fails(h, r)) /\ UNCHANGED <<node, disk, raft>>
    BY <1>4, Zenon DEF Work, StartBootstrapping, StartActive
  <2> QED
    BY <2>1, StartSteps, Zenon
<1> QED
  BY <1>1, <1>2, <1>3, <1>4, Zenon DEF HostStep, HostTick

-----------------------------------------------------------------------------
(* The theorems.                                                            *)

\* Nothing is placed, started or held.
LEMMA InitLife == Init => CInv /\ Life!Init
<1> SUFFICES ASSUME Init PROVE CInv /\ Life!Init
  OBVIOUS
<1> DEFINE rows == [h \in Host |-> [Created |-> 0, Updated |-> 0, Tags |-> HostTagsOf[h]]]
           i == Idle(FALSE)
<1>1. /\ DOMAIN reg = StateFields /\ reg.replicaID = 0 /\ reg.replica = EmptyTable
      /\ reg.host = rows
  BY Zenon DEF Init, Joined, EmptyState, StateFields
<1>2. DOMAIN rows = Host /\ DOMAIN EmptyTable = {}
  BY Zenon DEF EmptyTable
<1> HIDE DEF rows
<1>3. RegOK(reg)
  BY <1>1, <1>2 DEF RegOK
<1>4. DOMAIN i = CtlFields /\ i.pc = "idle" /\ i.jobs = EmptyTable
  BY Zenon DEF Idle, CtlFields
<1>5. /\ DOMAIN ctl = Host /\ DOMAIN disk = Host
      /\ \A h \in Host : ctl[h] = i /\ disk[h] = EmptyTable
  BY Zenon DEF Init, HostInit
<1> HIDE DEF i
<1>6. \A h \in Host : CtlOK(ctl[h], disk[h]) /\ Holds(h) = {}
  BY Zenon, <1>2, <1>4, <1>5 DEF CtlOK, Holds
<1>7. CInv
  BY Zenon, <1>3, <1>5, <1>6 DEF CInv
<1>8. LifePhase = [r \in 1 .. MaxReplicas |-> "unborn"]
  BY <1>1, ReplicasAssumption DEF LifePhase, PhaseIn
<1>9. LifeHome = [r \in 1 .. MaxReplicas |-> NoHost]
  BY Zenon, <1>1, <1>2 DEF LifeHome
<1>10. LifeStartedOn = [r \in 1 .. MaxReplicas |-> {}]
  BY Zenon, <1>2, <1>5 DEF LifeStartedOn, StartedIn
<1> QED
  BY Zenon, <1>7, <1>8, <1>9, <1>10 DEF Life!Init

\* Every step is one of ReplicaLife, or none.
LEMMA NextLife == CInv /\ [NextStop]_vars => CInv' /\ LifeStep
<1> SUFFICES ASSUME CInv, [NextStop]_vars PROVE CInv' /\ LifeStep
  OBVIOUS
<1>1. CASE UNCHANGED vars
  <2>1. UNCHANGED <<ctl, disk>> /\ reg' = reg
    BY Zenon, <1>1 DEF vars, agentVars, regVars, hostVars
  <2>2. Same(reg, reg)
    BY Zenon, SameItself DEF CInv
  <2> QED
    BY Zenon, <2>1, <2>2, QuietStep
<1>2. CASE Users
  BY Zenon, <1>2, UserSteps
<1>3. ASSUME NEW a \in Host, Host_(a) \/ Manager(a) \/ Raft(a) PROVE CInv' /\ LifeStep
  <2>1. CASE Host_(a)
    BY Zenon, <2>1, HostSteps DEF Host_
  <2>2. CASE Manager(a)
    BY <2>2, ManagerSteps, OperateSteps, Zenon DEF Manager, ManagerStep
  <2>3. CASE Raft(a)
    BY <2>3, ManagerSteps, StopSteps, UserSteps, Zenon DEF Raft
  <2> QED
    BY Zenon, <1>3, <2>1, <2>2, <2>3
<1>4. ASSUME NEW a \in Host, Stop(a) \/ StopStep(a) PROVE CInv' /\ LifeStep
  BY Zenon, <1>4, StopSteps
<1> QED
  BY <1>1, <1>2, <1>3, <1>4, Zenon DEF NextStop, Next

\* The registry and the two controllers implement ReplicaLife: a replica ID is placed
\* once, started by its host alone, active only after that and never reused, for all
\* hosts, policies and bounds (ReplicaCreate, shard_controls.go, host_controller.go).
THEOREM Implements == Spec => ImplementsLife
<1>1. Next => NextStop
  BY Zenon DEF NextStop
<1>2. CInv /\ [NextStop]_vars => CInv' /\ LifeStep
  BY Zenon, NextLife
<1> QED
  BY <1>1, <1>2, InitLife, PTL DEF Spec, ImplementsLife, Life!Spec, LifeStep

\* So they do while agents are stopped and started again (Agent.Stop).
THEOREM ImplementsWithStop == FairSpecStop => ImplementsLife
<1>1. CInv /\ [NextStop]_vars => CInv' /\ LifeStep
  BY Zenon, NextLife
<1> QED
  BY <1>1, InitLife, PTL DEF FairSpecStop, ImplementsLife, Life!Spec, LifeStep
=============================================================================
