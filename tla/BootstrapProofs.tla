--------------------------- MODULE BootstrapProofs ---------------------------
(***************************************************************************)
(* A shard never has more than three replicas that wait to bootstrap it.   *)
(* Only ReplicaPost writes the status bootstrapping, and it does so when   *)
(* the shard has fewer than three voting members.  The members it counts   *)
(* include every replica that is bootstrapping, because such a replica     *)
(* votes: BootInv carries both facts through every command.                *)
(***************************************************************************)
EXTENDS RegistryProofs, FiniteSetTheorems

BootInv(s) ==
    \A id \in Nat : /\ Cardinality(Bootstrapping(s, id)) <= BootstrapSize
                    /\ Bootstrapping(s, id) \subseteq ShardMembers(s, id)

\* Every row of table g that is bootstrapping is a row of table f.
NoneNew(f, g) ==
    \A r \in DOMAIN g : g[r].Status = "bootstrapping" => r \in DOMAIN f /\ g[r] = f[r]

\* t is what a command that bootstraps no replica makes of s.
NoPost(s, t) == DOMAIN t = StateFields /\ NoneNew(s.replica, t.replica)

-----------------------------------------------------------------------------
(* Sets of replicas.                                                        *)

\* The replicas of the registry are finitely many: replicaIncr has counted them.
LEMMA FiniteReplicas ==
  ASSUME NEW s, Good(s), NEW R \in SUBSET DOMAIN s.replica
  PROVE  IsFiniteSet(R) /\ Cardinality(R) \in Nat
<1>1. s.replicaID \in Nat /\ R \in SUBSET (0 .. s.replicaID)
  BY DEF Good, StateType, IsTable, IDsAllocated
<1>2. IsFiniteSet(0 .. s.replicaID)
  BY <1>1, FS_Interval
<1> QED
  BY Zenon, <1>1, <1>2, FS_Subset, FS_CardinalityType

\* Where no row starts to bootstrap, the bound stays.
LEMMA NoneNewInv ==
  ASSUME NEW s, Good(s), BootInv(s), NEW t, NoneNew(s.replica, t.replica)
  PROVE  BootInv(t)
<1> SUFFICES ASSUME NEW id \in Nat
             PROVE  /\ Cardinality(Bootstrapping(t, id)) <= BootstrapSize
                    /\ Bootstrapping(t, id) \subseteq ShardMembers(t, id)
  BY Zenon DEF BootInv
<1> DEFINE S == Bootstrapping(s, id)
           T == Bootstrapping(t, id)
<1>1. T \subseteq S /\ \A r \in T : r \in DOMAIN t.replica /\ t.replica[r] = s.replica[r]
  BY Zenon DEF NoneNew, Bootstrapping, ReplicasOfShard
<1>2. S \subseteq ShardMembers(s, id) /\ Cardinality(S) <= 3 /\ S \subseteq DOMAIN s.replica
  BY Zenon DEF BootInv, BootstrapSize, Bootstrapping, ReplicasOfShard
<1>3. T \subseteq ShardMembers(t, id)
  BY Zenon, <1>1, <1>2 DEF ShardMembers, Bootstrapping, ReplicasOfShard
<1>4. IsFiniteSet(S) /\ Cardinality(S) \in Nat /\ Cardinality(T) \in Nat
  BY Zenon, <1>1, <1>2, FiniteReplicas
<1> HIDE DEF S, T
<1>5. Cardinality(T) <= Cardinality(S)
  BY Zenon, <1>1, <1>4, FS_Subset
<1>6. Cardinality(T) <= 3
  BY <1>2, <1>4, <1>5
<1> QED
  BY Zenon, <1>3, <1>6 DEF T, BootstrapSize

\* Commit stores the tables of the command or, after a panic, keeps the old ones.
LEMMA CommitNoPost ==
  ASSUME NEW s, Good(s), BootInv(s), NEW t, NoPost(s, t)
  PROVE  BootInv(Commit(s, t))
<1>1. NoneNew(s.replica, s.replica)
  BY Zenon DEF NoneNew
<1>2. Commit(s, t).replica \in {s.replica, t.replica}
  BY Zenon DEF Commit, Good, StateType, NoPost, StateFields
<1>3. NoneNew(s.replica, Commit(s, t).replica)
  BY Zenon, <1>1, <1>2 DEF NoPost
<1> QED
  BY Zenon, <1>3, NoneNewInv

-----------------------------------------------------------------------------
(* Tables.                                                                  *)

\* A table that stays as it is.
LEMMA SameNoneNew == \A f : NoneNew(f, f)
BY Zenon DEF NoneNew

\* Deleted rows (replicaDelete).
LEMMA WithoutNoneNew == \A f, rs : NoneNew(f, Without(f, rs))
BY Zenon DEF NoneNew, Without

\* A row written with another status (replicaPut).
LEMMA WithNoneNew ==
  ASSUME NEW f, NEW r, NEW row, row.Status # "bootstrapping"
  PROVE  NoneNew(f, With(f, r, row))
BY Zenon DEF NoneNew, With

-----------------------------------------------------------------------------
(* The commands that bootstrap no replica.                                  *)

\* Commands on hosts: only HostDel writes the replica table, and it deletes.
LEMMA HostNoPost ==
  ASSUME NEW s, DOMAIN s = StateFields, NEW h
  PROVE  /\ \A tags : NoPost(s, HostPut(s, h, tags))
         /\ NoPost(s, HostDel(s, h))
         /\ \A act, tags : NoPost(s, HostTags(s, act, h, tags))
<1> DEFINE rs == ReplicasOfHost(s, h)
           u  == shardTouchEach(s, rs)
           v  == replicaDelete(u, rs)
           w  == [v EXCEPT !.host = Without(@, {h})]
<1>1. DOMAIN u = StateFields /\ u.replica = s.replica
  BY shardTouchEachFields
<1>2. \A row : DOMAIN hostPut(u, h, row) = StateFields /\ hostPut(u, h, row).replica = s.replica
  <2> HIDE DEF u
  <2> QED
    BY <1>1, hostPutFields
<1>3. DOMAIN v = StateFields /\ v.replica = Without(s.replica, rs)
  <2> HIDE DEF u, rs
  <2> QED
    BY <1>1, replicaDeleteFields
<1>4. DOMAIN w = StateFields /\ w.replica = Without(s.replica, rs)
  <2> HIDE DEF v
  <2> QED
    BY Zenon, <1>3 DEF StateFields
<1>5. NoPost(s, s)
  BY Zenon, SameNoneNew DEF NoPost
<1>6. NoPost(s, w)
  BY Zenon, <1>4, WithoutNoneNew DEF NoPost
<1>7. \A row : NoPost(s, hostPut(u, h, row))
  BY Zenon, <1>2, SameNoneNew DEF NoPost
<1>8. \A tags : \E row : HostPut(s, h, tags) = hostPut(u, h, row)
  BY Zenon DEF HostPut
<1>9. \A act, tags : HostTags(s, act, h, tags) = s
                     \/ \E row : HostTags(s, act, h, tags) = hostPut(u, h, row)
  BY Zenon DEF HostTags
<1>10. HostDel(s, h) \in {s, w}
  BY Zenon DEF HostDel
<1> HIDE DEF u, v, w, rs
<1> QED
  BY Zenon, <1>5, <1>6, <1>7, <1>8, <1>9, <1>10

\* Commands on shards: only ShardDel writes the replica table, and it deletes.
LEMMA ShardNoPost ==
  ASSUME NEW s, DOMAIN s = StateFields, NEW id
  PROVE  /\ NoPost(s, ShardTouch(s, id)) /\ NoPost(s, ShardStatusUpdate(s, id))
         /\ \A name, term, tags : NoPost(s, ShardPut(s, id, name, term, tags))
         /\ \A term : NoPost(s, ShardLeaderSet(s, id, term))
         /\ NoPost(s, ShardDel(s, id))
         /\ \A act, tags : NoPost(s, ShardTags(s, act, id, tags))
<1>1. NoPost(s, s) /\ NoPost(s, [s EXCEPT !.panicked = TRUE])
  BY Zenon, SameNoneNew DEF NoPost, StateFields
<1>2. \A row : DOMAIN shardPut(s, id, row) = StateFields /\ shardPut(s, id, row).replica = s.replica
  BY shardPutFields
<1>3. \A hs : DOMAIN hostTouch(s, hs) = StateFields /\ hostTouch(s, hs).replica = s.replica
  BY hostTouchFields
<1>4. \A row, hs : NoPost(s, hostTouch(shardPut(s, id, row), hs))
  <2> TAKE row, hs
  <2> DEFINE u == shardPut(s, id, row)
  <2>1. DOMAIN u = StateFields /\ u.replica = s.replica
    BY Zenon, <1>2
  <2> HIDE DEF u
  <2>2. DOMAIN hostTouch(u, hs) = StateFields /\ hostTouch(u, hs).replica = s.replica
    BY <2>1, hostTouchFields
  <2> QED
    BY Zenon, <2>2, SameNoneNew DEF u, NoPost
<1>5. \A row, hs : NoPost(s, shardPut(hostTouch(s, hs), id, row))
  <2> TAKE row, hs
  <2> DEFINE u == hostTouch(s, hs)
  <2>1. DOMAIN u = StateFields /\ u.replica = s.replica
    BY Zenon, <1>3
  <2> HIDE DEF u
  <2>2. DOMAIN shardPut(u, id, row) = StateFields /\ shardPut(u, id, row).replica = s.replica
    BY <2>1, shardPutFields
  <2> QED
    BY Zenon, <2>2, SameNoneNew DEF u, NoPost
<1>6. NoPost(s, ShardTouch(s, id))
  <2> DEFINE u == shardTouch(s, id)
             hs == HostsOf(s, ReplicasOfShard(s, id))
  <2>1. DOMAIN u = StateFields /\ u.replica = s.replica
    BY shardTouchFields
  <2>2. ShardTouch(s, id) = hostTouch(u, hs)
    BY Zenon DEF ShardTouch
  <2> HIDE DEF u, hs
  <2>3. DOMAIN hostTouch(u, hs) = StateFields /\ hostTouch(u, hs).replica = s.replica
    BY <2>1, hostTouchFields
  <2> QED
    BY Zenon, <2>2, <2>3, SameNoneNew DEF NoPost
<1>7. NoPost(s, ShardStatusUpdate(s, id))
  BY Zenon, <1>1, <1>6 DEF ShardStatusUpdate
<1>8. \A name, term, tags : NoPost(s, ShardPut(s, id, name, term, tags))
  BY Zenon, <1>1, <1>4 DEF ShardPut
<1>9. \A term : NoPost(s, ShardLeaderSet(s, id, term))
  BY Zenon, <1>1, <1>2, SameNoneNew DEF ShardLeaderSet, NoPost
<1>10. NoPost(s, ShardDel(s, id))
  <2> DEFINE rs == ReplicasOfShard(s, id)
             u == replicaDelete(s, rs)
             v == hostTouch(u, HostsOf(s, rs))
             w == shardDelete(v, id)
  <2>1. DOMAIN u = StateFields /\ u.replica = Without(s.replica, rs)
    BY replicaDeleteFields
  <2>2. DOMAIN v = StateFields /\ v.replica = u.replica
    <3> HIDE DEF u, rs
    <3> QED
      BY <2>1, hostTouchFields
  <2>3. DOMAIN w = StateFields /\ w.replica = v.replica
    <3> HIDE DEF v, u, rs
    <3> QED
      BY <2>2, shardDeleteFields, Zenon
  <2>4. ShardDel(s, id) \in {s, w}
    BY Zenon DEF ShardDel
  <2> HIDE DEF rs, u, v, w
  <2>5. NoPost(s, w)
    BY Zenon, <2>1, <2>2, <2>3, WithoutNoneNew DEF NoPost
  <2> QED
    BY Zenon, <1>1, <2>4, <2>5
<1>11. \A act, tags : NoPost(s, ShardTags(s, act, id, tags))
  BY Zenon, <1>1, <1>5 DEF ShardTags
<1> QED
  BY Zenon, <1>6, <1>7, <1>8, <1>9, <1>10, <1>11

\* A shard post writes no replica.
LEMMA ShardPostNoPost ==
  ASSUME NEW s, DOMAIN s = StateFields, NEW name, NEW tags
  PROVE  NoPost(s, ShardPost(s, name, tags))
<1> DEFINE u == [s EXCEPT !.shardID = s.shardID + 1]
<1>1. DOMAIN u = StateFields /\ u.replica = s.replica
  BY Zenon DEF StateFields
<1>2. ShardPost(s, name, tags) = s
      \/ \E row : ShardPost(s, name, tags) = shardPut(u, s.shardID + 1, row)
  BY Zenon DEF ShardPost
<1> HIDE DEF u
<1>3. \A row : /\ DOMAIN shardPut(u, s.shardID + 1, row) = StateFields
               /\ shardPut(u, s.shardID + 1, row).replica = s.replica
  BY <1>1, shardPutFields
<1> QED
  BY Zenon, <1>2, <1>3, SameNoneNew DEF NoPost

\* Commands on replicas but ReplicaPost: what they write is active or none.
LEMMA ReplicaNoPost ==
  ASSUME NEW s, Good(s), NEW r
  PROVE  /\ NoPost(s, ReplicaStatusUpdate(s, r, "active"))
         /\ \A h, id, nonVoting : NoPost(s, ReplicaPut(s, r, h, id, nonVoting))
         /\ NoPost(s, ReplicaDel(s, r))
         /\ \A act, tags : NoPost(s, ReplicaTags(s, act, r, tags))
<1>0. DOMAIN s = StateFields
  BY Zenon DEF Good, StateType
<1>1. NoPost(s, s) /\ NoPost(s, [s EXCEPT !.panicked = TRUE])
  BY Zenon, <1>0, SameNoneNew DEF NoPost, StateFields
<1>2. ASSUME NEW row, row.Status # "bootstrapping"
      PROVE  NoPost(s, Notify(replicaPut(s, r, row), r))
  <2> DEFINE u == replicaPut(s, r, row)
  <2>1. DOMAIN u = StateFields /\ u.replica = With(s.replica, r, row)
    BY <1>0, replicaPutFields
  <2> HIDE DEF u
  <2>2. DOMAIN Notify(u, r) = StateFields /\ Notify(u, r).replica = u.replica
    BY <2>1, NotifyFields, Zenon
  <2> QED
    BY Zenon, <1>2, <2>1, <2>2, WithNoneNew DEF u, NoPost
<1>3. DOMAIN Notify(s, r) = StateFields /\ Notify(s, r).replica = s.replica
  BY <1>0, NotifyFields, Zenon
<1>4. NoPost(s, ReplicaStatusUpdate(s, r, "active"))
  <2>1. r \in DOMAIN s.replica => [s.replica[r] EXCEPT !.Status = "active"].Status = "active"
    BY Zenon DEF Good, StateType, IsTable, ReplicaRow
  <2> QED
    BY <1>1, <1>2, <2>1, Zenon DEF ReplicaStatusUpdate
<1>5. \A h, id, nonVoting : NoPost(s, ReplicaPut(s, r, h, id, nonVoting))
  BY Zenon, <1>1, <1>2 DEF ReplicaPut
<1>6. NoPost(s, ReplicaDel(s, r))
  <2> DEFINE u == Notify(s, r)
             v == replicaDelete(u, {r})
  <2>1. DOMAIN v = StateFields /\ v.replica = Without(s.replica, {r})
    <3>1. DOMAIN u = StateFields /\ u.replica = s.replica
      BY Zenon, <1>3
    <3> HIDE DEF u
    <3> QED
      BY <3>1, replicaDeleteFields
  <2>2. NoPost(s, v)
    BY Zenon, <2>1, WithoutNoneNew DEF NoPost
  <2> QED
    BY Zenon, <1>1, <2>2 DEF ReplicaDel
<1>7. \A act, tags : NoPost(s, ReplicaTags(s, act, r, tags))
  <2>1. NoPost(s, Notify(s, r))
    BY Zenon, <1>3, SameNoneNew DEF NoPost
  <2> QED
    BY Zenon, <1>1, <2>1 DEF ReplicaTags
<1> QED
  BY Zenon, <1>4, <1>5, <1>6, <1>7

-----------------------------------------------------------------------------
(* The command that does.                                                   *)

\* The replica a post adds to those that bootstrap the shard is at most the third.
LEMMA PostedRow ==
  ASSUME NEW s, Good(s), BootInv(s), NEW id \in Nat, NEW r, r \notin DOMAIN s.replica,
         NEW row \in ReplicaRow, row.ShardID = id,
         row.Status = "bootstrapping"
           => ~row.IsNonVoting /\ Cardinality(ShardMembers(s, id)) < BootstrapSize,
         NEW t, t.replica = With(s.replica, r, row)
  PROVE  BootInv(t)
<1>1. CASE row.Status # "bootstrapping"
  BY Zenon, <1>1, WithNoneNew, NoneNewInv
<1>2. CASE row.Status = "bootstrapping"
  <2> SUFFICES ASSUME NEW j \in Nat
               PROVE  /\ Cardinality(Bootstrapping(t, j)) <= BootstrapSize
                      /\ Bootstrapping(t, j) \subseteq ShardMembers(t, j)
    BY Zenon DEF BootInv
  <2>1. \A q \in DOMAIN s.replica : q \in DOMAIN t.replica /\ t.replica[q] = s.replica[q]
    BY Zenon DEF With
  <2>2. DOMAIN t.replica = DOMAIN s.replica \cup {r} /\ t.replica[r] = row
    BY Zenon DEF With
  <2> DEFINE S == Bootstrapping(s, j)
             T == Bootstrapping(t, j)
             M == ShardMembers(s, j)
  <2>3. S \subseteq M /\ Cardinality(S) <= 3
    BY Zenon DEF BootInv, BootstrapSize
  <2>4. /\ IsFiniteSet(S) /\ Cardinality(S) \in Nat
        /\ IsFiniteSet(M) /\ Cardinality(M) \in Nat
    BY Zenon, FiniteReplicas DEF Bootstrapping, ShardMembers, ReplicasOfShard
  <2>5. CASE j # id
    <3>1. T = S
      BY Zenon, <2>1, <2>2, <2>5 DEF Bootstrapping, ReplicasOfShard
    <3>2. M \subseteq ShardMembers(t, j)
      BY Zenon, <2>1 DEF ShardMembers, ReplicasOfShard
    <3> QED
      BY Zenon, <2>3, <3>1, <3>2 DEF BootstrapSize
  <2>6. CASE j = id
    <3>1. T = S \cup {r}
      BY Zenon, <1>2, <2>1, <2>2, <2>6 DEF Bootstrapping, ReplicasOfShard
    <3>2. M \cup {r} \subseteq ShardMembers(t, j)
      BY Zenon, <1>2, <2>1, <2>2, <2>6 DEF ShardMembers, ReplicasOfShard
    <3>3. Cardinality(M) < 3
      BY Zenon, <1>2, <2>6 DEF BootstrapSize
    <3>4. T \subseteq ShardMembers(t, j)
      BY Zenon, <2>3, <3>1, <3>2
    <3> HIDE DEF S, T, M
    <3>5. Cardinality(S) <= Cardinality(M)
      BY Zenon, <2>3, <2>4, FS_Subset
    <3>6. Cardinality(T) = IF r \in S THEN Cardinality(S) ELSE Cardinality(S) + 1
      BY <2>4, <3>1, FS_AddElement, Zenon
    <3>7. Cardinality(T) <= 3
      BY <2>4, <3>3, <3>5, <3>6
    <3> QED
      BY Zenon, <3>4, <3>7 DEF T, BootstrapSize
  <2> QED
    BY Zenon, <2>5, <2>6
<1> QED
  BY Zenon, <1>1, <1>2

\* A replica post.
LEMMA ReplicaPostInv ==
  ASSUME NEW s, Good(s), BootInv(s), NEW h \in Host, NEW id \in Nat, NEW nonVoting \in BOOLEAN
  PROVE  BootInv(Commit(s, ReplicaPost(s, h, id, nonVoting)))
<1> DEFINE r == s.replicaID + 1
           a == [s EXCEPT !.replicaID = r]
           bootstraps == ~nonVoting /\ Cardinality(ShardMembers(s, id)) < BootstrapSize
           row == [Created |-> Entry(s), Updated |-> Entry(s),
                   Status |-> IF bootstraps THEN "bootstrapping" ELSE "joining",
                   HostID |-> h, IsNonVoting |-> nonVoting, ShardID |-> id]
           u == replicaPut(a, r, row)
           v == hostTouch(u, {h})
           t == shardTouch(v, id)
<1>1. DOMAIN s = StateFields /\ Entry(s) \in Nat /\ r \notin DOMAIN s.replica
  BY DEF Good, StateType, IsTable, IDsAllocated, Entry
<1>2. DOMAIN a = StateFields /\ a.replica = s.replica
  BY Zenon, <1>1 DEF StateFields
<1>3. /\ row \in ReplicaRow /\ row.ShardID = id
      /\ row.Status = "bootstrapping" => ~row.IsNonVoting
           /\ Cardinality(ShardMembers(s, id)) < BootstrapSize
  BY Zenon, <1>1 DEF ReplicaRow, ReplicaStatus
<1>4. DOMAIN u = StateFields /\ u.replica = With(s.replica, r, row)
  <2> HIDE DEF a, r, row
  <2> QED
    BY <1>2, replicaPutFields
<1>5. DOMAIN v = StateFields /\ v.replica = u.replica
  <2> HIDE DEF u
  <2> QED
    BY <1>4, hostTouchFields
<1>6. DOMAIN t = StateFields /\ t.replica = v.replica
  <2> HIDE DEF v
  <2> QED
    BY <1>5, shardTouchFields
<1>7. ReplicaPost(s, h, id, nonVoting) = t
  BY Zenon DEF ReplicaPost
<1> HIDE DEF r, a, row, u, v, t
<1>8. Commit(s, t).replica \in {s.replica, t.replica}
  BY Zenon, <1>1, <1>6 DEF Commit, StateFields
<1>9. CASE Commit(s, t).replica = s.replica
  BY Zenon, <1>7, <1>9, SameNoneNew, NoneNewInv
<1>10. CASE Commit(s, t).replica = t.replica
  <2>1. Commit(s, t).replica = With(s.replica, r, row)
    BY Zenon, <1>4, <1>5, <1>6, <1>10
  <2> QED
    BY Zenon, <1>1, <1>3, <1>7, <2>1, PostedRow
<1> QED
  BY Zenon, <1>8, <1>9, <1>10

-----------------------------------------------------------------------------
(* The invariant of the specification.                                      *)

\* The empty registry bootstraps nothing.
LEMMA InitBoot == Init => BootInv(reg)
<1> SUFFICES ASSUME Init PROVE BootInv(reg)
  OBVIOUS
<1>1. \A id : Bootstrapping(reg, id) = {}
  BY Zenon DEF Init, EmptyState, EmptyTable, Bootstrapping, ReplicasOfShard
<1> QED
  BY <1>1, FS_EmptySet DEF BootInv, BootstrapSize

\* Every step of Update keeps BootInv.
LEMMA NextBoot == Good(reg) /\ BootInv(reg) /\ [Next]_reg => BootInv(reg)'
<1> SUFFICES ASSUME Good(reg), BootInv(reg), [Next]_reg
             PROVE  BootInv(reg')
  BY Zenon DEF BootInv, Bootstrapping, ShardMembers, ReplicasOfShard
<1>0. DOMAIN reg = StateFields /\ reg.shardID \in Nat
  BY Zenon DEF Good, StateType
<1> USE DEF Apply
<1>1. CASE ApplyHostPut \/ ApplyHostDel \/ ApplyHostTags
  BY Zenon, <1>0, <1>1, HostNoPost, CommitNoPost DEF ApplyHostPut, ApplyHostDel, ApplyHostTags
<1>2. CASE ApplyShardPost
  BY Zenon, <1>0, <1>2, ShardPostNoPost, CommitNoPost DEF ApplyShardPost
<1>3. CASE ApplyShardTouch \/ ApplyShardPut \/ ApplyShardStatusUpdate
  BY <1>0, <1>3, ShardNoPost, CommitNoPost, Zenon
     DEF ApplyShardTouch, ApplyShardPut, ApplyShardStatusUpdate
<1>4. CASE ApplyShardLeaderSet \/ ApplyShardDel \/ ApplyShardTags
  BY Zenon, <1>0, <1>4, ShardNoPost, CommitNoPost
     DEF ApplyShardLeaderSet, ApplyShardDel, ApplyShardTags
<1>5. CASE ApplyReplicaPost
  BY <1>0, <1>5, ReplicaPostInv DEF ApplyReplicaPost, KnownShard
<1>6. CASE ApplyReplicaStatusUpdate \/ ApplyReplicaPut
  BY Zenon, <1>6, ReplicaNoPost, CommitNoPost DEF ApplyReplicaStatusUpdate, ApplyReplicaPut
<1>7. CASE ApplyReplicaDel \/ ApplyReplicaTags
  BY Zenon, <1>7, ReplicaNoPost, CommitNoPost DEF ApplyReplicaDel, ApplyReplicaTags
<1>8. CASE UNCHANGED reg
  BY Zenon, <1>8
<1> QED
  BY <1>1, <1>2, <1>3, <1>4, <1>5, <1>6, <1>7, <1>8, Zenon DEF Next

\* Whatever commands the registry is given, in whatever order, a shard has at most
\* three replicas that wait to bootstrap it, all of them voting (fsm.go:219-223).
THEOREM AtMostThree == Spec => []AtMostThreeBootstrap
<1>1. Good(reg) /\ BootInv(reg) => AtMostThreeBootstrap
  BY DEF Good, StateType, BootInv, AtMostThreeBootstrap
<1> QED
  BY <1>1, AlwaysGood, InitBoot, NextBoot, PTL DEF Spec
=============================================================================
