--------------------------- MODULE RegistryProofs ---------------------------
(***************************************************************************)
(* The invariants of Registry and what its steps may not do.               *)
(***************************************************************************)
EXTENDS Registry, RegistryFSMProofs

(* The invariants of the specification.                                     *)

\* A state that commits something good is good, and so is one that stutters.
LEMMA InitGood == Init => Good(reg)
BY DEF Init, Good, EmptyState, EmptyTable, StateType, StateFields, IsTable, HostRef,
       IDsAllocated, Watermark, RowTimes

\* Every step of Update keeps Good.
LEMMA NextGood == Good(reg) /\ [Next]_reg => Good(reg)'
<1> SUFFICES ASSUME Good(reg), [Next]_reg
             PROVE  Good(reg')
  OBVIOUS
<1> USE DEF Apply
<1>0. reg.shardID \in Nat /\ reg.replicaID \in Nat /\ Term \subseteq Nat
  BY Zenon, TermAssumption DEF Good, StateType
<1>1. CASE ApplyHostPut
  BY Zenon, <1>1, HostPutGood DEF ApplyHostPut
<1>2. CASE ApplyHostDel
  BY Zenon, <1>2, HostDelGood DEF ApplyHostDel
<1>3. CASE ApplyHostTags
  BY Zenon, <1>3, HostTagsGood DEF ApplyHostTags
<1>4. CASE ApplyShardPost
  BY Zenon, <1>4, ShardPostGood DEF ApplyShardPost
<1>5. CASE ApplyShardTouch
  BY Zenon, <1>5, GoodMid, ShardTouchMid, CommitGood DEF ApplyShardTouch
<1>6. CASE ApplyShardPut
  <2>1. PICK id \in KnownShard, name \in Name \cup {NoName}, term \in Term \cup {0},
             tags \in TagMap : reg' = Commit(reg, ShardPut(reg, id, name, term, tags))
    BY Zenon, <1>6 DEF ApplyShardPut
  <2>2. id \in Nat /\ id <= reg.shardID /\ term \in Nat
    BY <1>0 DEF KnownShard
  <2> QED
    BY Zenon, <2>1, <2>2, ShardPutGood
<1>7. CASE ApplyShardStatusUpdate
  BY Zenon, <1>7, GoodMid, ShardTouchMid, CommitGood DEF ApplyShardStatusUpdate, ShardStatusUpdate
<1>8. CASE ApplyShardLeaderSet
  BY Zenon, <1>0, <1>8, ShardLeaderSetGood DEF ApplyShardLeaderSet
<1>9. CASE ApplyShardDel
  BY Zenon, <1>9, ShardDelGood DEF ApplyShardDel
<1>10. CASE ApplyShardTags
  BY Zenon, <1>10, ShardTagsGood DEF ApplyShardTags
<1>11. CASE ApplyReplicaPost
  BY <1>0, <1>11, ReplicaPostGood DEF ApplyReplicaPost, KnownShard
<1>12. CASE ApplyReplicaStatusUpdate
  BY Zenon, <1>12, ReplicaStatusUpdateGood DEF ApplyReplicaStatusUpdate, ReplicaStatus
<1>13. CASE ApplyReplicaPut
  BY <1>0, <1>13, ReplicaPutGood DEF ApplyReplicaPut, KnownShard
<1>14. CASE ApplyReplicaDel
  BY Zenon, <1>14, ReplicaDelGood DEF ApplyReplicaDel
<1>15. CASE ApplyReplicaTags
  BY Zenon, <1>15, ReplicaTagsGood DEF ApplyReplicaTags
<1>16. CASE UNCHANGED reg
  BY Zenon, <1>16
<1> QED
  BY Zenon, <1>1, <1>2, <1>3, <1>4, <1>5, <1>6, <1>7, <1>8, <1>9, <1>10, <1>11, <1>12, <1>13,
     <1>14, <1>15, <1>16 DEF Next

\* Whatever commands the registry is given, in whatever order, its state stays
\* good.
THEOREM AlwaysGood == Spec => []Good(reg)
BY InitGood, NextGood, PTL DEF Spec

\* The tables hold rows of their own type under keys of their own kind
\* (fsm_state_radix.go), whatever commands Update is given.
THEOREM TypeCorrect == Spec => []TypeOK
<1>1. Good(reg) => TypeOK
  BY Zenon DEF Good, TypeOK
<1> QED
  BY <1>1, AlwaysGood, PTL

\* No replica row outlives its host's row, so hostTouch never panics on behalf of
\* a replica that is in the table (fsm.go:97-102, fsm_state_radix.go:287-298).
THEOREM ReplicasHaveHosts == Spec => []ReplicaHostExists
<1>1. Good(reg) => ReplicaHostExists
  BY Zenon DEF Good, ReplicaHostExists
<1> QED
  BY <1>1, AlwaysGood, PTL

\* shardIncr and replicaIncr are ahead of every row, so no post overwrites one.
THEOREM CountersAhead == Spec => []IDsBelowCounters
<1>1. Good(reg) => IDsBelowCounters
  BY Zenon DEF Good, IDsBelowCounters
<1> QED
  BY <1>1, AlwaysGood, PTL

\* No Updated is ahead of the index, so a controller that has processed an index
\* will find every later change above it.
THEOREM NoRowFromTheFuture == Spec => []UpdatedWithinIndex
<1>1. Good(reg) => UpdatedWithinIndex
  BY Zenon DEF Good, UpdatedWithinIndex
<1> QED
  BY <1>1, AlwaysGood, PTL

-----------------------------------------------------------------------------
(* Action properties.  PreStep is StepOK before the index is recorded.      *)

StepOK(s, t) == FreshStep(s, t) /\ HostsStep(s, t) /\ ShardsStep(s, t)

PreStep(s, t) == StepOK(s, [t EXCEPT !.index = Entry(s)])

\* A panic commits nothing.
LEMMA CommitStep ==
  ASSUME NEW s, Good(s), NEW t, t.panicked \/ PreStep(s, t)
  PROVE  StepOK(s, Commit(s, t))
<1>1. CASE t.panicked
  <2> DEFINE p == [s EXCEPT !.panicked = TRUE]
  <2>1. p.replica = s.replica /\ p.shard = s.shard /\ p.host = s.host
    BY Zenon DEF Good, StateType, StateFields
  <2>2. Commit(s, t) = p
    BY Zenon, <1>1 DEF Commit
  <2> HIDE DEF p
  <2>3. FreshStep(s, p)
    BY Zenon, <2>1 DEF FreshStep
  <2>4. Gone(s, p) = {} /\ Changed(s, p) = {} /\ Retagged(s, p) = {}
    BY Zenon, <2>1 DEF Gone, Changed, Retagged
  <2> QED
    BY Zenon, <2>2, <2>3, <2>4 DEF StepOK, HostsStep, ShardsStep, HostsOf, ShardsOf
<1>2. CASE ~t.panicked
  BY Zenon, <1>2 DEF Commit, PreStep
<1> QED
  BY Zenon, <1>1, <1>2

\* Touching keeps the hosts and their tags and sets Updated where it says.
LEMMA TouchedHostRows ==
  ASSUME NEW t, IsTable(t, Host, HostRow), NEW ids, NEW i
  PROVE  /\ DOMAIN Touched(t, ids, i) = DOMAIN t
         /\ \A x \in DOMAIN t : Touched(t, ids, i)[x].Tags = t[x].Tags
         /\ \A x \in DOMAIN t \cap ids : Touched(t, ids, i)[x].Updated = i
BY Zenon DEF IsTable, Touched, HostRow

\* Touching keeps the shards and sets Updated where it says.
LEMMA TouchedShardRows ==
  ASSUME NEW t, IsTable(t, Nat, ShardRow), NEW ids, NEW i
  PROVE  /\ DOMAIN Touched(t, ids, i) = DOMAIN t
         /\ \A x \in DOMAIN t \cap ids : Touched(t, ids, i)[x].Updated = i
BY Zenon DEF IsTable, Touched, ShardRow

\* What a command has to do to notify: the rows it must touch carry the index of
\* the entry being applied.
LEMMA PreStepIntro ==
  ASSUME NEW s, NEW t, DOMAIN t = StateFields, FreshStep(s, t),
         \A h \in HostsOf(s, Gone(s, t)) \cup HostsOf(t, Changed(s, t)) :
             h \in DOMAIN t.host => t.host[h].Updated = Entry(s),
         \A id \in ShardsOf(s, Gone(s, t)) \cup ShardsOf(t, Changed(s, t))
              \cup UNION {ShardsOf(s, ReplicasOfHost(s, h)) : h \in Retagged(s, t)} :
             id \in DOMAIN t.shard => t.shard[id].Updated = Entry(s)
  PROVE  PreStep(s, t)
<1> DEFINE u == [t EXCEPT !.index = Entry(s)]
<1>1. /\ u.index = Entry(s) /\ u.host = t.host /\ u.shard = t.shard
      /\ u.replica = t.replica
  BY Zenon DEF StateFields
<1> SUFFICES StepOK(s, u)
  BY Zenon DEF PreStep
<1> HIDE DEF u
<1>2. /\ Gone(s, u) = Gone(s, t) /\ Changed(s, u) = Changed(s, t)
      /\ Retagged(s, u) = Retagged(s, t)
      /\ HostsOf(u, Changed(s, t)) = HostsOf(t, Changed(s, t))
      /\ ShardsOf(u, Changed(s, t)) = ShardsOf(t, Changed(s, t))
  BY Zenon, <1>1 DEF Gone, Changed, Retagged, HostsOf, ShardsOf
<1>3. FreshStep(s, u)
  BY Zenon, <1>1 DEF FreshStep
<1>4. HostsStep(s, u)
  BY Zenon, <1>1, <1>2 DEF HostsStep
<1>5. ShardsStep(s, u)
  BY Zenon, <1>1, <1>2 DEF ShardsStep
<1> QED
  BY Zenon, <1>3, <1>4, <1>5 DEF StepOK

\* A command that leaves the replica table and all host tags alone, and creates
\* no shard but a fresh one, has nobody to notify.
LEMMA SameReplicas ==
  ASSUME NEW s, NEW t, DOMAIN t = StateFields, t.replica = s.replica, Retagged(s, t) = {},
         \A id \in DOMAIN t.shard \ DOMAIN s.shard :
             id > s.shardID \/ (id = PrimeShard /\ s.shardID = 0)
  PROVE  PreStep(s, t)
<1>1. Gone(s, t) = {} /\ Changed(s, t) = {}
  BY Zenon DEF Gone, Changed
<1>2. FreshStep(s, t)
  BY Zenon DEF FreshStep
<1> QED
  BY Zenon, <1>1, <1>2, PreStepIntro DEF HostsOf, ShardsOf

\* A command that deletes the replicas rs touches their hosts and their shards.
LEMMA DeletedReplicas ==
  ASSUME NEW s, NEW t, DOMAIN t = StateFields, NEW rs, t.replica = Without(s.replica, rs),
         Retagged(s, t) = {}, DOMAIN t.shard \subseteq DOMAIN s.shard,
         \A r \in rs \cap DOMAIN s.replica :
            /\ s.replica[r].HostID \in DOMAIN t.host
                 => t.host[s.replica[r].HostID].Updated = Entry(s)
            /\ s.replica[r].ShardID \in DOMAIN t.shard
                 => t.shard[s.replica[r].ShardID].Updated = Entry(s)
  PROVE  PreStep(s, t)
<1>1. Gone(s, t) \subseteq rs \cap DOMAIN s.replica /\ Changed(s, t) = {}
  BY Zenon DEF Gone, Changed, Without
<1>2. FreshStep(s, t)
  BY Zenon DEF FreshStep, Without
<1> QED
  BY Zenon, <1>1, <1>2, PreStepIntro DEF HostsOf, ShardsOf

\* A command that writes the row of replica r touches its host and its shard.
LEMMA WrittenReplica ==
  ASSUME NEW s, NEW t, DOMAIN t = StateFields, NEW r, NEW row,
         t.replica = With(s.replica, r, row), r \in DOMAIN s.replica \/ r > s.replicaID,
         Retagged(s, t) = {}, DOMAIN t.shard \subseteq DOMAIN s.shard,
         row.HostID \in DOMAIN t.host => t.host[row.HostID].Updated = Entry(s),
         row.ShardID \in DOMAIN t.shard => t.shard[row.ShardID].Updated = Entry(s)
  PROVE  PreStep(s, t)
<1>1. Gone(s, t) = {} /\ Changed(s, t) \subseteq {r} /\ t.replica[r] = row
  BY Zenon DEF Gone, Changed, With
<1>2. FreshStep(s, t)
  BY Zenon DEF FreshStep, With
<1> QED
  BY Zenon, <1>1, <1>2, PreStepIntro DEF HostsOf, ShardsOf

\* A command that retags host h and leaves the replicas alone touches h's shards.
LEMMA RetaggedHost ==
  ASSUME NEW s, NEW t, DOMAIN t = StateFields, NEW h, t.replica = s.replica,
         Retagged(s, t) \subseteq {h}, DOMAIN t.shard \subseteq DOMAIN s.shard,
         \A id \in ShardsOf(s, ReplicasOfHost(s, h)) :
             id \in DOMAIN t.shard => t.shard[id].Updated = Entry(s)
  PROVE  PreStep(s, t)
<1>1. Gone(s, t) = {} /\ Changed(s, t) = {}
  BY Zenon DEF Gone, Changed
<1>2. FreshStep(s, t)
  BY Zenon DEF FreshStep
<1> QED
  BY Zenon, <1>1, <1>2, PreStepIntro DEF HostsOf, ShardsOf

\* HostPut and HostTags: the shards of the host's replicas are touched.
LEMMA HostWritten ==
  ASSUME NEW s, Good(s), NEW h, NEW row,
         NEW t, t = hostPut(shardTouchEach(s, ReplicasOfHost(s, h)), h, row)
  PROVE  PreStep(s, t)
<1> DEFINE ids == ShardsOf(s, ReplicasOfHost(s, h))
           u == shardTouchEach(s, ReplicasOfHost(s, h))
<1>0. DOMAIN s = StateFields /\ IsTable(s.shard, Nat, ShardRow)
  BY Zenon DEF Good, StateType
<1>1. /\ DOMAIN u = StateFields /\ u.shard = Touched(s.shard, ids, Entry(s))
      /\ u.host = s.host /\ u.replica = s.replica
  BY <1>0, shardTouchEachFields
<1>2. t = hostPut(u, h, row)
  OBVIOUS
<1> HIDE DEF u
<1>3. /\ DOMAIN t = StateFields /\ t.shard = Touched(s.shard, ids, Entry(s))
      /\ t.host = With(s.host, h, row) /\ t.replica = s.replica
  BY <1>1, <1>2, hostPutFields
<1>4. Retagged(s, t) \subseteq {h}
  BY Zenon, <1>3 DEF Retagged, With
<1> QED
  BY <1>0, <1>3, <1>4, TouchedShardRows, RetaggedHost

\* A command that finds nothing to do notifies nobody.
LEMMA NothingDone ==
  ASSUME NEW s, Good(s)
  PROVE  PreStep(s, s)
<1>1. Retagged(s, s) = {} /\ DOMAIN s = StateFields
  BY Zenon DEF Retagged, Good, StateType
<1> QED
  BY Zenon, <1>1, SameReplicas

\* HostPut, HostTags.
LEMMA HostPutStep ==
  ASSUME NEW s, Good(s), NEW h, NEW tags
  PROVE  PreStep(s, HostPut(s, h, tags))
BY Zenon, HostWritten DEF HostPut

\* HostTags writes the row or does nothing.
LEMMA HostTagsStep ==
  ASSUME NEW s, Good(s), NEW act, NEW h, NEW tags
  PROVE  PreStep(s, HostTags(s, act, h, tags))
BY Zenon, HostWritten, NothingDone DEF HostTags

\* HostDel touches the shards of the replicas it deletes.
LEMMA HostDelStep ==
  ASSUME NEW s, Good(s), NEW h
  PROVE  PreStep(s, HostDel(s, h))
<1> DEFINE rs == ReplicasOfHost(s, h)
           u == shardTouchEach(s, rs)
           v == replicaDelete(u, rs)
           t == [v EXCEPT !.host = Without(@, {h})]
<1>0. DOMAIN s = StateFields /\ IsTable(s.shard, Nat, ShardRow)
  BY Zenon DEF Good, StateType
<1>1. /\ DOMAIN u = StateFields /\ u.replica = s.replica
      /\ u.shard = Touched(s.shard, ShardsOf(s, rs), Entry(s)) /\ u.host = s.host
  BY <1>0, shardTouchEachFields
<1> HIDE DEF u
<1>2. /\ DOMAIN v = StateFields /\ v.replica = Without(s.replica, rs)
      /\ v.shard = Touched(s.shard, ShardsOf(s, rs), Entry(s)) /\ v.host = s.host
  BY <1>1, replicaDeleteFields
<1>3. HostDel(s, h) = IF h \in DOMAIN s.host THEN t ELSE s
  BY Zenon DEF HostDel, u
<1> HIDE DEF v
<1>4. /\ DOMAIN t = StateFields /\ t.replica = Without(s.replica, rs)
      /\ t.shard = Touched(s.shard, ShardsOf(s, rs), Entry(s))
      /\ t.host = Without(s.host, {h})
  BY Zenon, <1>2 DEF StateFields
<1> HIDE DEF t
<1>5. Retagged(s, t) = {}
  BY Zenon, <1>4 DEF Retagged, Without
<1>6. \A r \in rs : s.replica[r].HostID \notin DOMAIN t.host
                    /\ s.replica[r].ShardID \in ShardsOf(s, rs)
  BY Zenon, <1>4 DEF ReplicasOfHost, ShardsOf, Without
<1>7. /\ DOMAIN t.shard = DOMAIN s.shard
      /\ \A id \in DOMAIN s.shard \cap ShardsOf(s, rs) : t.shard[id].Updated = Entry(s)
  BY <1>0, <1>4, TouchedShardRows
<1> HIDE DEF rs
<1>8. PreStep(s, t)
  BY Zenon, <1>4, <1>5, <1>6, <1>7, DeletedReplicas
<1> QED
  BY Zenon, <1>3, <1>8, NothingDone

\* A write of the shard table alone, to a row that exists or is fresh.
LEMMA ShardWritten ==
  ASSUME NEW s, Good(s), NEW t, DOMAIN t = StateFields, t.replica = s.replica,
         t.host = s.host \/ \E hs, i : t.host = Touched(s.host, hs, i),
         \A id \in DOMAIN t.shard \ DOMAIN s.shard :
             id > s.shardID \/ (id = PrimeShard /\ s.shardID = 0)
  PROVE  PreStep(s, t)
<1>1. IsTable(s.host, Host, HostRow)
  BY Zenon DEF Good, StateType
<1>2. \A x \in DOMAIN s.host : t.host[x].Tags = s.host[x].Tags
  BY <1>1, TouchedHostRows
<1>3. Retagged(s, t) = {}
  BY Zenon, <1>2 DEF Retagged
<1> QED
  BY Zenon, <1>3, SameReplicas

\* ShardPost allocates an ID no shard had.
LEMMA ShardPostStep ==
  ASSUME NEW s, Good(s), NEW name, NEW tags
  PROVE  PreStep(s, ShardPost(s, name, tags))
<1> DEFINE id == s.shardID + 1
           u == [s EXCEPT !.shardID = id]
           row == [Created |-> Entry(s), Updated |-> Entry(s), Tags |-> tags,
                   Term |-> 0, Name |-> name]
           t == shardPut(u, id, row)
<1>0. DOMAIN s = StateFields /\ s.shardID \in Nat
  BY Zenon DEF Good, StateType
<1>1. /\ DOMAIN u = StateFields /\ u.shard = s.shard /\ u.host = s.host
      /\ u.replica = s.replica
  BY Zenon, <1>0 DEF StateFields
<1>2. ShardPost(s, name, tags) = s \/ ShardPost(s, name, tags) = t
  BY Zenon DEF ShardPost
<1> HIDE DEF u, row
<1>3. /\ DOMAIN t = StateFields /\ t.shard = With(s.shard, id, row) /\ t.host = s.host
      /\ t.replica = s.replica
  BY <1>1, shardPutFields
<1> HIDE DEF t
<1>4. PreStep(s, t)
  BY <1>0, <1>3, ShardWritten DEF With
<1> QED
  BY Zenon, <1>2, <1>4, NothingDone

\* ShardTouch and ShardStatusUpdate create no row.
LEMMA ShardTouchStep ==
  ASSUME NEW s, Good(s), NEW id
  PROVE  PreStep(s, ShardTouch(s, id))
<1> DEFINE u == shardTouch(s, id)
           hs == HostsOf(s, ReplicasOfShard(s, id))
           t == hostTouch(u, hs)
<1>0. DOMAIN s = StateFields
  BY Zenon DEF Good, StateType
<1>a. u = shardTouch(s, id) /\ t = hostTouch(u, hs) /\ ShardTouch(s, id) = t
  BY Zenon DEF ShardTouch
<1> HIDE DEF u, t, hs
<1>1. /\ DOMAIN u = StateFields /\ DOMAIN u.shard = DOMAIN s.shard
      /\ u.host = s.host /\ u.replica = s.replica
  BY <1>0, <1>a, shardTouchFields
<1>3. /\ DOMAIN t = StateFields /\ DOMAIN t.shard = DOMAIN s.shard
      /\ t.host = s.host \/ t.host = Touched(s.host, hs, Entry(u))
      /\ t.replica = s.replica
  BY <1>a, <1>1, hostTouchFields
<1> QED
  BY Zenon, <1>a, <1>3, ShardWritten

\* ShardPut creates no row but the one of shard 0, before any other shard.
LEMMA ShardPutStep ==
  ASSUME NEW s, Good(s), NEW id, NEW name, NEW term, NEW tags
  PROVE  PreStep(s, ShardPut(s, id, name, term, tags))
<1> DEFINE hs == HostsOf(s, ReplicasOfShard(s, id))
<1>0. DOMAIN s = StateFields
  BY Zenon DEF Good, StateType
<1>1. PICK row :
        ShardPut(s, id, name, term, tags) =
            IF id \in DOMAIN s.shard \/ (id = PrimeShard /\ s.shardID = 0)
            THEN hostTouch(shardPut(s, id, row), hs) ELSE s
  BY Zenon DEF ShardPut
<1> DEFINE u == shardPut(s, id, row)
           t == hostTouch(u, hs)
<1>2. /\ DOMAIN u = StateFields /\ u.shard = With(s.shard, id, row)
      /\ u.host = s.host /\ u.replica = s.replica
  BY <1>0, shardPutFields
<1>3. ShardPut(s, id, name, term, tags) =
        IF id \in DOMAIN s.shard \/ (id = PrimeShard /\ s.shardID = 0) THEN t ELSE s
  BY Zenon, <1>1
<1> HIDE DEF u
<1>4. /\ DOMAIN t = StateFields /\ t.shard = With(s.shard, id, row)
      /\ t.host = s.host \/ t.host = Touched(s.host, hs, Entry(u))
      /\ t.replica = s.replica
  BY <1>2, hostTouchFields
<1> HIDE DEF t, hs
<1>5. ASSUME id \in DOMAIN s.shard \/ (id = PrimeShard /\ s.shardID = 0)
      PROVE  PreStep(s, t)
  BY <1>4, <1>5, ShardWritten DEF With
<1> QED
  BY Zenon, <1>3, <1>5, NothingDone

\* ShardLeaderSet rewrites a row that exists.
LEMMA ShardLeaderSetStep ==
  ASSUME NEW s, Good(s), NEW id, NEW term
  PROVE  PreStep(s, ShardLeaderSet(s, id, term))
<1> DEFINE row == [s.shard[id] EXCEPT !.Term = term, !.Updated = Entry(s)]
           t == shardPut(s, id, row)
<1>0. DOMAIN s = StateFields
  BY Zenon DEF Good, StateType
<1>1. ShardLeaderSet(s, id, term) = IF id \in DOMAIN s.shard THEN t ELSE s
  BY Zenon DEF ShardLeaderSet
<1> HIDE DEF row
<1>2. /\ DOMAIN t = StateFields /\ t.shard = With(s.shard, id, row)
      /\ t.host = s.host /\ t.replica = s.replica
  BY <1>0, shardPutFields
<1> HIDE DEF t
<1>3. ASSUME id \in DOMAIN s.shard PROVE PreStep(s, t)
  BY Zenon, <1>2, <1>3, ShardWritten DEF With
<1> QED
  BY Zenon, <1>1, <1>3, NothingDone

\* ShardDel touches the hosts of the replicas it deletes.
LEMMA ShardDelStep ==
  ASSUME NEW s, Good(s), NEW id
  PROVE  ShardDel(s, id).panicked \/ PreStep(s, ShardDel(s, id))
<1> DEFINE rs == ReplicasOfShard(s, id)
           hs == HostsOf(s, rs)
           u == replicaDelete(s, rs)
           v == hostTouch(u, hs)
           t == shardDelete(v, id)
<1>0. DOMAIN s = StateFields /\ IsTable(s.host, Host, HostRow)
  BY Zenon DEF Good, StateType
<1>1. /\ DOMAIN u = StateFields /\ u.replica = Without(s.replica, rs)
      /\ u.index = s.index /\ u.host = s.host /\ u.shard = s.shard
  BY <1>0, replicaDeleteFields
<1>2. ShardDel(s, id) = IF id \in DOMAIN s.shard THEN t ELSE s
  BY Zenon DEF ShardDel
<1> HIDE DEF u
<1>3. /\ DOMAIN v = StateFields /\ v.replica = Without(s.replica, rs)
      /\ v.host = Touched(s.host, hs, Entry(s)) \/ v.panicked
      /\ v.shard = s.shard
  BY <1>1, hostTouchFields DEF Entry
<1> HIDE DEF v
<1>4. /\ DOMAIN t = StateFields /\ t.replica = Without(s.replica, rs)
      /\ t.host = Touched(s.host, hs, Entry(s)) \/ t.panicked
      /\ t.shard = Without(s.shard, {id})
  BY <1>3, shardDeleteFields
<1> HIDE DEF t
<1>5. \A r \in rs : s.replica[r].HostID \in hs /\ s.replica[r].ShardID \notin DOMAIN t.shard
  BY Zenon, <1>4 DEF ReplicasOfShard, HostsOf, Without
<1> HIDE DEF rs, hs
<1>6. ASSUME ~t.panicked PROVE PreStep(s, t)
  <2>1. /\ DOMAIN t.host = DOMAIN s.host
        /\ \A h \in DOMAIN s.host : t.host[h].Tags = s.host[h].Tags
        /\ \A h \in DOMAIN s.host \cap hs : t.host[h].Updated = Entry(s)
    BY <1>0, <1>4, <1>6, TouchedHostRows
  <2>2. Retagged(s, t) = {} /\ DOMAIN t.shard \subseteq DOMAIN s.shard
    BY Zenon, <1>4, <2>1 DEF Retagged, Without
  <2> QED
    BY Zenon, <1>4, <1>5, <2>1, <2>2, DeletedReplicas
<1> QED
  BY Zenon, <1>2, <1>6, NothingDone

\* ShardTags rewrites a row that exists.
LEMMA ShardTagsStep ==
  ASSUME NEW s, Good(s), NEW act, NEW id, NEW tags
  PROVE  ShardTags(s, act, id, tags).panicked \/ PreStep(s, ShardTags(s, act, id, tags))
<1> DEFINE hs == HostsOf(s, ReplicasOfShard(s, id))
           row == [s.shard[id] EXCEPT !.Tags = TagResult(act, @, tags)]
           u == hostTouch(s, hs)
           t == shardPut(u, id, row)
<1>0. DOMAIN s = StateFields
  BY Zenon DEF Good, StateType
<1>1. \/ ShardTags(s, act, id, tags) = s
      \/ ShardTags(s, act, id, tags).panicked
      \/ id \in DOMAIN s.shard /\ ShardTags(s, act, id, tags) = t
  BY Zenon, <1>0 DEF ShardTags, StateFields
<1>2. /\ DOMAIN u = StateFields /\ u.replica = s.replica /\ u.shard = s.shard
      /\ u.host = Touched(s.host, hs, Entry(s)) \/ u.host = s.host
  BY <1>0, hostTouchFields
<1> HIDE DEF u, row
<1>3. /\ DOMAIN t = StateFields /\ t.replica = s.replica
      /\ t.host = Touched(s.host, hs, Entry(s)) \/ t.host = s.host
      /\ t.shard = With(s.shard, id, row)
  BY <1>2, shardPutFields
<1> HIDE DEF t, hs
<1>4. ASSUME id \in DOMAIN s.shard PROVE PreStep(s, t)
  BY <1>3, <1>4, ShardWritten DEF With
<1> QED
  BY Zenon, <1>1, <1>4, NothingDone

\* A replica row is written to a state that differs from s in its replicas only,
\* and its host and shard are touched.
LEMMA ReplicaWritten ==
  ASSUME NEW s, Good(s), NEW r, r \in DOMAIN s.replica \/ r > s.replicaID, NEW row,
         NEW u, DOMAIN u = StateFields, u.replica = With(s.replica, r, row),
         u.index = s.index, u.host = s.host, u.shard = s.shard, NEW t,
         t = shardTouch(hostTouch(u, {row.HostID}), row.ShardID)
  PROVE  t.panicked \/ PreStep(s, t)
<1> DEFINE v == hostTouch(u, {row.HostID})
<1>0. IsTable(s.host, Host, HostRow) /\ IsTable(s.shard, Nat, ShardRow)
  BY Zenon DEF Good, StateType
<1>1. /\ DOMAIN v = StateFields /\ v.replica = With(s.replica, r, row)
      /\ v.host = Touched(s.host, {row.HostID}, Entry(s)) \/ v.panicked
      /\ v.shard = s.shard /\ v.index = s.index
  BY hostTouchFields DEF Entry
<1>2. t = shardTouch(v, row.ShardID)
  OBVIOUS
<1> HIDE DEF v
<1>3. /\ DOMAIN t = StateFields /\ t.replica = With(s.replica, r, row)
      /\ t.host = Touched(s.host, {row.HostID}, Entry(s)) \/ t.panicked
      /\ DOMAIN t.shard = DOMAIN s.shard
      /\ row.ShardID \in DOMAIN s.shard /\ "Updated" \in DOMAIN s.shard[row.ShardID]
           => t.shard[row.ShardID].Updated = Entry(s)
  BY SMTT(30), <1>1, <1>2, shardTouchFields DEF Entry
<1>4. ASSUME ~t.panicked PROVE PreStep(s, t)
  <2> DEFINE hs == {row.HostID}
  <2>0. t.host = Touched(s.host, hs, Entry(s)) /\ row.HostID \in hs
    BY Zenon, <1>3, <1>4
  <2> DEFINE f == Touched(s.host, hs, Entry(s))
  <2>a. /\ DOMAIN f = DOMAIN s.host
        /\ \A h \in DOMAIN s.host : f[h].Tags = s.host[h].Tags
        /\ \A h \in DOMAIN s.host \cap hs : f[h].Updated = Entry(s)
    BY <1>0, TouchedHostRows
  <2> HIDE DEF hs, f
  <2>1. /\ DOMAIN t.host = DOMAIN s.host
        /\ \A h \in DOMAIN s.host : t.host[h].Tags = s.host[h].Tags
        /\ row.HostID \in DOMAIN s.host => t.host[row.HostID].Updated = Entry(s)
    BY Zenon, <2>0, <2>a DEF f
  <2>2. /\ DOMAIN t.shard = DOMAIN s.shard
        /\ row.ShardID \in DOMAIN s.shard => t.shard[row.ShardID].Updated = Entry(s)
    BY <1>0, <1>3 DEF IsTable, ShardRow
  <2>3. Retagged(s, t) = {}
    BY Zenon, <2>1 DEF Retagged
  <2> QED
    BY Zenon, <1>3, <2>1, <2>2, <2>3, WrittenReplica
<1> QED
  BY Zenon, <1>4

\* ReplicaPost allocates an ID no replica had.
LEMMA ReplicaPostStep ==
  ASSUME NEW s, Good(s), NEW h, NEW id, NEW nonVoting
  PROVE  \/ ReplicaPost(s, h, id, nonVoting).panicked
         \/ PreStep(s, ReplicaPost(s, h, id, nonVoting))
<1> DEFINE r == s.replicaID + 1
           w == [s EXCEPT !.replicaID = r]
<1>0. DOMAIN s = StateFields /\ s.replicaID \in Nat
  BY Zenon DEF Good, StateType
<1>1. /\ DOMAIN w = StateFields /\ w.replica = s.replica /\ w.host = s.host
      /\ w.shard = s.shard /\ w.index = s.index
  BY Zenon, <1>0 DEF StateFields
<1>2. PICK row : /\ row.HostID = h /\ row.ShardID = id
                 /\ ReplicaPost(s, h, id, nonVoting) =
                      shardTouch(hostTouch(replicaPut(w, r, row), {h}), id)
  <2> DEFINE status == IF ~nonVoting /\ Cardinality(ShardMembers(s, id)) < BootstrapSize
                       THEN "bootstrapping" ELSE "joining"
             ro == [Created |-> Entry(s), Updated |-> Entry(s), Status |-> status,
                    HostID |-> h, IsNonVoting |-> nonVoting, ShardID |-> id]
  <2>1. ReplicaPost(s, h, id, nonVoting) =
          shardTouch(hostTouch(replicaPut(w, r, ro), {h}), id)
    BY Zenon DEF ReplicaPost
  <2>2. ro.HostID = h /\ ro.ShardID = id
    OBVIOUS
  <2> QED
    BY Zenon, <2>1, <2>2
<1> HIDE DEF w
<1> DEFINE u == replicaPut(w, r, row)
<1>3. /\ DOMAIN u = StateFields /\ u.replica = With(s.replica, r, row)
      /\ u.index = s.index /\ u.host = s.host /\ u.shard = s.shard
  BY <1>1, replicaPutFields
<1>4. ReplicaPost(s, h, id, nonVoting) =
        shardTouch(hostTouch(u, {row.HostID}), row.ShardID)
  BY Zenon, <1>2
<1>5. r > s.replicaID
  BY <1>0
<1> HIDE DEF u, r
<1> QED
  BY Zenon, <1>3, <1>4, <1>5, ReplicaWritten

\* ReplicaStatusUpdate and ReplicaPut rewrite a row and notify its host and shard.
LEMMA ReplicaRewritten ==
  ASSUME NEW s, Good(s), NEW r \in DOMAIN s.replica, NEW row
  PROVE  \/ Notify(replicaPut(s, r, row), r).panicked
         \/ PreStep(s, Notify(replicaPut(s, r, row), r))
<1> DEFINE u == replicaPut(s, r, row)
<1>0. DOMAIN s = StateFields
  BY Zenon DEF Good, StateType
<1>1. /\ DOMAIN u = StateFields /\ u.replica = With(s.replica, r, row)
      /\ u.index = s.index /\ u.host = s.host /\ u.shard = s.shard
  BY <1>0, replicaPutFields
<1> HIDE DEF u
<1>2. u.replica[r] = row
  BY Zenon, <1>1 DEF With
<1>3. Notify(u, r) = shardTouch(hostTouch(u, {row.HostID}), row.ShardID)
  BY Zenon, <1>2 DEF Notify
<1>4. Notify(u, r).panicked \/ PreStep(s, Notify(u, r))
  BY Zenon, <1>1, <1>3, ReplicaWritten
<1> QED
  BY Zenon, <1>4 DEF u

\* ReplicaStatusUpdate.
LEMMA ReplicaStatusUpdateStep ==
  ASSUME NEW s, Good(s), NEW r, NEW status
  PROVE  \/ ReplicaStatusUpdate(s, r, status).panicked
         \/ PreStep(s, ReplicaStatusUpdate(s, r, status))
BY Zenon, ReplicaRewritten, NothingDone DEF ReplicaStatusUpdate

\* ReplicaPut.
LEMMA ReplicaPutStep ==
  ASSUME NEW s, Good(s), NEW r, NEW h, NEW id, NEW nonVoting
  PROVE  \/ ReplicaPut(s, r, h, id, nonVoting).panicked
         \/ PreStep(s, ReplicaPut(s, r, h, id, nonVoting))
BY Zenon, ReplicaRewritten, NothingDone DEF ReplicaPut

\* Notify sets Updated of the replica's host and shard and keeps the other rows.
LEMMA NotifyRows ==
  ASSUME NEW s, Good(s), NEW r, NEW t, t = Notify(s, r), ~t.panicked
  PROVE  /\ DOMAIN t = StateFields /\ t.replica = s.replica /\ t.index = s.index
         /\ DOMAIN t.shard = DOMAIN s.shard /\ DOMAIN t.host = DOMAIN s.host
         /\ \A h \in DOMAIN s.host : t.host[h].Tags = s.host[h].Tags
         /\ s.replica[r].HostID \in DOMAIN s.host
              => t.host[s.replica[r].HostID].Updated = Entry(s)
         /\ s.replica[r].ShardID \in DOMAIN s.shard
              => t.shard[s.replica[r].ShardID].Updated = Entry(s)
<1> DEFINE h == s.replica[r].HostID
           id == s.replica[r].ShardID
<1>0. /\ DOMAIN s = StateFields
      /\ IsTable(s.host, Host, HostRow) /\ IsTable(s.shard, Nat, ShardRow)
  BY Zenon DEF Good, StateType
<1>1. t.replica = s.replica /\ t.index = s.index /\ DOMAIN t = StateFields
  BY Zenon, <1>0, NotifyFields
<1>2. t.host = Touched(s.host, {h}, Entry(s))
  <2> DEFINE u == hostTouch(s, {h})
  <2>1. DOMAIN u = StateFields
    BY Zenon, <1>0 DEF hostTouch, StateFields
  <2>2. t = shardTouch(u, id)
    BY Zenon DEF Notify
  <2>3. u.panicked \/ u.host = Touched(s.host, {h}, Entry(s))
    BY Zenon, <1>0 DEF hostTouch, StateFields
  <2> HIDE DEF u
  <2>4. t.host = u.host /\ t.panicked = u.panicked
    BY <2>1, <2>2, shardTouchFields
  <2> QED
    BY Zenon, <2>3, <2>4
<1>3. /\ DOMAIN t.shard = DOMAIN s.shard
      /\ id \in DOMAIN s.shard /\ "Updated" \in DOMAIN s.shard[id]
           => t.shard[id].Updated = Entry(s)
  BY ZenonT(30), <1>0, NotifyFields
<1>4. id \in DOMAIN s.shard => t.shard[id].Updated = Entry(s)
  BY Zenon, <1>0, <1>3 DEF IsTable, ShardRow
<1>5. /\ DOMAIN t.host = DOMAIN s.host
      /\ \A x \in DOMAIN s.host : t.host[x].Tags = s.host[x].Tags
      /\ \A x \in DOMAIN s.host \cap {h} : t.host[x].Updated = Entry(s)
  <2> DEFINE hs == {h}
             f == Touched(s.host, hs, Entry(s))
  <2>1. /\ DOMAIN f = DOMAIN s.host
        /\ \A x \in DOMAIN s.host : f[x].Tags = s.host[x].Tags
        /\ \A x \in DOMAIN s.host \cap hs : f[x].Updated = Entry(s)
    BY <1>0, TouchedHostRows
  <2> QED
    BY Zenon, <1>2, <2>1
<1> QED
  BY Zenon, <1>1, <1>3, <1>4, <1>5

\* ReplicaDel notifies the host and shard of the replica it deletes.
LEMMA ReplicaDelStep ==
  ASSUME NEW s, Good(s), NEW r
  PROVE  ReplicaDel(s, r).panicked \/ PreStep(s, ReplicaDel(s, r))
<1> DEFINE u == Notify(s, r)
           rs == {r}
           t == replicaDelete(u, rs)
<1>0. DOMAIN s = StateFields
  BY Zenon DEF Good, StateType
<1>1. DOMAIN u = StateFields
  BY ZenonT(30), <1>0, NotifyFields
<1>2. ReplicaDel(s, r) = IF r \in DOMAIN s.replica THEN t ELSE s
  BY Zenon DEF ReplicaDel
<1>3. ASSUME ~t.panicked PROVE PreStep(s, t)
  <2>1. /\ DOMAIN t = StateFields /\ t.replica = Without(u.replica, rs)
        /\ t.host = u.host /\ t.shard = u.shard /\ ~u.panicked
    BY <1>1, <1>3, replicaDeleteFields
  <2>2. /\ u.replica = s.replica
        /\ DOMAIN u.shard = DOMAIN s.shard /\ DOMAIN u.host = DOMAIN s.host
        /\ \A h \in DOMAIN s.host : u.host[h].Tags = s.host[h].Tags
        /\ s.replica[r].HostID \in DOMAIN s.host
             => u.host[s.replica[r].HostID].Updated = Entry(s)
        /\ s.replica[r].ShardID \in DOMAIN s.shard
             => u.shard[s.replica[r].ShardID].Updated = Entry(s)
    BY <2>1, NotifyRows
  <2>3. \A x \in rs : x = r
    BY ZenonT(30)
  <2> HIDE DEF u, t, rs
  <2>4. Retagged(s, t) = {}
    BY Zenon, <2>1, <2>2 DEF Retagged
  <2> QED
    BY <2>1, <2>2, <2>3, <2>4, DeletedReplicas
<1> QED
  BY Zenon, <1>2, <1>3, NothingDone

\* ReplicaTags changes no row but to touch it.
LEMMA ReplicaTagsStep ==
  ASSUME NEW s, Good(s), NEW act, NEW r, NEW tags
  PROVE  ReplicaTags(s, act, r, tags).panicked \/ PreStep(s, ReplicaTags(s, act, r, tags))
<1> DEFINE u == Notify(s, r)
<1>1. \/ ReplicaTags(s, act, r, tags) = s
      \/ ReplicaTags(s, act, r, tags).panicked
      \/ ReplicaTags(s, act, r, tags) = u
  BY Zenon DEF ReplicaTags, Good, StateType, StateFields
<1>2. ASSUME ~u.panicked PROVE PreStep(s, u)
  <2>1. /\ DOMAIN u = StateFields /\ u.replica = s.replica
        /\ DOMAIN u.shard = DOMAIN s.shard /\ DOMAIN u.host = DOMAIN s.host
        /\ \A h \in DOMAIN s.host : u.host[h].Tags = s.host[h].Tags
    BY <1>2, NotifyRows
  <2> HIDE DEF u
  <2>2. Retagged(s, u) = {}
    BY Zenon, <2>1 DEF Retagged
  <2> QED
    BY Zenon, <2>1, <2>2, SameReplicas
<1> QED
  BY Zenon, <1>1, <1>2, NothingDone

\* Every entry keeps the promises of FreshIDs, HostsAreNotified, ShardsAreNotified.
LEMMA NextStep ==
  ASSUME Good(reg), Next
  PROVE  StepOK(reg, reg')
<1> USE DEF Apply
<1>1. CASE ApplyHostPut
  BY Zenon, <1>1, HostPutStep, CommitStep DEF ApplyHostPut
<1>2. CASE ApplyHostDel
  BY Zenon, <1>2, HostDelStep, CommitStep DEF ApplyHostDel
<1>3. CASE ApplyHostTags
  BY Zenon, <1>3, HostTagsStep, CommitStep DEF ApplyHostTags
<1>4. CASE ApplyShardPost
  BY Zenon, <1>4, ShardPostStep, CommitStep DEF ApplyShardPost
<1>5. CASE ApplyShardTouch
  BY Zenon, <1>5, ShardTouchStep, CommitStep DEF ApplyShardTouch
<1>6. CASE ApplyShardPut
  BY Zenon, <1>6, ShardPutStep, CommitStep DEF ApplyShardPut
<1>7. CASE ApplyShardStatusUpdate
  BY Zenon, <1>7, ShardTouchStep, NothingDone, CommitStep
     DEF ApplyShardStatusUpdate, ShardStatusUpdate
<1>8. CASE ApplyShardLeaderSet
  BY Zenon, <1>8, ShardLeaderSetStep, CommitStep DEF ApplyShardLeaderSet
<1>9. CASE ApplyShardDel
  BY Zenon, <1>9, ShardDelStep, CommitStep DEF ApplyShardDel
<1>10. CASE ApplyShardTags
  BY Zenon, <1>10, ShardTagsStep, CommitStep DEF ApplyShardTags
<1>11. CASE ApplyReplicaPost
  BY Zenon, <1>11, ReplicaPostStep, CommitStep DEF ApplyReplicaPost
<1>12. CASE ApplyReplicaStatusUpdate
  BY Zenon, <1>12, ReplicaStatusUpdateStep, CommitStep DEF ApplyReplicaStatusUpdate
<1>13. CASE ApplyReplicaPut
  BY Zenon, <1>13, ReplicaPutStep, CommitStep DEF ApplyReplicaPut
<1>14. CASE ApplyReplicaDel
  BY Zenon, <1>14, ReplicaDelStep, CommitStep DEF ApplyReplicaDel
<1>15. CASE ApplyReplicaTags
  BY Zenon, <1>15, ReplicaTagsStep, CommitStep DEF ApplyReplicaTags
<1> QED
  BY Zenon, <1>1, <1>2, <1>3, <1>4, <1>5, <1>6, <1>7, <1>8, <1>9, <1>10, <1>11, <1>12, <1>13,
     <1>14, <1>15 DEF Next

\* A replica ID is never reused, whatever rows have been deleted since (replicaIncr,
\* shardIncr and the posts of fsm.go).
THEOREM IDsNeverReused == Spec => FreshIDs
<1>1. Good(reg) /\ [Next]_reg => [FreshStep(reg, reg')]_reg
  BY Zenon, NextStep DEF StepOK
<1> QED
  BY <1>1, AlwaysGood, PTL DEF Spec, FreshIDs

\* No host misses a change of its replicas: whatever the command, the row of the
\* host of a created, changed or deleted replica gets the index of the entry.
THEOREM NoHostMissesAChange == Spec => HostsAreNotified
<1>1. Good(reg) /\ [Next]_reg => [HostsStep(reg, reg')]_reg
  BY Zenon, NextStep DEF StepOK
<1> QED
  BY <1>1, AlwaysGood, PTL DEF Spec, HostsAreNotified

\* No shard misses a change of its replicas, nor of the tags of their hosts.
THEOREM NoShardMissesAChange == Spec => ShardsAreNotified
<1>1. Good(reg) /\ [Next]_reg => [ShardsStep(reg, reg')]_reg
  BY Zenon, NextStep DEF StepOK
<1> QED
  BY <1>1, AlwaysGood, PTL DEF Spec, ShardsAreNotified
=============================================================================
