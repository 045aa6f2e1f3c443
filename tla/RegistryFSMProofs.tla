-------------------------- MODULE RegistryFSMProofs --------------------------
(***************************************************************************)
(* Facts about the tables and commands of RegistryFSM, for every module    *)
(* that applies them: which fields of the state an operation writes, and   *)
(* that every command takes a well formed state to a well formed one.      *)
(***************************************************************************)
EXTENDS RegistryFSM, TLAPS

(* Tables.                                                                  *)

\* Inserting a row (hostPut, shardPut, replicaPut).
LEMMA WithTable ==
  ASSUME NEW Key, NEW Row, NEW t, IsTable(t, Key, Row), NEW x \in Key, NEW row \in Row
  PROVE  IsTable(With(t, x, row), Key, Row)
BY Zenon DEF IsTable, With

\* Writing a row that was last updated by entry i or before (hostPut, shardPut,
\* replicaPut) leaves no row from after entry i.
LEMMA WithTimes ==
  ASSUME NEW t, NEW i, RowTimes(t, i), NEW x, NEW row,
         row.Created <= row.Updated, row.Updated <= i
  PROVE  RowTimes(With(t, x, row), i)
BY Zenon DEF RowTimes, With

\* Deleting rows.
LEMMA WithoutTable ==
  ASSUME NEW Key, NEW Row, NEW t, IsTable(t, Key, Row), NEW ids
  PROVE  IsTable(Without(t, ids), Key, Row)
BY Zenon DEF IsTable, Without

\* Deleting rows (replicaDelete, shardDelete) leaves the other rows' times alone.
LEMMA WithoutTimes ==
  ASSUME NEW t, NEW i, RowTimes(t, i), NEW ids
  PROVE  RowTimes(Without(t, ids), i)
BY Zenon DEF RowTimes, Without

\* Touching rows (hostTouch, shardTouch) changes nothing but Updated.
LEMMA TouchedHosts ==
  ASSUME NEW t, IsTable(t, Host, HostRow), NEW ids, NEW i \in Nat
  PROVE  IsTable(Touched(t, ids, i), Host, HostRow)
BY Zenon DEF IsTable, Touched, HostRow

\* shardTouch writes shard rows.
LEMMA TouchedShards ==
  ASSUME NEW t, IsTable(t, Nat, ShardRow), NEW ids, NEW i \in Nat
  PROVE  IsTable(Touched(t, ids, i), Nat, ShardRow)
BY DEF IsTable, Touched, ShardRow

\* Touching rows with the index of the entry being applied leaves no row from after
\* it.
LEMMA TouchedTimes ==
  ASSUME NEW t, NEW i \in Nat, RowTimes(t, i), NEW ids,
         \A x \in DOMAIN t : /\ t[x].Created \in Nat /\ t[x].Updated \in Nat
                             /\ {"Created", "Updated"} \subseteq DOMAIN t[x]
  PROVE  RowTimes(Touched(t, ids, i), i)
<1> SUFFICES ASSUME NEW x \in DOMAIN t
             PROVE  /\ Touched(t, ids, i)[x].Created <= Touched(t, ids, i)[x].Updated
                    /\ Touched(t, ids, i)[x].Updated <= i
  BY Zenon DEF RowTimes, Touched
<1>1. Touched(t, ids, i)[x] = IF x \in ids THEN [t[x] EXCEPT !.Updated = i] ELSE t[x]
  BY Zenon DEF Touched
<1>2. t[x].Created <= t[x].Updated /\ t[x].Updated <= i
  BY Zenon DEF RowTimes
<1> QED
  BY <1>1, <1>2

\* Tag maps are closed under the merges of tagsSet and tagsSetNX and under the
\* deletions of tagsRemove.
LEMMA TagMaps ==
  ASSUME NEW a \in TagMap, NEW b \in TagMap, NEW ids
  PROVE  tagsSetNX(a, b) \in TagMap /\ Without(a, ids) \in TagMap
<1>1. PICK A \in SUBSET TagKey : a \in [A -> TagValue]
  BY Zenon DEF TagMap
<1>2. PICK B \in SUBSET TagKey : b \in [B -> TagValue]
  BY Zenon DEF TagMap
<1>3. tagsSetNX(a, b) \in [A \cup B -> TagValue]
  BY Zenon, <1>1, <1>2 DEF tagsSetNX
<1>4. Without(a, ids) \in [A \ ids -> TagValue]
  BY Zenon, <1>1 DEF Without
<1> QED
  BY Zenon, <1>3, <1>4 DEF TagMap

\* Each tag command turns a tag map into a tag map.
LEMMA TagResults ==
  ASSUME NEW act \in TagAction, NEW a \in TagMap, NEW b \in TagMap
  PROVE  TagResult(act, a, b) \in TagMap
BY Zenon, TagMaps DEF TagResult, TagAction, tagsSet, tagsRemove

-----------------------------------------------------------------------------
(* What each table write does, field by field.                              *)

\* hostPut writes one row of the host table.
LEMMA hostPutFields ==
  ASSUME NEW s, DOMAIN s = StateFields, NEW h, NEW row, NEW t, t = hostPut(s, h, row)
  PROVE  /\ DOMAIN t = StateFields /\ t.host = With(s.host, h, row)
         /\ t.index = s.index /\ t.shardID = s.shardID /\ t.replicaID = s.replicaID
         /\ t.shard = s.shard /\ t.replica = s.replica /\ t.panicked = s.panicked
BY Zenon DEF hostPut, StateFields

\* hostTouch sets Updated in the host table, or panics and changes no table.
LEMMA hostTouchFields ==
  ASSUME NEW s, DOMAIN s = StateFields, NEW hs, NEW t, t = hostTouch(s, hs)
  PROVE  /\ DOMAIN t = StateFields
         /\ t.host = Touched(s.host, hs, Entry(s)) \/ t.panicked
         /\ t.host = Touched(s.host, hs, Entry(s)) \/ t.host = s.host
         /\ t.index = s.index /\ t.shardID = s.shardID /\ t.replicaID = s.replicaID
         /\ t.shard = s.shard /\ t.replica = s.replica
BY Zenon DEF hostTouch, StateFields

\* shardPut writes one row of the shard table.
LEMMA shardPutFields ==
  ASSUME NEW s, DOMAIN s = StateFields, NEW id, NEW row, NEW t, t = shardPut(s, id, row)
  PROVE  /\ DOMAIN t = StateFields /\ t.shard = With(s.shard, id, row)
         /\ t.index = s.index /\ t.shardID = s.shardID /\ t.replicaID = s.replicaID
         /\ t.host = s.host /\ t.replica = s.replica /\ t.panicked = s.panicked
BY Zenon DEF shardPut, StateFields

\* shardTouch sets Updated in the shard table.
LEMMA shardTouchFields ==
  ASSUME NEW s, DOMAIN s = StateFields, NEW id, NEW t, t = shardTouch(s, id)
  PROVE  /\ DOMAIN t = StateFields
         /\ DOMAIN t.shard = DOMAIN s.shard
         /\ id \in DOMAIN s.shard /\ "Updated" \in DOMAIN s.shard[id]
              => t.shard[id].Updated = Entry(s)
         /\ t.index = s.index /\ t.shardID = s.shardID /\ t.replicaID = s.replicaID
         /\ t.host = s.host /\ t.replica = s.replica /\ t.panicked = s.panicked
<1>1. CASE id \in DOMAIN s.shard
  <2> DEFINE row == [s.shard[id] EXCEPT !.Updated = Entry(s)]
  <2>1. t = shardPut(s, id, row)
    BY Zenon, <1>1 DEF shardTouch
  <2>2. "Updated" \in DOMAIN s.shard[id] => row.Updated = Entry(s)
    OBVIOUS
  <2> HIDE DEF row
  <2>3. /\ DOMAIN t = StateFields /\ t.shard = With(s.shard, id, row)
        /\ t.index = s.index /\ t.shardID = s.shardID /\ t.replicaID = s.replicaID
        /\ t.host = s.host /\ t.replica = s.replica /\ t.panicked = s.panicked
    BY <2>1, shardPutFields
  <2> QED
    BY Zenon, <1>1, <2>2, <2>3 DEF With
<1>2. CASE id \notin DOMAIN s.shard
  BY Zenon, <1>2 DEF shardTouch
<1> QED
  BY Zenon, <1>1, <1>2

\* So does the touch of the shards of several replicas.
LEMMA shardTouchEachFields ==
  ASSUME NEW s, DOMAIN s = StateFields, NEW rs, NEW t, t = shardTouchEach(s, rs)
  PROVE  /\ DOMAIN t = StateFields /\ t.shard = Touched(s.shard, ShardsOf(s, rs), Entry(s))
         /\ t.index = s.index /\ t.shardID = s.shardID /\ t.replicaID = s.replicaID
         /\ t.host = s.host /\ t.replica = s.replica /\ t.panicked = s.panicked
BY Zenon DEF shardTouchEach, StateFields

\* shardDelete deletes one row of the shard table.
LEMMA shardDeleteFields ==
  ASSUME NEW s, DOMAIN s = StateFields, NEW id, NEW t, t = shardDelete(s, id)
  PROVE  /\ DOMAIN t = StateFields /\ t.shard = Without(s.shard, {id})
         /\ t.index = s.index /\ t.shardID = s.shardID /\ t.replicaID = s.replicaID
         /\ t.host = s.host /\ t.replica = s.replica /\ t.panicked = s.panicked
BY Zenon DEF shardDelete, StateFields

\* replicaPut writes one row of the replica table.
LEMMA replicaPutFields ==
  ASSUME NEW s, DOMAIN s = StateFields, NEW r, NEW row, NEW t, t = replicaPut(s, r, row)
  PROVE  /\ DOMAIN t = StateFields /\ t.replica = With(s.replica, r, row)
         /\ t.index = s.index /\ t.shardID = s.shardID /\ t.replicaID = s.replicaID
         /\ t.host = s.host /\ t.shard = s.shard /\ t.panicked = s.panicked
BY Zenon DEF replicaPut, StateFields

\* replicaDelete deletes rows of the replica table.
LEMMA replicaDeleteFields ==
  ASSUME NEW s, DOMAIN s = StateFields, NEW rs, NEW t, t = replicaDelete(s, rs)
  PROVE  /\ DOMAIN t = StateFields /\ t.replica = Without(s.replica, rs)
         /\ t.index = s.index /\ t.shardID = s.shardID /\ t.replicaID = s.replicaID
         /\ t.host = s.host /\ t.shard = s.shard /\ t.panicked = s.panicked
BY Zenon DEF replicaDelete, StateFields

\* Notify touches the host and the shard of one replica, or panics.
LEMMA NotifyFields ==
  ASSUME NEW s, DOMAIN s = StateFields, NEW r, NEW t, t = Notify(s, r)
  PROVE  /\ DOMAIN t = StateFields
         /\ t.host = Touched(s.host, {s.replica[r].HostID}, Entry(s)) \/ t.panicked
         /\ t.host = Touched(s.host, {s.replica[r].HostID}, Entry(s)) \/ t.host = s.host
         /\ DOMAIN t.shard = DOMAIN s.shard
         /\ (s.replica[r].ShardID \in DOMAIN s.shard
               /\ "Updated" \in DOMAIN s.shard[s.replica[r].ShardID])
              => t.shard[s.replica[r].ShardID].Updated = Entry(s)
         /\ t.index = s.index /\ t.shardID = s.shardID /\ t.replicaID = s.replicaID
         /\ t.replica = s.replica
<1> DEFINE u == hostTouch(s, {s.replica[r].HostID})
<1>1. /\ DOMAIN u = StateFields
      /\ u.host = Touched(s.host, {s.replica[r].HostID}, Entry(s)) \/ u.panicked
      /\ u.host = Touched(s.host, {s.replica[r].HostID}, Entry(s)) \/ u.host = s.host
      /\ u.index = s.index /\ u.shardID = s.shardID /\ u.replicaID = s.replicaID
      /\ u.shard = s.shard /\ u.replica = s.replica
  BY hostTouchFields
<1>2. t = shardTouch(u, s.replica[r].ShardID)
  BY Zenon DEF Notify
<1> HIDE DEF u
<1> QED
  BY <1>1, <1>2, shardTouchFields DEF Entry

-----------------------------------------------------------------------------
(***************************************************************************)
(* The inductive invariant.  Within an Update the rows already written     *)
(* carry the index of the entry being applied, which is one more than the  *)
(* index of the state: Good is what holds between two entries, Mid what    *)
(* holds between two table writes of one entry.                            *)
(***************************************************************************)

Good(s) == StateType(s) /\ HostRef(s) /\ IDsAllocated(s) /\ Watermark(s)

Mid(s) ==
    /\ StateType(s) /\ HostRef(s) /\ IDsAllocated(s)
    /\ RowTimes(s.host, Entry(s))
    /\ RowTimes(s.shard, Entry(s))
    /\ RowTimes(s.replica, Entry(s))

\* A state between two entries is a state an Update may start from.
LEMMA GoodMid ==
  ASSUME NEW s, Good(s)
  PROVE  Mid(s) /\ Entry(s) \in Nat
BY DEF Good, Mid, Watermark, StateType, RowTimes, IsTable, HostRow, ShardRow, ReplicaRow, Entry

\* Committing what an Update has written gives a state between two entries.
LEMMA CommitGood ==
  ASSUME NEW s, Good(s), NEW t, Mid(t) \/ t.panicked, t.index = s.index
  PROVE  Good(Commit(s, t))
<1>1. CASE t.panicked
  BY Zenon, <1>1 DEF Good, Commit, StateType, StateFields, HostRef, IDsAllocated, Watermark
<1>2. CASE ~t.panicked
  BY <1>2 DEF Good, Mid, Commit, StateType, StateFields, HostRef, IDsAllocated, Watermark,
              Entry
<1> QED
  BY Zenon, <1>1, <1>2

\* What the rows of a state satisfy.
LEMMA Rows ==
  ASSUME NEW s, Mid(s)
  PROVE  /\ Entry(s) \in Nat
         /\ \A h \in DOMAIN s.host :
              /\ h \in Host /\ s.host[h] \in HostRow
              /\ s.host[h].Created <= s.host[h].Updated /\ s.host[h].Updated <= Entry(s)
         /\ \A id \in DOMAIN s.shard :
              /\ id \in Nat /\ id <= s.shardID /\ s.shard[id] \in ShardRow
              /\ s.shard[id].Created <= s.shard[id].Updated /\ s.shard[id].Updated <= Entry(s)
         /\ \A r \in DOMAIN s.replica :
              /\ r \in Nat /\ 0 < r /\ r <= s.replicaID /\ s.replica[r] \in ReplicaRow
              /\ s.replica[r].HostID \in DOMAIN s.host
              /\ s.replica[r].Created <= s.replica[r].Updated
              /\ s.replica[r].Updated <= Entry(s)
BY DEF Mid, StateType, HostRef, IDsAllocated, RowTimes, IsTable, Entry

\* Replacing the host table by one that lacks no host keeps Mid.
LEMMA HostFrame ==
  ASSUME NEW s, Mid(s), NEW f, IsTable(f, Host, HostRow), DOMAIN s.host \subseteq DOMAIN f,
         RowTimes(f, Entry(s))
  PROVE  Mid([s EXCEPT !.host = f]) /\ [s EXCEPT !.host = f].index = s.index
<1> DEFINE t == [s EXCEPT !.host = f]
<1>1. /\ DOMAIN t = StateFields /\ t.host = f
      /\ t.index = s.index /\ t.shardID = s.shardID /\ t.replicaID = s.replicaID
      /\ t.shard = s.shard /\ t.replica = s.replica /\ t.byName = s.byName
      /\ t.panicked = s.panicked
  BY Zenon DEF Mid, StateType, StateFields
<1> HIDE DEF t
<1> QED
  BY <1>1 DEF Mid, StateType, HostRef, IDsAllocated, Entry

\* Replacing the shard table and its Name index by ones that have no new ID keeps
\* Mid.
LEMMA ShardFrame ==
  ASSUME NEW s, Mid(s), NEW t, DOMAIN t = StateFields,
         t.index = s.index, t.shardID = s.shardID, t.replicaID = s.replicaID,
         t.host = s.host, t.replica = s.replica, t.panicked = s.panicked,
         IsTable(t.shard, Nat, ShardRow), IsTable(t.byName, Name, Nat),
         \A id \in DOMAIN t.shard : id <= s.shardID, RowTimes(t.shard, Entry(s))
  PROVE  Mid(t) /\ t.index = s.index
BY Zenon DEF Mid, StateType, HostRef, IDsAllocated, Entry

\* Replacing the replica table by one whose replicas have a host and an ID in
\* range keeps Mid.
LEMMA ReplicaFrame ==
  ASSUME NEW s, Mid(s), NEW f, IsTable(f, Nat, ReplicaRow),
         \A r \in DOMAIN f : f[r].HostID \in DOMAIN s.host /\ 0 < r /\ r <= s.replicaID,
         RowTimes(f, Entry(s))
  PROVE  Mid([s EXCEPT !.replica = f]) /\ [s EXCEPT !.replica = f].index = s.index
<1> DEFINE t == [s EXCEPT !.replica = f]
<1>1. /\ DOMAIN t = StateFields /\ t.replica = f
      /\ t.index = s.index /\ t.shardID = s.shardID /\ t.replicaID = s.replicaID
      /\ t.host = s.host /\ t.shard = s.shard /\ t.byName = s.byName
      /\ t.panicked = s.panicked
  BY Zenon DEF Mid, StateType, StateFields
<1> HIDE DEF t
<1> QED
  BY <1>1 DEF Mid, StateType, HostRef, IDsAllocated, Entry

\* Writing a host row keeps Mid.
LEMMA hostPutMid ==
  ASSUME NEW s, Mid(s), NEW h \in Host, NEW row \in HostRow,
         row.Created <= row.Updated, row.Updated <= Entry(s)
  PROVE  Mid(hostPut(s, h, row)) /\ hostPut(s, h, row).index = s.index
<1> DEFINE f == With(s.host, h, row)
<1>1. IsTable(s.host, Host, HostRow) /\ RowTimes(s.host, Entry(s))
  BY Zenon DEF Mid, StateType
<1>2. IsTable(f, Host, HostRow) /\ DOMAIN s.host \subseteq DOMAIN f
  BY Zenon, <1>1 DEF IsTable, With
<1>3. RowTimes(f, Entry(s))
  BY Zenon, <1>1, WithTimes
<1>4. hostPut(s, h, row) = [s EXCEPT !.host = f]
  BY Zenon DEF hostPut
<1> HIDE DEF f
<1> QED
  BY <1>2, <1>3, <1>4, HostFrame

\* Touching hosts keeps Mid.
LEMMA hostTouchMid ==
  ASSUME NEW s, Mid(s), NEW hs
  PROVE  Mid(hostTouch(s, hs)) /\ hostTouch(s, hs).index = s.index
<1> DEFINE f == Touched(s.host, hs, Entry(s))
<1>1. IsTable(s.host, Host, HostRow) /\ RowTimes(s.host, Entry(s)) /\ Entry(s) \in Nat
  BY DEF Mid, StateType, Entry
<1>2. IsTable(f, Host, HostRow) /\ DOMAIN f = DOMAIN s.host
  BY Zenon, <1>1, TouchedHosts DEF Touched
<1>3. RowTimes(f, Entry(s))
  BY Zenon, <1>1, TouchedTimes DEF IsTable, HostRow
<1> HIDE DEF f
<1>4. CASE hs \subseteq DOMAIN s.host
  BY Zenon, <1>2, <1>3, <1>4, HostFrame DEF hostTouch, f
<1>5. CASE ~(hs \subseteq DOMAIN s.host)
  BY Zenon, <1>5 DEF hostTouch, Mid, StateType, StateFields, HostRef, IDsAllocated, Entry
<1> QED
  BY Zenon, <1>4, <1>5

\* The Name index without the entry of a row's name is still one.
LEMMA UnindexedTable ==
  ASSUME NEW s, Mid(s), NEW id
  PROVE  IsTable(Unindexed(s, id), Name, Nat)
BY Zenon, WithoutTable DEF Mid, StateType, Unindexed

\* Writing the row of a shard whose ID has been allocated keeps Mid.
LEMMA shardPutMid ==
  ASSUME NEW s, Mid(s), NEW id \in Nat, id <= s.shardID, NEW row \in ShardRow,
         row.Created <= row.Updated, row.Updated <= Entry(s)
  PROVE  Mid(shardPut(s, id, row)) /\ shardPut(s, id, row).index = s.index
<1> DEFINE t == shardPut(s, id, row)
           f == With(s.shard, id, row)
           b == IF row.Name = NoName THEN Unindexed(s, id)
                ELSE With(Unindexed(s, id), row.Name, id)
<1> SUFFICES Mid(t) /\ t.index = s.index
  OBVIOUS
<1>1. IsTable(s.shard, Nat, ShardRow) /\ RowTimes(s.shard, Entry(s))
  BY Zenon DEF Mid, StateType
<1>2. IsTable(f, Nat, ShardRow)
  BY Zenon, <1>1, WithTable
<1>3. RowTimes(f, Entry(s))
  BY Zenon, <1>1, WithTimes
<1>4. \A x \in DOMAIN f : x <= s.shardID
  BY Zenon DEF With, Mid, IDsAllocated
<1>5. IsTable(b, Name, Nat)
  <2>1. row.Name # NoName => row.Name \in Name
    BY Zenon DEF ShardRow
  <2> QED
    BY Zenon, <2>1, UnindexedTable, WithTable
<1>6. /\ DOMAIN t = StateFields /\ t.shard = f /\ t.byName = b
      /\ t.index = s.index /\ t.shardID = s.shardID /\ t.replicaID = s.replicaID
      /\ t.host = s.host /\ t.replica = s.replica /\ t.panicked = s.panicked
  BY Zenon DEF shardPut, Mid, StateType, StateFields
<1> HIDE DEF t, f, b
<1> QED
  BY Zenon, <1>2, <1>3, <1>4, <1>5, <1>6, ShardFrame

\* Touching a shard keeps Mid.
LEMMA shardTouchMid ==
  ASSUME NEW s, Mid(s), NEW id
  PROVE  Mid(shardTouch(s, id)) /\ shardTouch(s, id).index = s.index
<1> DEFINE row == [s.shard[id] EXCEPT !.Updated = Entry(s)]
<1>1. CASE id \in DOMAIN s.shard
  <2>1. /\ id \in Nat /\ id <= s.shardID /\ s.shard[id] \in ShardRow /\ Entry(s) \in Nat
        /\ s.shard[id].Created <= s.shard[id].Updated /\ s.shard[id].Updated <= Entry(s)
    BY Zenon, <1>1, Rows DEF Mid, StateType, Entry
  <2>2. row \in ShardRow
    BY Zenon, <2>1 DEF ShardRow
  <2>3. row.Created <= row.Updated /\ row.Updated <= Entry(s)
    BY <2>1 DEF ShardRow
  <2>4. shardTouch(s, id) = shardPut(s, id, row)
    BY Zenon, <1>1 DEF shardTouch
  <2> HIDE DEF row
  <2> QED
    BY <2>1, <2>2, <2>3, <2>4, shardPutMid
<1>2. CASE id \notin DOMAIN s.shard
  BY Zenon, <1>2 DEF shardTouch
<1> QED
  BY Zenon, <1>1, <1>2

\* Touching the shards of several replicas keeps Mid.
LEMMA shardTouchEachMid ==
  ASSUME NEW s, Mid(s), NEW rs \in SUBSET DOMAIN s.replica
  PROVE  Mid(shardTouchEach(s, rs)) /\ shardTouchEach(s, rs).index = s.index
<1> DEFINE t == shardTouchEach(s, rs)
           ids == ShardsOf(s, rs)
           f == Touched(s.shard, ids, Entry(s))
<1> SUFFICES Mid(t) /\ t.index = s.index
  OBVIOUS
<1>1. IsTable(s.shard, Nat, ShardRow) /\ RowTimes(s.shard, Entry(s)) /\ Entry(s) \in Nat
  BY DEF Mid, StateType, Entry
<1>2. IsTable(f, Nat, ShardRow) /\ DOMAIN f = DOMAIN s.shard
  BY Zenon, <1>1, TouchedShards DEF Touched
<1>3. RowTimes(f, Entry(s))
  BY Zenon, <1>1, TouchedTimes DEF IsTable, ShardRow
<1>4. /\ DOMAIN t = StateFields /\ t.shard = f
      /\ t.index = s.index /\ t.shardID = s.shardID /\ t.replicaID = s.replicaID
      /\ t.host = s.host /\ t.replica = s.replica /\ t.panicked = s.panicked
  BY shardTouchEachFields DEF Mid, StateType
<1>5. \A id \in DOMAIN f : id <= s.shardID
  BY Zenon, <1>2 DEF Mid, StateType, IDsAllocated
<1>6. IsTable(t.byName, Name, Nat)
  <2> DEFINE last(name) == CHOOSE r \in TouchedLast(s, rs, name) : TRUE
             names == {name \in Name : TouchedLast(s, rs, name) # {}}
             b == [name \in DOMAIN s.byName \cup names |->
                     IF name \in names THEN s.replica[last(name)].ShardID ELSE s.byName[name]]
  <2>1. t.byName = b
    BY Zenon DEF shardTouchEach, Mid, StateType, StateFields
  <2>2. ASSUME NEW name \in names PROVE s.replica[last(name)].ShardID \in Nat
    <3>1. last(name) \in TouchedLast(s, rs, name)
      BY Zenon, <2>2
    <3>2. last(name) \in DOMAIN s.replica
      BY Zenon, <3>1 DEF TouchedLast
    <3> QED
      BY Zenon, <3>2, Rows DEF ReplicaRow
  <2>3. IsTable(s.byName, Name, Nat) /\ names \subseteq Name
    BY Zenon DEF Mid, StateType
  <2> HIDE DEF last, names
  <2> QED
    BY <2>1, <2>2, <2>3 DEF IsTable
<1> HIDE DEF t, f
<1> QED
  BY Zenon, <1>2, <1>3, <1>4, <1>5, <1>6, ShardFrame

\* Deleting a shard row keeps Mid.
LEMMA shardDeleteMid ==
  ASSUME NEW s, Mid(s), NEW id
  PROVE  Mid(shardDelete(s, id)) /\ shardDelete(s, id).index = s.index
<1> DEFINE t == shardDelete(s, id)
           f == Without(s.shard, {id})
<1> SUFFICES Mid(t) /\ t.index = s.index
  OBVIOUS
<1>1. IsTable(s.shard, Nat, ShardRow) /\ RowTimes(s.shard, Entry(s))
  BY Zenon DEF Mid, StateType
<1>2. IsTable(f, Nat, ShardRow) /\ RowTimes(f, Entry(s))
  BY Zenon, <1>1, WithoutTable, WithoutTimes
<1>3. \A x \in DOMAIN f : x <= s.shardID
  BY Zenon DEF Without, Mid, IDsAllocated
<1>4. /\ DOMAIN t = StateFields /\ t.shard = f /\ t.byName = Unindexed(s, id)
      /\ t.index = s.index /\ t.shardID = s.shardID /\ t.replicaID = s.replicaID
      /\ t.host = s.host /\ t.replica = s.replica /\ t.panicked = s.panicked
  BY Zenon DEF shardDelete, Mid, StateType, StateFields
<1> HIDE DEF t, f
<1> QED
  BY Zenon, <1>2, <1>3, <1>4, UnindexedTable, ShardFrame

\* Writing the row of a replica whose ID has been allocated and whose host has a
\* row keeps Mid.
LEMMA replicaPutMid ==
  ASSUME NEW s, Mid(s), NEW r \in Nat, 0 < r, r <= s.replicaID, NEW row \in ReplicaRow,
         row.HostID \in DOMAIN s.host, row.Created <= row.Updated, row.Updated <= Entry(s)
  PROVE  Mid(replicaPut(s, r, row)) /\ replicaPut(s, r, row).index = s.index
<1> DEFINE f == With(s.replica, r, row)
<1>1. IsTable(s.replica, Nat, ReplicaRow) /\ RowTimes(s.replica, Entry(s))
  BY Zenon DEF Mid, StateType
<1>2. IsTable(f, Nat, ReplicaRow)
  BY Zenon, <1>1, WithTable
<1>3. RowTimes(f, Entry(s))
  BY Zenon, <1>1, WithTimes
<1>4. \A x \in DOMAIN f : f[x].HostID \in DOMAIN s.host /\ 0 < x /\ x <= s.replicaID
  BY Zenon DEF With, Mid, IDsAllocated, HostRef
<1>5. replicaPut(s, r, row) = [s EXCEPT !.replica = f]
  BY Zenon DEF replicaPut
<1> HIDE DEF f
<1> QED
  BY <1>2, <1>3, <1>4, <1>5, ReplicaFrame

\* Deleting replica rows keeps Mid.
LEMMA replicaDeleteMid ==
  ASSUME NEW s, Mid(s), NEW rs
  PROVE  Mid(replicaDelete(s, rs)) /\ replicaDelete(s, rs).index = s.index
<1> DEFINE f == Without(s.replica, rs)
<1>1. IsTable(s.replica, Nat, ReplicaRow) /\ RowTimes(s.replica, Entry(s))
  BY Zenon DEF Mid, StateType
<1>2. IsTable(f, Nat, ReplicaRow) /\ RowTimes(f, Entry(s))
  BY Zenon, <1>1, WithoutTable, WithoutTimes
<1>3. \A x \in DOMAIN f : f[x].HostID \in DOMAIN s.host /\ 0 < x /\ x <= s.replicaID
  BY Zenon DEF Without, Mid, IDsAllocated, HostRef
<1>4. replicaDelete(s, rs) = [s EXCEPT !.replica = f]
  BY Zenon DEF replicaDelete
<1> HIDE DEF f
<1> QED
  BY <1>2, <1>3, <1>4, ReplicaFrame

-----------------------------------------------------------------------------
(* Every command of Update takes a good state to a good state.              *)

\* A host put.
LEMMA HostPutGood ==
  ASSUME NEW s, Good(s), NEW h \in Host, NEW tags \in TagMap
  PROVE  Good(Commit(s, HostPut(s, h, tags)))
<1> DEFINE u   == shardTouchEach(s, ReplicasOfHost(s, h))
           row == IF h \in DOMAIN s.host
                  THEN [Created |-> s.host[h].Created, Updated |-> Entry(s),
                        Tags |-> tagsSetNX(tags, s.host[h].Tags)]
                  ELSE [Created |-> Entry(s), Updated |-> Entry(s), Tags |-> tags]
<1>1. Mid(s) /\ Mid(u) /\ u.index = s.index
  BY Zenon, GoodMid, shardTouchEachMid DEF ReplicasOfHost
<1>2. row \in HostRow /\ row.Created <= row.Updated /\ row.Updated <= Entry(u)
  <2>1. CASE h \in DOMAIN s.host
    <3>1. tagsSetNX(tags, s.host[h].Tags) \in TagMap
      BY Zenon, <1>1, <2>1, Rows, TagMaps DEF HostRow
    <3> QED
      BY <1>1, <2>1, <3>1, Rows DEF HostRow, Entry
  <2>2. CASE h \notin DOMAIN s.host
    BY <1>1, <2>2, Rows DEF HostRow, Entry
  <2> QED
    BY Zenon, <2>1, <2>2
<1>3. HostPut(s, h, tags) = hostPut(u, h, row)
  BY Zenon DEF HostPut
<1> HIDE DEF u, row
<1> QED
  BY Zenon, <1>1, <1>2, <1>3, hostPutMid, CommitGood

\* A host delete: its replicas go first.
LEMMA HostDelGood ==
  ASSUME NEW s, Good(s), NEW h \in Host
  PROVE  Good(Commit(s, HostDel(s, h)))
<1> DEFINE rs == ReplicasOfHost(s, h)
           v  == shardTouchEach(s, rs)
           u  == replicaDelete(v, rs)
           t  == [u EXCEPT !.host = Without(@, {h})]
<1>0. Mid(s) /\ Mid(v) /\ v.index = s.index /\ v.replica = s.replica
  BY GoodMid, shardTouchEachMid, shardTouchEachFields DEF ReplicasOfHost, Good, StateType
<1> HIDE DEF v
<1>1. Mid(s) /\ Mid(u) /\ u.index = s.index
  BY Zenon, <1>0, replicaDeleteMid
<1>2. /\ \A r \in DOMAIN u.replica : u.replica[r].HostID # h
      /\ DOMAIN u = StateFields
  BY Zenon, <1>0, <1>1 DEF replicaDelete, ReplicasOfHost, Without, Mid, StateType, StateFields
<1> HIDE DEF u
<1>3. Mid(t) /\ t.index = s.index
  <2>1. /\ DOMAIN t = StateFields /\ t.host = Without(u.host, {h})
        /\ t.index = u.index /\ t.shardID = u.shardID /\ t.replicaID = u.replicaID
        /\ t.shard = u.shard /\ t.replica = u.replica /\ t.byName = u.byName
        /\ t.panicked = u.panicked
    BY Zenon, <1>2 DEF StateFields
  <2>2. IsTable(t.host, Host, HostRow) /\ RowTimes(t.host, Entry(u))
    BY <1>1, <2>1, WithoutTable, WithoutTimes DEF Mid, StateType
  <2>3. \A r \in DOMAIN t.replica : t.replica[r].HostID \in DOMAIN t.host
    BY <1>1, <1>2, <2>1 DEF Without, Mid, HostRef
  <2> HIDE DEF t
  <2> QED
    BY Zenon, <1>1, <2>1, <2>2, <2>3 DEF Mid, StateType, HostRef, IDsAllocated, Entry
<1>4. HostDel(s, h) = IF h \in DOMAIN s.host THEN t ELSE s
  BY Zenon DEF HostDel, u, v
<1> HIDE DEF t
<1> QED
  BY Zenon, <1>1, <1>3, <1>4, CommitGood

\* A tag command on a host.
LEMMA HostTagsGood ==
  ASSUME NEW s, Good(s), NEW act \in TagAction, NEW h \in Host, NEW tags \in TagMap
  PROVE  Good(Commit(s, HostTags(s, act, h, tags)))
<1> DEFINE u   == shardTouchEach(s, ReplicasOfHost(s, h))
           row == [s.host[h] EXCEPT !.Tags = TagResult(act, @, tags)]
<1>1. Mid(s) /\ Mid(u) /\ u.index = s.index
  BY Zenon, GoodMid, shardTouchEachMid DEF ReplicasOfHost
<1>2. CASE h \in DOMAIN s.host /\ TagWritten(act, s.host[h].Tags, tags)
  <2>1. s.host[h] \in HostRow /\ TagResult(act, s.host[h].Tags, tags) \in TagMap
    BY Zenon, <1>1, <1>2, Rows, TagResults DEF HostRow
  <2>2. row \in HostRow /\ row.Created <= row.Updated /\ row.Updated <= Entry(u)
    BY Zenon, <1>1, <1>2, <2>1, Rows DEF HostRow, Entry
  <2>3. HostTags(s, act, h, tags) = hostPut(u, h, row)
    BY Zenon, <1>2 DEF HostTags
  <2> HIDE DEF u, row
  <2> QED
    BY Zenon, <1>1, <2>2, <2>3, hostPutMid, CommitGood
<1>3. CASE ~(h \in DOMAIN s.host /\ TagWritten(act, s.host[h].Tags, tags))
  BY Zenon, <1>1, <1>3, CommitGood DEF HostTags
<1> QED
  BY Zenon, <1>2, <1>3

\* A shard post: the ID comes from the counter, which it raises first.
LEMMA ShardPostGood ==
  ASSUME NEW s, Good(s), NEW name \in Name \cup {NoName}, NEW tags \in TagMap
  PROVE  Good(Commit(s, ShardPost(s, name, tags)))
<1> DEFINE id  == s.shardID + 1
           u   == [s EXCEPT !.shardID = id]
           row == [Created |-> Entry(s), Updated |-> Entry(s), Tags |-> tags,
                   Term |-> 0, Name |-> name]
<1>1. Mid(s) /\ Entry(s) \in Nat /\ s.shardID \in Nat
  BY Zenon, GoodMid DEF Good, StateType
<1>2. Mid(u) /\ u.index = s.index /\ id <= u.shardID /\ id \in Nat
  BY <1>1 DEF Mid, StateType, StateFields, HostRef, IDsAllocated, IsTable, Entry
<1>3. row \in ShardRow /\ row.Created <= row.Updated /\ row.Updated <= Entry(u)
  BY <1>1, <1>2 DEF ShardRow, Entry
<1>4. ShardPost(s, name, tags) = s \/ ShardPost(s, name, tags) = shardPut(u, id, row)
  BY Zenon DEF ShardPost
<1> HIDE DEF u, row, id
<1> QED
  BY Zenon, <1>1, <1>2, <1>3, <1>4, shardPutMid, CommitGood

\* A shard touch.
LEMMA ShardTouchMid ==
  ASSUME NEW s, Mid(s), NEW id
  PROVE  Mid(ShardTouch(s, id)) /\ ShardTouch(s, id).index = s.index
BY shardTouchMid, hostTouchMid DEF ShardTouch

\* A shard put: it replaces a row or creates the prime shard's.
LEMMA ShardPutGood ==
  ASSUME NEW s, Good(s), NEW id \in Nat, id <= s.shardID, NEW name \in Name \cup {NoName},
         NEW term \in Nat, NEW tags \in TagMap
  PROVE  Good(Commit(s, ShardPut(s, id, name, term, tags)))
<1> DEFINE hs  == HostsOf(s, ReplicasOfShard(s, id))
           row == [Created |-> IF id \in DOMAIN s.shard THEN s.shard[id].Created ELSE Entry(s),
                   Updated |-> Entry(s),
                   Tags |-> IF id \in DOMAIN s.shard THEN tagsSetNX(tags, s.shard[id].Tags)
                            ELSE tags,
                   Term |-> term, Name |-> name]
<1>1. Mid(s) /\ Entry(s) \in Nat
  BY Zenon, GoodMid
<1>2. row \in ShardRow /\ row.Created <= row.Updated /\ row.Updated <= Entry(s)
  <2>1. CASE id \in DOMAIN s.shard
    <3>1. tagsSetNX(tags, s.shard[id].Tags) \in TagMap
      BY Zenon, <1>1, <2>1, Rows, TagMaps DEF ShardRow
    <3> QED
      BY <1>1, <2>1, <3>1, Rows DEF ShardRow
  <2>2. CASE id \notin DOMAIN s.shard
    BY <1>1, <2>2 DEF ShardRow
  <2> QED
    BY Zenon, <2>1, <2>2
<1>3. \/ ShardPut(s, id, name, term, tags) = s
      \/ ShardPut(s, id, name, term, tags) = hostTouch(shardPut(s, id, row), hs)
  BY Zenon DEF ShardPut
<1> HIDE DEF row, hs
<1>4. Mid(shardPut(s, id, row)) /\ shardPut(s, id, row).index = s.index
  BY Zenon, <1>1, <1>2, shardPutMid
<1>5. /\ Mid(hostTouch(shardPut(s, id, row), hs))
      /\ hostTouch(shardPut(s, id, row), hs).index = s.index
  BY Zenon, <1>4, hostTouchMid
<1> QED
  BY Zenon, <1>1, <1>3, <1>5, CommitGood

\* A leader report.
LEMMA ShardLeaderSetGood ==
  ASSUME NEW s, Good(s), NEW id, NEW term \in Nat
  PROVE  Good(Commit(s, ShardLeaderSet(s, id, term)))
<1> DEFINE row == [s.shard[id] EXCEPT !.Term = term, !.Updated = Entry(s)]
<1>1. Mid(s) /\ Entry(s) \in Nat
  BY Zenon, GoodMid
<1>2. CASE id \in DOMAIN s.shard
  <2>1. row \in ShardRow /\ row.Created <= row.Updated /\ row.Updated <= Entry(s)
    <3>1. /\ s.shard[id] \in ShardRow
          /\ s.shard[id].Created <= s.shard[id].Updated /\ s.shard[id].Updated <= Entry(s)
      BY Zenon, <1>1, <1>2, Rows
    <3>2. row \in ShardRow
      BY Zenon, <1>1, <3>1 DEF ShardRow
    <3>3. row.Created = s.shard[id].Created /\ row.Updated = Entry(s)
      BY Zenon, <3>1 DEF ShardRow
    <3> QED
      BY <1>1, <3>1, <3>2, <3>3 DEF ShardRow
  <2>2. ShardLeaderSet(s, id, term) = shardPut(s, id, row)
    BY Zenon, <1>2 DEF ShardLeaderSet
  <2>3. id \in Nat /\ id <= s.shardID
    BY Zenon, <1>1, <1>2, Rows
  <2> HIDE DEF row
  <2> QED
    BY Zenon, <1>1, <2>1, <2>2, <2>3, shardPutMid, CommitGood
<1>3. CASE id \notin DOMAIN s.shard
  BY Zenon, <1>1, <1>3, CommitGood DEF ShardLeaderSet
<1> QED
  BY Zenon, <1>2, <1>3

\* A shard delete: its replicas go with it.
LEMMA ShardDelGood ==
  ASSUME NEW s, Good(s), NEW id
  PROVE  Good(Commit(s, ShardDel(s, id)))
<1> DEFINE rs == ReplicasOfShard(s, id)
           u  == hostTouch(replicaDelete(s, rs), HostsOf(s, rs))
<1>1. Mid(s) /\ Mid(u) /\ u.index = s.index
  BY GoodMid, replicaDeleteMid, hostTouchMid
<1>2. ShardDel(s, id) = IF id \in DOMAIN s.shard THEN shardDelete(u, id) ELSE s
  BY Zenon DEF ShardDel
<1> HIDE DEF u
<1> QED
  BY Zenon, <1>1, <1>2, shardDeleteMid, CommitGood

\* A tag command on a shard.
LEMMA ShardTagsGood ==
  ASSUME NEW s, Good(s), NEW act \in TagAction, NEW id, NEW tags \in TagMap
  PROVE  Good(Commit(s, ShardTags(s, act, id, tags)))
<1> DEFINE u   == hostTouch(s, HostsOf(s, ReplicasOfShard(s, id)))
           row == [s.shard[id] EXCEPT !.Tags = TagResult(act, @, tags)]
           p   == [s EXCEPT !.panicked = TRUE]
<1>1. Mid(s) /\ Mid(u) /\ u.index = s.index /\ u.shardID = s.shardID
  BY Zenon, GoodMid, hostTouchMid DEF hostTouch, Mid, StateType, StateFields
<1>2. p.panicked /\ p.index = s.index
  BY <1>1 DEF Mid, StateType, StateFields
<1>3. \/ ShardTags(s, act, id, tags) = s
      \/ ShardTags(s, act, id, tags) = p
      \/ id \in DOMAIN s.shard /\ ShardTags(s, act, id, tags) = shardPut(u, id, row)
  BY Zenon DEF ShardTags
<1>4. CASE id \in DOMAIN s.shard /\ ShardTags(s, act, id, tags) = shardPut(u, id, row)
  <2>1. s.shard[id] \in ShardRow /\ TagResult(act, s.shard[id].Tags, tags) \in TagMap
    BY Zenon, <1>1, <1>4, Rows, TagResults DEF ShardRow
  <2>2. row \in ShardRow /\ row.Created <= row.Updated /\ row.Updated <= Entry(u)
    BY Zenon, <1>1, <1>4, <2>1, Rows DEF ShardRow, Entry
  <2>3. id \in Nat /\ id <= u.shardID
    BY Zenon, <1>1, <1>4, Rows
  <2> HIDE DEF u, row
  <2> QED
    BY Zenon, <1>1, <1>4, <2>2, <2>3, shardPutMid, CommitGood
<1> HIDE DEF u, row, p
<1> QED
  BY Zenon, <1>1, <1>2, <1>3, <1>4, CommitGood

\* The touches for one replica.
LEMMA NotifyMid ==
  ASSUME NEW s, Mid(s), NEW r
  PROVE  Mid(Notify(s, r)) /\ Notify(s, r).index = s.index
BY hostTouchMid, shardTouchMid DEF Notify

\* A replica post.
LEMMA ReplicaPostGood ==
  ASSUME NEW s, Good(s), NEW h \in Host, NEW id \in Nat, NEW nonVoting \in BOOLEAN
  PROVE  Good(Commit(s, ReplicaPost(s, h, id, nonVoting)))
<1> DEFINE r == s.replicaID + 1
           u == [s EXCEPT !.replicaID = r]
           bootstraps == ~nonVoting /\ Cardinality(ShardMembers(s, id)) < BootstrapSize
           row == [Created |-> Entry(s), Updated |-> Entry(s),
                   Status |-> IF bootstraps THEN "bootstrapping" ELSE "joining",
                   HostID |-> h, IsNonVoting |-> nonVoting, ShardID |-> id]
           v == replicaPut(u, r, row)
           t == shardTouch(hostTouch(v, {h}), id)
<1>1. Mid(s) /\ Entry(s) \in Nat /\ s.replicaID \in Nat
  BY Zenon, GoodMid DEF Good, StateType
<1>2. Mid(u) /\ u.index = s.index /\ u.host = s.host /\ r \in Nat /\ 0 < r /\ r <= u.replicaID
  BY <1>1 DEF Mid, StateType, StateFields, HostRef, IDsAllocated, IsTable, Entry
<1>3. /\ row \in ReplicaRow /\ row.HostID = h
      /\ row.Created <= row.Updated /\ row.Updated <= Entry(u)
  BY <1>1, <1>2 DEF ReplicaRow, ReplicaStatus, Entry
<1>4. ReplicaPost(s, h, id, nonVoting) = t
  BY Zenon DEF ReplicaPost
<1>5. DOMAIN v = StateFields /\ v.host = s.host /\ v.index = s.index
  BY Zenon, <1>1 DEF replicaPut, Mid, StateType, StateFields
<1> HIDE DEF u, row, r
<1>6. CASE h \in DOMAIN s.host
  <2>1. Mid(v)
    BY Zenon, <1>2, <1>3, <1>6, replicaPutMid
  <2> HIDE DEF v
  <2>2. Mid(t) /\ t.index = s.index
    BY <1>5, <2>1, hostTouchMid, shardTouchMid
  <2> QED
    BY Zenon, <1>4, <2>2, CommitGood
<1>7. CASE h \notin DOMAIN s.host
  <2> HIDE DEF v
  <2> DEFINE w == hostTouch(v, {h})
  <2>1. DOMAIN w = StateFields /\ w.panicked /\ w.index = s.index
    BY Zenon, <1>5, <1>7 DEF hostTouch, StateFields
  <2>2. t = shardTouch(w, id)
    OBVIOUS
  <2> HIDE DEF t, w
  <2>3. t.panicked /\ t.index = s.index
    BY Zenon, <2>1, <2>2, shardTouchFields
  <2> QED
    BY Zenon, <1>4, <2>3, CommitGood
<1> QED
  BY Zenon, <1>6, <1>7

\* A replica status update.
LEMMA ReplicaStatusUpdateGood ==
  ASSUME NEW s, Good(s), NEW r, NEW status \in ReplicaStatus
  PROVE  Good(Commit(s, ReplicaStatusUpdate(s, r, status)))
<1> DEFINE row == [s.replica[r] EXCEPT !.Status = status]
<1>1. Mid(s)
  BY Zenon, GoodMid
<1>2. CASE r \in DOMAIN s.replica
  <2>1. /\ s.replica[r] \in ReplicaRow /\ s.replica[r].HostID \in DOMAIN s.host
        /\ r \in Nat /\ 0 < r /\ r <= s.replicaID
        /\ s.replica[r].Created <= s.replica[r].Updated /\ s.replica[r].Updated <= Entry(s)
    BY Zenon, <1>1, <1>2, Rows
  <2>2. /\ row \in ReplicaRow /\ row.HostID \in DOMAIN s.host
        /\ row.Created <= row.Updated /\ row.Updated <= Entry(s)
    BY Zenon, <2>1 DEF ReplicaRow
  <2>3. ReplicaStatusUpdate(s, r, status) = Notify(replicaPut(s, r, row), r)
    BY Zenon, <1>2 DEF ReplicaStatusUpdate
  <2> HIDE DEF row
  <2>4. Mid(replicaPut(s, r, row)) /\ replicaPut(s, r, row).index = s.index
    BY Zenon, <1>1, <2>1, <2>2, replicaPutMid
  <2> QED
    BY Zenon, <2>3, <2>4, NotifyMid, CommitGood
<1>3. CASE r \notin DOMAIN s.replica
  BY Zenon, <1>1, <1>3, CommitGood DEF ReplicaStatusUpdate
<1> QED
  BY Zenon, <1>2, <1>3

\* A replica put, which may name another host or shard.
LEMMA ReplicaPutGood ==
  ASSUME NEW s, Good(s), NEW r, NEW h \in Host, NEW id \in Nat, NEW nonVoting \in BOOLEAN
  PROVE  Good(Commit(s, ReplicaPut(s, r, h, id, nonVoting)))
<1> DEFINE row == [Created |-> s.replica[r].Created, Updated |-> Entry(s), Status |-> "none",
                   HostID |-> h, IsNonVoting |-> nonVoting, ShardID |-> id]
           v == replicaPut(s, r, row)
<1>1. Mid(s) /\ Entry(s) \in Nat
  BY Zenon, GoodMid
<1>2. CASE r \in DOMAIN s.replica
  <2>1. /\ s.replica[r] \in ReplicaRow
        /\ r \in Nat /\ 0 < r /\ r <= s.replicaID
        /\ s.replica[r].Created <= s.replica[r].Updated /\ s.replica[r].Updated <= Entry(s)
    BY Zenon, <1>1, <1>2, Rows
  <2>2. /\ row \in ReplicaRow /\ row.HostID = h /\ row.ShardID = id
        /\ row.Created <= row.Updated /\ row.Updated <= Entry(s)
    BY <1>1, <2>1 DEF ReplicaRow, ReplicaStatus
  <2>3. ReplicaPut(s, r, h, id, nonVoting) = Notify(v, r)
    BY Zenon, <1>2 DEF ReplicaPut
  <2> HIDE DEF row
  <2>4. /\ DOMAIN v = StateFields /\ v.host = s.host /\ v.index = s.index
        /\ v.replica[r] = row
    BY Zenon, <1>1 DEF replicaPut, With, Mid, StateType, StateFields
  <2>5. CASE h \in DOMAIN s.host
    <3>1. Mid(v)
      BY Zenon, <1>1, <2>1, <2>2, <2>5, replicaPutMid
    <3> HIDE DEF v
    <3> QED
      BY Zenon, <2>3, <2>4, <3>1, NotifyMid, CommitGood
  <2>6. CASE h \notin DOMAIN s.host
    <3> HIDE DEF v
    <3> DEFINE w == hostTouch(v, {h})
               t == Notify(v, r)
    <3>1. t = shardTouch(w, id)
      BY Zenon, <2>2, <2>4 DEF Notify
    <3>a. DOMAIN w = StateFields /\ w.panicked /\ w.index = s.index
      BY Zenon, <2>4, <2>6 DEF hostTouch, StateFields
    <3> HIDE DEF w, t
    <3>b. t.panicked /\ t.index = s.index
      BY <3>1, <3>a, shardTouchFields
    <3>2. Notify(v, r).panicked /\ Notify(v, r).index = s.index
      BY Zenon, <3>b DEF t
    <3> QED
      BY Zenon, <2>3, <3>2, CommitGood
  <2> QED
    BY Zenon, <2>5, <2>6
<1>3. CASE r \notin DOMAIN s.replica
  BY Zenon, <1>1, <1>3, CommitGood DEF ReplicaPut
<1> QED
  BY Zenon, <1>2, <1>3

\* A replica delete.
LEMMA ReplicaDelGood ==
  ASSUME NEW s, Good(s), NEW r
  PROVE  Good(Commit(s, ReplicaDel(s, r)))
<1>1. Mid(s) /\ Mid(Notify(s, r)) /\ Notify(s, r).index = s.index
  BY Zenon, GoodMid, NotifyMid
<1> QED
  BY Zenon, <1>1, replicaDeleteMid, CommitGood DEF ReplicaDel

\* A tag command on a replica.
LEMMA ReplicaTagsGood ==
  ASSUME NEW s, Good(s), NEW act, NEW r, NEW tags
  PROVE  Good(Commit(s, ReplicaTags(s, act, r, tags)))
<1> DEFINE p == [s EXCEPT !.panicked = TRUE]
<1>1. Mid(s) /\ Mid(Notify(s, r)) /\ Notify(s, r).index = s.index
  BY Zenon, GoodMid, NotifyMid
<1>2. p.panicked /\ p.index = s.index
  BY Zenon, <1>1 DEF Mid, StateType, StateFields
<1>3. ReplicaTags(s, act, r, tags) \in {s, p, Notify(s, r)}
  BY Zenon DEF ReplicaTags
<1> HIDE DEF p
<1> QED
  BY Zenon, <1>1, <1>2, <1>3, CommitGood

\* A new registry is well formed.
LEMMA EmptyGood == Good(EmptyState)
BY Zenon DEF Good, EmptyState, EmptyTable, StateType, StateFields, IsTable, HostRef,
       IDsAllocated, Watermark, RowTimes

-----------------------------------------------------------------------------
(* What a command does to the replica table and to the set of hosts.        *)

ReplicaFields == {"Created", "Updated", "Status", "HostID", "IsNonVoting", "ShardID"}

\* hostTouch panics on a host without a row, and then only.
LEMMA hostTouchPanics ==
  ASSUME NEW s, DOMAIN s = StateFields, NEW hs, NEW t, t = hostTouch(s, hs)
  PROVE  /\ hs \subseteq DOMAIN s.host /\ t.panicked => s.panicked
         /\ ~(hs \subseteq DOMAIN s.host) => t.panicked
         /\ DOMAIN t.host = DOMAIN s.host
BY Zenon DEF hostTouch, StateFields, Touched

\* A host put adds the host and leaves the replicas alone.
LEMMA HostPutEffect ==
  ASSUME NEW s, DOMAIN s = StateFields, NEW h, NEW tags, NEW t, t = HostPut(s, h, tags)
  PROVE  /\ DOMAIN t = StateFields /\ (t.panicked => s.panicked)
         /\ t.replica = s.replica /\ t.replicaID = s.replicaID
         /\ DOMAIN t.host = DOMAIN s.host \cup {h}
<1> DEFINE u   == shardTouchEach(s, ReplicasOfHost(s, h))
           row == IF h \in DOMAIN s.host
                  THEN [Created |-> s.host[h].Created, Updated |-> Entry(s),
                        Tags |-> tagsSetNX(tags, s.host[h].Tags)]
                  ELSE [Created |-> Entry(s), Updated |-> Entry(s), Tags |-> tags]
<1>1. /\ DOMAIN u = StateFields /\ (u.panicked => s.panicked)
      /\ u.replica = s.replica /\ u.replicaID = s.replicaID /\ u.host = s.host
  BY shardTouchEachFields
<1>2. t = hostPut(u, h, row)
  BY Zenon DEF HostPut
<1> HIDE DEF u, row
<1>3. /\ DOMAIN t = StateFields /\ (t.panicked => u.panicked)
      /\ t.replica = u.replica /\ t.replicaID = u.replicaID
      /\ t.host = With(u.host, h, row)
  BY <1>1, <1>2, hostPutFields
<1> QED
  BY Zenon, <1>1, <1>3 DEF With

\* A shard post leaves hosts and replicas alone.
LEMMA ShardPostEffect ==
  ASSUME NEW s, DOMAIN s = StateFields, NEW name, NEW tags, NEW t, t = ShardPost(s, name, tags)
  PROVE  /\ DOMAIN t = StateFields /\ (t.panicked => s.panicked)
         /\ t.replica = s.replica /\ t.replicaID = s.replicaID /\ t.host = s.host
<1> DEFINE u == [s EXCEPT !.shardID = s.shardID + 1]
<1>1. /\ DOMAIN u = StateFields /\ (u.panicked => s.panicked)
      /\ u.replica = s.replica /\ u.replicaID = s.replicaID /\ u.host = s.host
  BY Zenon DEF StateFields
<1>2. t = s \/ \E id, row : t = shardPut(u, id, row)
  BY Zenon DEF ShardPost
<1> HIDE DEF u
<1> QED
  BY <1>1, <1>2, shardPutFields

\* A shard put leaves the replicas and the set of hosts alone.  It does not panic
\* while every replica's host has a row.
LEMMA ShardPutEffect ==
  ASSUME NEW s, DOMAIN s = StateFields, NEW id, NEW name, NEW term, NEW tags,
         NEW t, t = ShardPut(s, id, name, term, tags)
  PROVE  /\ DOMAIN t = StateFields
         /\ t.replica = s.replica /\ t.replicaID = s.replicaID
         /\ DOMAIN t.host = DOMAIN s.host
         /\ HostRef(s) /\ t.panicked => s.panicked
<1> DEFINE hs == HostsOf(s, ReplicasOfShard(s, id))
<1>1. t = s \/ \E row : t = hostTouch(shardPut(s, id, row), hs)
  BY Zenon DEF ShardPut
<1>2. HostRef(s) => hs \subseteq DOMAIN s.host
  BY Zenon DEF HostRef, HostsOf, ReplicasOfShard
<1> HIDE DEF hs
<1>3. ASSUME NEW row, t = hostTouch(shardPut(s, id, row), hs)
      PROVE  /\ DOMAIN t = StateFields
             /\ t.replica = s.replica /\ t.replicaID = s.replicaID
             /\ DOMAIN t.host = DOMAIN s.host
             /\ HostRef(s) /\ t.panicked => s.panicked
  <2> DEFINE u == shardPut(s, id, row)
  <2>1. /\ DOMAIN u = StateFields /\ (u.panicked => s.panicked)
        /\ u.replica = s.replica /\ u.replicaID = s.replicaID /\ u.host = s.host
    BY shardPutFields
  <2> HIDE DEF u
  <2>2. t = hostTouch(u, hs)
    BY Zenon, <1>3 DEF u
  <2> QED
    BY <1>2, <2>1, <2>2, hostTouchFields, hostTouchPanics
<1> QED
  BY Zenon, <1>1, <1>3

\* A leader report leaves hosts and replicas alone.
LEMMA ShardLeaderSetEffect ==
  ASSUME NEW s, DOMAIN s = StateFields, NEW id, NEW term, NEW t, t = ShardLeaderSet(s, id, term)
  PROVE  /\ DOMAIN t = StateFields /\ (t.panicked => s.panicked)
         /\ t.replica = s.replica /\ t.replicaID = s.replicaID /\ t.host = s.host
<1>1. t = s \/ \E row : t = shardPut(s, id, row)
  BY Zenon DEF ShardLeaderSet
<1> QED
  BY <1>1, shardPutFields

\* A tag command on a shard leaves the replicas and the set of hosts alone.
LEMMA ShardTagsEffect ==
  ASSUME NEW s, DOMAIN s = StateFields, NEW act, NEW id, NEW tags,
         NEW t, t = ShardTags(s, act, id, tags)
  PROVE  /\ DOMAIN t = StateFields
         /\ t.replica = s.replica /\ t.replicaID = s.replicaID
         /\ DOMAIN t.host = DOMAIN s.host
<1> DEFINE u == hostTouch(s, HostsOf(s, ReplicasOfShard(s, id)))
<1>1. \/ t \in {s, [s EXCEPT !.panicked = TRUE]}
      \/ \E row : t = shardPut(u, id, row)
  BY Zenon DEF ShardTags
<1>2. /\ DOMAIN u = StateFields
      /\ u.replica = s.replica /\ u.replicaID = s.replicaID
      /\ DOMAIN u.host = DOMAIN s.host
  BY hostTouchFields, hostTouchPanics
<1> HIDE DEF u
<1>3. CASE t \in {s, [s EXCEPT !.panicked = TRUE]}
  BY Zenon, <1>3 DEF StateFields
<1>4. CASE \E row : t = shardPut(u, id, row)
  BY <1>2, <1>4, shardPutFields
<1> QED
  BY Zenon, <1>1, <1>3, <1>4

\* A replica post adds one row under the next ID, or panics if the host has no row.
LEMMA ReplicaPostEffect ==
  ASSUME NEW s, DOMAIN s = StateFields, NEW h, NEW id, NEW nonVoting,
         NEW t, t = ReplicaPost(s, h, id, nonVoting)
  PROVE  /\ DOMAIN t = StateFields /\ t.replicaID = s.replicaID + 1
         /\ DOMAIN t.host = DOMAIN s.host
         /\ h \in DOMAIN s.host /\ t.panicked => s.panicked
         /\ h \notin DOMAIN s.host => t.panicked
         /\ \E row : /\ t.replica = With(s.replica, s.replicaID + 1, row)
                     /\ DOMAIN row = ReplicaFields /\ row.HostID = h
                     /\ row.Status \in {"bootstrapping", "joining"}
<1> DEFINE r == s.replicaID + 1
           bootstraps == ~nonVoting /\ Cardinality(ShardMembers(s, id)) < BootstrapSize
           status == IF bootstraps THEN "bootstrapping" ELSE "joining"
           row == [Created |-> Entry(s), Updated |-> Entry(s), Status |-> status,
                   HostID |-> h, IsNonVoting |-> nonVoting, ShardID |-> id]
           u == [s EXCEPT !.replicaID = r]
           v == replicaPut(u, r, row)
           w == hostTouch(v, {h})
<1>1. /\ DOMAIN u = StateFields /\ (u.panicked => s.panicked)
      /\ u.replica = s.replica /\ u.replicaID = r /\ u.host = s.host
  BY Zenon DEF StateFields
<1>2. t = shardTouch(w, id)
  BY Zenon DEF ReplicaPost
<1>3. /\ DOMAIN row = ReplicaFields /\ row.HostID = h
      /\ row.Status \in {"bootstrapping", "joining"}
  BY Zenon DEF ReplicaFields
<1> HIDE DEF row, u
<1>4. /\ DOMAIN v = StateFields /\ (v.panicked => s.panicked)
      /\ v.replica = With(s.replica, r, row) /\ v.replicaID = r /\ v.host = s.host
  BY <1>1, replicaPutFields
<1> HIDE DEF v
<1>5. /\ DOMAIN w = StateFields
      /\ {h} \subseteq DOMAIN s.host /\ w.panicked => s.panicked
      /\ ~({h} \subseteq DOMAIN s.host) => w.panicked
      /\ w.replica = With(s.replica, r, row) /\ w.replicaID = r
      /\ DOMAIN w.host = DOMAIN s.host
  BY <1>4, hostTouchFields, hostTouchPanics
<1> HIDE DEF w
<1>6. /\ DOMAIN t = StateFields /\ (t.panicked <=> w.panicked)
      /\ t.replica = w.replica /\ t.replicaID = w.replicaID /\ t.host = w.host
  BY <1>2, <1>5, shardTouchFields
<1> QED
  BY Zenon, <1>3, <1>5, <1>6

\* The touches for one replica leave the replicas and the set of hosts alone.
LEMMA NotifyEffect ==
  ASSUME NEW s, DOMAIN s = StateFields, NEW r, NEW t, t = Notify(s, r)
  PROVE  /\ DOMAIN t = StateFields
         /\ t.replica = s.replica /\ t.replicaID = s.replicaID
         /\ DOMAIN t.host = DOMAIN s.host
         /\ s.replica[r].HostID \in DOMAIN s.host /\ t.panicked => s.panicked
<1> DEFINE hs == {s.replica[r].HostID}
           u == hostTouch(s, hs)
<1>1. /\ DOMAIN u = StateFields
      /\ u.replica = s.replica /\ u.replicaID = s.replicaID
      /\ DOMAIN u.host = DOMAIN s.host
      /\ hs \subseteq DOMAIN s.host /\ u.panicked => s.panicked
  BY hostTouchFields, hostTouchPanics
<1>2. t = shardTouch(u, s.replica[r].ShardID)
  BY Zenon DEF Notify
<1> HIDE DEF u
<1>3. /\ DOMAIN t = StateFields /\ (t.panicked => u.panicked)
      /\ t.replica = u.replica /\ t.replicaID = u.replicaID /\ t.host = u.host
  BY <1>1, <1>2, shardTouchFields
<1> QED
  BY Zenon, <1>1, <1>3

\* A status update changes the status of one replica, if it has a row.
LEMMA ReplicaStatusUpdateEffect ==
  ASSUME NEW s, DOMAIN s = StateFields, NEW r, NEW status,
         r \in DOMAIN s.replica => "HostID" \in DOMAIN s.replica[r],
         NEW t, t = ReplicaStatusUpdate(s, r, status)
  PROVE  /\ DOMAIN t = StateFields /\ t.replicaID = s.replicaID
         /\ DOMAIN t.host = DOMAIN s.host
         /\ t.replica = IF r \in DOMAIN s.replica
                        THEN With(s.replica, r, [s.replica[r] EXCEPT !.Status = status])
                        ELSE s.replica
         /\ HostRef(s) /\ t.panicked => s.panicked
<1>1. CASE r \in DOMAIN s.replica
  <2> DEFINE row == [s.replica[r] EXCEPT !.Status = status]
             u == replicaPut(s, r, row)
  <2>1. row.HostID = s.replica[r].HostID
    BY Zenon, <1>1
  <2>2. t = Notify(u, r)
    BY Zenon, <1>1 DEF ReplicaStatusUpdate
  <2> HIDE DEF row
  <2>3. /\ DOMAIN u = StateFields /\ (u.panicked => s.panicked)
        /\ u.replica = With(s.replica, r, row) /\ u.replicaID = s.replicaID
        /\ u.host = s.host
    BY replicaPutFields
  <2>4. u.replica[r] = row
    BY Zenon, <2>3 DEF With
  <2> HIDE DEF u
  <2>5. HostRef(s) => u.replica[r].HostID \in DOMAIN u.host
    BY Zenon, <1>1, <2>1, <2>3, <2>4 DEF HostRef
  <2>6. /\ DOMAIN t = StateFields
        /\ t.replica = u.replica /\ t.replicaID = u.replicaID
        /\ DOMAIN t.host = DOMAIN u.host
        /\ u.replica[r].HostID \in DOMAIN u.host /\ t.panicked => u.panicked
    BY Zenon, <2>2, <2>3, NotifyEffect
  <2>7. t.replica = With(s.replica, r, [s.replica[r] EXCEPT !.Status = status])
    BY Zenon, <2>3, <2>6 DEF row
  <2> QED
    BY Zenon, <1>1, <2>3, <2>5, <2>6, <2>7
<1>2. CASE r \notin DOMAIN s.replica
  BY Zenon, <1>2 DEF ReplicaStatusUpdate
<1> QED
  BY Zenon, <1>1, <1>2

\* A replica delete removes one row.
LEMMA ReplicaDelEffect ==
  ASSUME NEW s, DOMAIN s = StateFields, NEW r, NEW t, t = ReplicaDel(s, r)
  PROVE  /\ DOMAIN t = StateFields /\ t.replicaID = s.replicaID
         /\ DOMAIN t.host = DOMAIN s.host
         /\ t.replica = s.replica \/ t.replica = Without(s.replica, {r})
<1> DEFINE u == Notify(s, r)
<1>1. /\ DOMAIN u = StateFields
      /\ u.replica = s.replica /\ u.replicaID = s.replicaID
      /\ DOMAIN u.host = DOMAIN s.host
  BY NotifyEffect
<1>2. t = s \/ t = replicaDelete(u, {r})
  BY Zenon DEF ReplicaDel
<1> HIDE DEF u
<1> QED
  BY <1>1, <1>2, replicaDeleteFields

-----------------------------------------------------------------------------
(* Where only hosts and replicas are added, those that are there stay.      *)

\* Registry t has what registry s has: its hosts, and its replicas on the same hosts.
Grows(s, t) ==
    /\ Good(t) /\ ~t.panicked /\ DOMAIN s.host \subseteq DOMAIN t.host
    /\ \A r \in DOMAIN s.replica :
         r \in DOMAIN t.replica /\ t.replica[r].HostID = s.replica[r].HostID

\* The commit of a state that has not panicked changes no table.
LEMMA CommitTables ==
  ASSUME NEW s, NEW t, DOMAIN t = StateFields, ~t.panicked, NEW u, u = Commit(s, t)
  PROVE  ~u.panicked /\ u.host = t.host /\ u.replica = t.replica /\ u.replicaID = t.replicaID
BY Zenon DEF Commit, StateFields

\* A registry that does not change has what it had.
LEMMA GrowsItself ==
  ASSUME NEW s, Good(s), ~s.panicked PROVE Grows(s, s)
BY Zenon DEF Grows

\* A host put adds its host.
LEMMA HostPutGrows ==
  ASSUME NEW s, Good(s), ~s.panicked, NEW h \in Host, NEW tags \in TagMap,
         NEW u, u = Commit(s, HostPut(s, h, tags))
  PROVE  Grows(s, u) /\ h \in DOMAIN u.host
<1> DEFINE t == HostPut(s, h, tags)
<1>1. Good(u)
  BY Zenon, HostPutGood
<1>2. /\ DOMAIN t = StateFields /\ ~t.panicked /\ t.replica = s.replica
      /\ DOMAIN t.host = DOMAIN s.host \cup {h}
  BY HostPutEffect DEF Good, StateType
<1>3. u = Commit(s, t)
  OBVIOUS
<1> HIDE DEF t
<1>4. ~u.panicked /\ u.host = t.host /\ u.replica = t.replica
  BY <1>2, <1>3, CommitTables
<1> QED
  BY Zenon, <1>1, <1>2, <1>4 DEF Grows

\* A shard put adds no host and no replica.
LEMMA ShardPutGrows ==
  ASSUME NEW s, Good(s), ~s.panicked, NEW id \in Nat, id <= s.shardID,
         NEW name \in Name \cup {NoName}, NEW term \in Nat, NEW tags \in TagMap,
         NEW u, u = Commit(s, ShardPut(s, id, name, term, tags))
  PROVE  Grows(s, u)
<1> DEFINE t == ShardPut(s, id, name, term, tags)
<1>1. Good(u)
  BY Zenon, ShardPutGood
<1>2. /\ DOMAIN t = StateFields /\ ~t.panicked /\ t.replica = s.replica
      /\ DOMAIN t.host = DOMAIN s.host
  BY ShardPutEffect DEF Good, StateType
<1>3. u = Commit(s, t)
  OBVIOUS
<1> HIDE DEF t
<1>4. ~u.panicked /\ u.host = t.host /\ u.replica = t.replica
  BY <1>2, <1>3, CommitTables
<1> QED
  BY Zenon, <1>1, <1>2, <1>4 DEF Grows

\* A replica post to a host that has a row adds a replica of that host.
LEMMA ReplicaPostGrows ==
  ASSUME NEW s, Good(s), ~s.panicked, NEW h \in Host, h \in DOMAIN s.host,
         NEW id \in Nat, NEW nonVoting \in BOOLEAN,
         NEW u, u = Commit(s, ReplicaPost(s, h, id, nonVoting))
  PROVE  /\ Grows(s, u)
         /\ s.replicaID + 1 \in DOMAIN u.replica
         /\ u.replica[s.replicaID + 1].HostID = h
<1> DEFINE t == ReplicaPost(s, h, id, nonVoting)
           r == s.replicaID + 1
<1>1. Good(u)
  BY Zenon, ReplicaPostGood
<1>2. DOMAIN s = StateFields /\ s.replicaID \in Nat /\ \A q \in DOMAIN s.replica : q <= s.replicaID
  BY Zenon DEF Good, StateType, IDsAllocated
<1>3. t = ReplicaPost(s, h, id, nonVoting) /\ u = Commit(s, t)
  OBVIOUS
<1> HIDE DEF t
<1>4. /\ DOMAIN t = StateFields /\ ~t.panicked /\ DOMAIN t.host = DOMAIN s.host
      /\ \E row : t.replica = With(s.replica, r, row) /\ row.HostID = h
  BY <1>2, <1>3, ReplicaPostEffect
<1>5. ~u.panicked /\ u.host = t.host /\ u.replica = t.replica
  BY <1>3, <1>4, CommitTables
<1>6. r \notin DOMAIN s.replica
  BY <1>1, <1>2 DEF Good, StateType, IsTable
<1> HIDE DEF r
<1>7. Grows(s, u) /\ r \in DOMAIN u.replica /\ u.replica[r].HostID = h
  BY <1>1, <1>4, <1>5, <1>6 DEF Grows, With
<1> QED
  BY Zenon, <1>7 DEF r

\* A status update moves no replica.
LEMMA ReplicaStatusUpdateGrows ==
  ASSUME NEW s, Good(s), ~s.panicked, NEW r, NEW status \in ReplicaStatus,
         NEW u, u = Commit(s, ReplicaStatusUpdate(s, r, status))
  PROVE  Grows(s, u)
<1> DEFINE t == ReplicaStatusUpdate(s, r, status)
           row == [s.replica[r] EXCEPT !.Status = status]
<1>1. Good(u)
  BY Zenon, ReplicaStatusUpdateGood
<1>2. /\ DOMAIN s = StateFields /\ HostRef(s)
      /\ r \in DOMAIN s.replica =>
           "HostID" \in DOMAIN s.replica[r] /\ row.HostID = s.replica[r].HostID
  BY Zenon DEF Good, StateType, IsTable, ReplicaRow
<1>3. /\ DOMAIN t = StateFields /\ ~t.panicked /\ DOMAIN t.host = DOMAIN s.host
      /\ t.replica = IF r \in DOMAIN s.replica THEN With(s.replica, r, row) ELSE s.replica
  BY <1>2, ReplicaStatusUpdateEffect
<1>4. u = Commit(s, t)
  OBVIOUS
<1> HIDE DEF t, row
<1>5. ~u.panicked /\ u.host = t.host /\ u.replica = t.replica
  BY <1>3, <1>4, CommitTables
<1> QED
  BY <1>1, <1>2, <1>3, <1>5 DEF Grows, With
=============================================================================
