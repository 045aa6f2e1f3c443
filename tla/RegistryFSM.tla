----------------------------- MODULE RegistryFSM -----------------------------
(***************************************************************************)
(* The registry of raft shard 0: fsm.go (Update and the tag helpers),      *)
(* fsm_state_radix.go (the tables) and the commands of fsm_cmd.go, as      *)
(* operators from a registry state to the next one.                        *)
(*                                                                         *)
(* A registry state s is a record with the meta values index, shardID and  *)
(* replicaID, the tables host, shard and replica (a table is a function    *)
(* whose domain is the set of ids it has a row for), the unique Name index *)
(* byName of the shard table, and panicked, true once Update has panicked. *)
(*                                                                         *)
(* Left out of the rows: addresses, shard types and host and shard status, *)
(* which Update copies and never reads, and the meta value hostID, which   *)
(* HostPut writes and no code reads.  A shard's Term stands for its        *)
(* (Leader, Term) pair, which is always written as one.  A replica's Tags  *)
(* map is nil in every command that creates or replaces a replica, so      *)
(* replica rows have no Tags; the Tags of shard 0 are nil likewise.        *)
(***************************************************************************)
EXTENDS Naturals, FiniteSets

CONSTANTS
    Host,        \* host IDs
    Name,        \* non-empty shard names
    NoName,      \* the empty shard name
    TagKey,      \* keys of host and shard tags
    TagValue     \* values of host and shard tags

ASSUME NameAssumption == NoName \notin Name

\* Shard 0 holds the registry itself.
PrimeShard == 0

\* The first voting replicas posted to a shard bootstrap it, later ones join.
BootstrapSize == 3

TagMap == UNION {[K -> TagValue] : K \in SUBSET TagKey}
TagAction == {"set", "setnx", "remove"}
ReplicaStatus == {"bootstrapping", "joining", "active", "none"}

HostRow == [Created : Nat, Updated : Nat, Tags : TagMap]
ShardRow == [Created : Nat, Updated : Nat, Tags : TagMap,
             Term : Nat, Name : Name \cup {NoName}]
ReplicaRow == [Created : Nat, Updated : Nat, Status : ReplicaStatus,
               HostID : Host, IsNonVoting : BOOLEAN, ShardID : Nat]

-----------------------------------------------------------------------------
(* Tables.                                                                  *)

EmptyTable == [x \in {} |-> x]

IsTable(t, Key, Row) == DOMAIN t \subseteq Key /\ t \in [DOMAIN t -> Row]

With(t, x, row) == [y \in DOMAIN t \cup {x} |-> IF y = x THEN row ELSE t[y]]

Without(t, ids) == [x \in DOMAIN t \ ids |-> t[x]]

Touched(t, ids, i) ==
    [x \in DOMAIN t |-> IF x \in ids THEN [t[x] EXCEPT !.Updated = i] ELSE t[x]]

\* newFsmStateRadix: no rows, every meta value zero.
EmptyState ==
    [index |-> 0, shardID |-> 0, replicaID |-> 0, panicked |-> FALSE,
     host |-> EmptyTable, shard |-> EmptyTable, replica |-> EmptyTable,
     byName |-> EmptyTable]

\* The index of the entry being applied.
Entry(s) == s.index + 1

\* Mutant: the index is not recorded.
CommitWithoutIndex(s, t) == IF t.panicked THEN [s EXCEPT !.panicked = TRUE] ELSE t

\* The end of Update: the index is recorded and the transaction committed.  A
\* panic ends the process, and with it the tables it has in memory.
Commit(s, t) ==
    IF t.panicked THEN [s EXCEPT !.panicked = TRUE] ELSE [t EXCEPT !.index = Entry(s)]

-----------------------------------------------------------------------------
(* Reading and writing rows.                                                *)

ReplicasOfHost(s, h) == {r \in DOMAIN s.replica : s.replica[r].HostID = h}
ReplicasOfShard(s, id) == {r \in DOMAIN s.replica : s.replica[r].ShardID = id}
ShardMembers(s, id) == {r \in ReplicasOfShard(s, id) : ~s.replica[r].IsNonVoting}

HostsOf(s, rs) == {s.replica[r].HostID : r \in rs}
ShardsOf(s, rs) == {s.replica[r].ShardID : r \in rs}

ShardFindByName(s, name) == name \in DOMAIN s.byName

hostPut(s, h, row) == [s EXCEPT !.host = With(@, h, row)]

\* hostTouch panics on a host that has no row.
hostTouch(s, hs) ==
    IF hs \subseteq DOMAIN s.host
    THEN [s EXCEPT !.host = Touched(@, hs, Entry(s))]
    ELSE [s EXCEPT !.panicked = TRUE]

\* The Name index as go-memdb keeps a unique index: inserting a row removes the
\* entry of the name the row had before and overwrites the entry of its name,
\* deleting a row removes the entry of its name, whichever row either points to.
Unindexed(s, id) ==
    IF id \in DOMAIN s.shard THEN Without(s.byName, {s.shard[id].Name}) ELSE s.byName

\* Mutant: shards without a name are indexed too.
shardPutIndexesNoName(s, id, row) ==
    [s EXCEPT !.shard = With(@, id, row), !.byName = With(Unindexed(s, id), row.Name, id)]

shardPut(s, id, row) ==
    [s EXCEPT !.shard = With(@, id, row),
              !.byName = IF row.Name = NoName THEN Unindexed(s, id)
                         ELSE With(Unindexed(s, id), row.Name, id)]

\* shardTouch ignores a shard that has no row.
shardTouch(s, id) ==
    IF id \in DOMAIN s.shard
    THEN shardPut(s, id, [s.shard[id] EXCEPT !.Updated = Entry(s)])
    ELSE s

\* shardTouch for the shards of the replicas rs by ascending replica ID.  Of two
\* touched shards that have the same name, the one touched last is indexed.
TouchedLast(s, rs, name) ==
    LET named == {r \in rs : /\ s.replica[r].ShardID \in DOMAIN s.shard
                             /\ s.shard[s.replica[r].ShardID].Name = name}
    IN  {r \in named : \A q \in named : q <= r}

shardTouchEach(s, rs) ==
    LET names == {name \in Name : TouchedLast(s, rs, name) # {}}
    IN  [s EXCEPT
           !.shard = Touched(@, ShardsOf(s, rs), Entry(s)),
           !.byName = [name \in DOMAIN @ \cup names |->
                         IF name \in names
                         THEN s.replica[CHOOSE r \in TouchedLast(s, rs, name) : TRUE].ShardID
                         ELSE @[name]]]

shardDelete(s, id) ==
    [s EXCEPT !.shard = Without(@, {id}), !.byName = Unindexed(s, id)]

replicaPut(s, r, row) == [s EXCEPT !.replica = With(@, r, row)]

replicaDelete(s, rs) == [s EXCEPT !.replica = Without(@, rs)]

\* The tag helpers, whose first argument is the map they write to.
tagsSetNX(new, old) ==
    [k \in DOMAIN new \cup DOMAIN old |-> IF k \in DOMAIN new THEN new[k] ELSE old[k]]
tagsSet(new, old) == tagsSetNX(old, new)
tagsRemove(new, old) == Without(new, DOMAIN old)

\* The tags a row has after a tag command, and whether the helper reports a write.
TagResult(act, tags, arg) ==
    CASE act = "set"    -> tagsSet(tags, arg)
      [] act = "setnx"  -> tagsSetNX(tags, arg)
      [] act = "remove" -> tagsRemove(tags, arg)

TagWritten(act, tags, arg) ==
    IF act = "setnx" THEN DOMAIN arg \ DOMAIN tags # {} ELSE DOMAIN arg # {}

-----------------------------------------------------------------------------
(* The commands: the state a command leads to, before Commit.               *)

\* Mutant: the shards of the host's replicas are not touched.
HostPutSilent(s, h, tags) ==
    hostPut(s, h, [Created |-> IF h \in DOMAIN s.host THEN s.host[h].Created ELSE Entry(s),
                   Updated |-> Entry(s),
                   Tags |-> IF h \in DOMAIN s.host THEN tagsSetNX(tags, s.host[h].Tags)
                            ELSE tags])

HostPut(s, h, tags) ==
    LET row == IF h \in DOMAIN s.host
               THEN [Created |-> s.host[h].Created, Updated |-> Entry(s),
                     Tags |-> tagsSetNX(tags, s.host[h].Tags)]
               ELSE [Created |-> Entry(s), Updated |-> Entry(s), Tags |-> tags]
    IN  hostPut(shardTouchEach(s, ReplicasOfHost(s, h)), h, row)

\* Mutant: the replicas of the host stay.
HostDelAlone(s, h) == [s EXCEPT !.host = Without(@, {h})]

HostDel(s, h) ==
    LET rs == ReplicasOfHost(s, h)
        t  == replicaDelete(shardTouchEach(s, rs), rs)
    IN  IF h \in DOMAIN s.host THEN [t EXCEPT !.host = Without(@, {h})] ELSE s

\* A tag command leaves the host's own Updated alone and touches its shards.
HostTags(s, act, h, tags) ==
    IF h \in DOMAIN s.host /\ TagWritten(act, s.host[h].Tags, tags)
    THEN hostPut(shardTouchEach(s, ReplicasOfHost(s, h)), h,
                 [s.host[h] EXCEPT !.Tags = TagResult(act, @, tags)])
    ELSE s

\* A post of a name that is taken changes nothing.
ShardPost(s, name, tags) ==
    IF name # NoName /\ ShardFindByName(s, name) THEN s
    ELSE LET id == s.shardID + 1
         IN  shardPut([s EXCEPT !.shardID = id], id,
                 [Created |-> Entry(s), Updated |-> Entry(s), Tags |-> tags,
                  Term |-> 0, Name |-> name])

\* Result.Value of a post: the new shard's ID, zero when it was rejected.
ShardPostValue(s, name) ==
    IF name # NoName /\ ShardFindByName(s, name) THEN 0 ELSE s.shardID + 1

ShardTouch(s, id) ==
    hostTouch(shardTouch(s, id), HostsOf(s, ReplicasOfShard(s, id)))

\* A put replaces the row, name and leader included; only Created is kept and
\* tags the command does not mention are.  Only shard 0 can be created by it.
ShardPut(s, id, name, term, tags) ==
    LET exists == id \in DOMAIN s.shard
        row == [Created |-> IF exists THEN s.shard[id].Created ELSE Entry(s),
                Updated |-> Entry(s),
                Tags |-> IF exists THEN tagsSetNX(tags, s.shard[id].Tags) ELSE tags,
                Term |-> term, Name |-> name]
    IN  IF exists \/ (id = PrimeShard /\ s.shardID = 0)
        THEN hostTouch(shardPut(s, id, row), HostsOf(s, ReplicasOfShard(s, id)))
        ELSE s

\* The shard's status is not modelled; the update touches the row and its hosts.
ShardStatusUpdate(s, id) ==
    IF id \in DOMAIN s.shard THEN ShardTouch(s, id) ELSE s

ShardLeaderSet(s, id, term) ==
    IF id \in DOMAIN s.shard
    THEN shardPut(s, id, [s.shard[id] EXCEPT !.Term = term, !.Updated = Entry(s)])
    ELSE s

ShardDel(s, id) ==
    LET rs == ReplicasOfShard(s, id)
    IN  IF id \in DOMAIN s.shard
        THEN shardDelete(hostTouch(replicaDelete(s, rs), HostsOf(s, rs)), id)
        ELSE s

\* A tag command leaves the shard's own Updated alone and touches its hosts.
\* Writing to the nil map of shard 0 panics, deleting from it does not.
ShardTags(s, act, id, tags) ==
    IF id \notin DOMAIN s.shard \/ ~TagWritten(act, s.shard[id].Tags, tags) THEN s
    ELSE IF id = PrimeShard /\ act # "remove" THEN [s EXCEPT !.panicked = TRUE]
    ELSE shardPut(hostTouch(s, HostsOf(s, ReplicasOfShard(s, id))), id,
                  [s.shard[id] EXCEPT !.Tags = TagResult(act, @, tags)])

\* Mutants: the counter is not stored; the ID is taken from the number of rows; a
\* fourth replica bootstraps too.
ReplicaPostAs(s, h, id, nonVoting, r, counter, size) ==
    LET bootstraps == ~nonVoting /\ Cardinality(ShardMembers(s, id)) < size
        row == [Created |-> Entry(s), Updated |-> Entry(s),
                Status |-> IF bootstraps THEN "bootstrapping" ELSE "joining",
                HostID |-> h, IsNonVoting |-> nonVoting, ShardID |-> id]
    IN  shardTouch(hostTouch(replicaPut([s EXCEPT !.replicaID = counter], r, row), {h}), id)
ReplicaPostNotStored(s, h, id, nonVoting) ==
    ReplicaPostAs(s, h, id, nonVoting, s.replicaID + 1, s.replicaID, BootstrapSize)
ReplicaPostByCount(s, h, id, nonVoting) ==
    LET r == Cardinality(DOMAIN s.replica) + 1
    IN  ReplicaPostAs(s, h, id, nonVoting, r, r, BootstrapSize)
ReplicaPostFourth(s, h, id, nonVoting) ==
    LET r == s.replicaID + 1
    IN  ReplicaPostAs(s, h, id, nonVoting, r, r, BootstrapSize + 1)

\* No check that the shard exists, nor that the host has no replica of it yet.
ReplicaPost(s, h, id, nonVoting) ==
    LET bootstraps == ~nonVoting /\ Cardinality(ShardMembers(s, id)) < BootstrapSize
        r   == s.replicaID + 1
        row == [Created |-> Entry(s), Updated |-> Entry(s),
                Status |-> IF bootstraps THEN "bootstrapping" ELSE "joining",
                HostID |-> h, IsNonVoting |-> nonVoting, ShardID |-> id]
    IN  shardTouch(hostTouch(replicaPut([s EXCEPT !.replicaID = r], r, row), {h}), id)

\* Mutant: only the shard is touched.
NotifyShardOnly(s, r) == shardTouch(s, s.replica[r].ShardID)

\* What hostTouch and shardTouch do for one replica.
Notify(s, r) == shardTouch(hostTouch(s, {s.replica[r].HostID}), s.replica[r].ShardID)

ReplicaStatusUpdate(s, r, status) ==
    IF r \in DOMAIN s.replica
    THEN Notify(replicaPut(s, r, [s.replica[r] EXCEPT !.Status = status]), r)
    ELSE s

\* newCmdReplicaPut carries no status, so a put clears it.
ReplicaPut(s, r, h, id, nonVoting) ==
    LET row == [Created |-> s.replica[r].Created, Updated |-> Entry(s), Status |-> "none",
                HostID |-> h, IsNonVoting |-> nonVoting, ShardID |-> id]
    IN  IF r \in DOMAIN s.replica THEN Notify(replicaPut(s, r, row), r) ELSE s

ReplicaDel(s, r) ==
    IF r \in DOMAIN s.replica THEN replicaDelete(Notify(s, r), {r}) ELSE s

\* Writing to a replica's nil Tags map panics, deleting from it does not.
ReplicaTags(s, act, r, tags) ==
    IF r \notin DOMAIN s.replica \/ DOMAIN tags = {} THEN s
    ELSE IF act # "remove" THEN [s EXCEPT !.panicked = TRUE]
    ELSE Notify(s, r)

-----------------------------------------------------------------------------
(* Properties of one registry state, for use on any copy of it.             *)

StateFields ==
    {"index", "shardID", "replicaID", "panicked", "host", "shard", "replica", "byName"}

StateType(s) ==
    /\ DOMAIN s = StateFields
    /\ s.index \in Nat /\ s.shardID \in Nat /\ s.replicaID \in Nat
    /\ s.panicked \in BOOLEAN
    /\ IsTable(s.host, Host, HostRow)
    /\ IsTable(s.shard, Nat, ShardRow)
    /\ IsTable(s.replica, Nat, ReplicaRow)
    /\ IsTable(s.byName, Name, Nat)

HostRef(s) == \A r \in DOMAIN s.replica : s.replica[r].HostID \in DOMAIN s.host

IDsAllocated(s) ==
    /\ \A id \in DOMAIN s.shard : id <= s.shardID
    /\ \A r \in DOMAIN s.replica : 0 < r /\ r <= s.replicaID

RowTimes(t, i) == \A x \in DOMAIN t : t[x].Created <= t[x].Updated /\ t[x].Updated <= i

Watermark(s) ==
    RowTimes(s.host, s.index) /\ RowTimes(s.shard, s.index) /\ RowTimes(s.replica, s.index)
=============================================================================
