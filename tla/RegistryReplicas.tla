--------------------------- MODULE RegistryReplicas ---------------------------
(***************************************************************************)
(* The registry as the agents share it: raft shard 0 is a log of commands, *)
(* every agent has a replica of the registry in memory that applies the    *)
(* log in order (fsm.go), and the agents' API calls ShardCreate and        *)
(* ShardDelete (agent.go) read the local replica and propose to the log.   *)
(*                                                                         *)
(* Raft is external and trusted: the log only grows, an agent's read index *)
(* is the length of the log at some time during the call, a proposal is    *)
(* answered when the local replica has applied it, and a proposal that     *)
(* timed out may be lost or still be appended later.  A snapshot is        *)
(* installed in a restarted replica, which is empty.                       *)
(***************************************************************************)
EXTENDS RegistryFSM, Sequences, Folds, FiniteSetsExt

CONSTANTS
    Agent,       \* agents
    Caller,      \* agents whose API is called
    Other        \* commands proposed by other parts of the system

VARIABLES
    log,         \* the committed entries of raft shard 0
    fsm,         \* fsm[a]: the registry in the memory of agent a
    snap,        \* snap[a]: the last snapshot on the disk of agent a
    call,        \* call[a]: the API call agent a is in
    late,        \* proposals that timed out and may still be committed
    made         \* made[name]: the shard a completed ShardCreate returned, or 0

vars == <<log, fsm, snap, call, late, made>>

-----------------------------------------------------------------------------
(* Commands.                                                                *)

\* fsm.Update: apply one command, record the index, commit.
Update(s, c) ==
    Commit(s,
        CASE c.op = "hostPut"     -> HostPut(s, c.host, c.tags)
          [] c.op = "shardPost"   -> ShardPost(s, c.name, c.tags)
          [] c.op = "shardTouch"  -> ShardTouch(s, c.id)
          [] c.op = "shardPut"    -> ShardPut(s, c.id, c.name, c.term, c.tags)
          [] c.op = "leaderSet"   -> ShardLeaderSet(s, c.id, c.term)
          [] c.op = "shardDel"    -> ShardDel(s, c.id)
          [] c.op = "replicaPost" -> ReplicaPost(s, c.host, c.id, c.nonVoting)
          [] c.op = "replicaDel"  -> ReplicaDel(s, c.id))

\* Result.Value of the commands an API call proposes.
Value(s, c) ==
    CASE c.op = "shardPost"  -> ShardPostValue(s, c.name)
      [] c.op = "shardTouch" -> c.id
      [] c.op = "shardDel"   -> IF c.id \in DOMAIN s.shard THEN 1 ELSE 0

\* The registry the first i entries of the log define.
After(i) == MapThenFoldSet(LAMBDA c, s : Update(s, c), EmptyState,
                           LAMBDA j : log[j], LAMBDA S : Max(S), 1 .. i)

-----------------------------------------------------------------------------
(* Snapshots.                                                               *)

\* State.Save: the header with the counters, and the rows.  The Name index is not
\* saved.
Save(s) == [index |-> s.index, shardID |-> s.shardID, replicaID |-> s.replicaID,
            host |-> s.host, shard |-> s.shard, replica |-> s.replica]

\* The rows of table new put into table old.
Over(old, new) ==
    [x \in DOMAIN old \cup DOMAIN new |-> IF x \in DOMAIN new THEN new[x] ELSE old[x]]

\* Mutant: the counters of the header are not restored.
recoverRowsOnly(s, f) ==
    MapThenFoldSet(LAMBDA id, t : shardPut(t, id, f.shard[id]),
        [s EXCEPT !.index = f.index, !.host = Over(@, f.host), !.replica = Over(@, f.replica)],
        LAMBDA id : id, LAMBDA S : Max(S), DOMAIN f.shard)

\* State.recover: the header is set and the rows are put into the tables as they
\* are, the shards by ascending ID; no row is removed.
recover(s, f) ==
    MapThenFoldSet(LAMBDA id, t : shardPut(t, id, f.shard[id]),
        [s EXCEPT !.index = f.index, !.shardID = f.shardID, !.replicaID = f.replicaID,
                  !.host = Over(@, f.host), !.replica = Over(@, f.replica)],
        LAMBDA id : id, LAMBDA S : Max(S), DOMAIN f.shard)

-----------------------------------------------------------------------------
(***************************************************************************)
(* The API calls.  An agent runs one call at a time; two agents run calls  *)
(* concurrently.  A call is in one of the phases                           *)
(*   read     waiting until the local replica has applied index            *)
(*   propose  the command cmd has been handed to raft                      *)
(*   commit   entry number index is the call's, not applied locally yet    *)
(*   return   the result is known: value, and created for a ShardCreate    *)
(* expect is the ID that an earlier ShardCreate of the same name returned. *)
(***************************************************************************)
Idle == [phase |-> "idle"]

Init ==
    /\ log = <<>>
    /\ fsm = [a \in Agent |-> EmptyState]
    /\ snap = [a \in Agent |-> Save(EmptyState)]
    /\ call = [a \in Agent |-> Idle]
    /\ late = {}
    /\ made = [name \in Name |-> 0]

Post(name) == [op |-> "shardPost", name |-> name, tags |-> EmptyTable]

Proposing(c, cmd) == [c EXCEPT !.phase = "propose", !.cmd = cmd]

CreateCall(name, index) ==
    [phase |-> "read", op |-> "create", name |-> name, index |-> index, cmd |-> <<>>,
     value |-> 0, created |-> FALSE, expect |-> IF name = NoName THEN 0 ELSE made[name]]

\* Mutant: the read does not wait for the read index.
ShardCreateStale(a, name) ==
    /\ call[a].phase = "idle"
    /\ call' = [call EXCEPT ![a] = CreateCall(name, 0)]
    /\ UNCHANGED <<log, fsm, snap, late, made>>

\* ShardCreate: State asks raft for the read index; without a name there is nothing
\* to look up.
ShardCreate(a, name) ==
    /\ call[a].phase = "idle"
    /\ call' = [call EXCEPT ![a] =
         IF name = NoName
         THEN [Proposing(CreateCall(name, 0), Post(name)) EXCEPT !.created = TRUE]
         ELSE CreateCall(name, Len(log))]
    /\ UNCHANGED <<log, fsm, snap, late, made>>

\* The replica has caught up: touch the shard of that name or post a new one.
ShardCreateRead(a) ==
    LET c == call[a]
        s == fsm[a]
    IN  /\ c.phase = "read" /\ c.op = "create" /\ s.index >= c.index
        /\ call' = [call EXCEPT ![a] =
             IF ShardFindByName(s, c.name)
             THEN [Proposing(c, [op |-> "shardTouch", id |-> s.byName[c.name]])
                     EXCEPT !.value = s.byName[c.name]]
             ELSE [Proposing(c, Post(c.name)) EXCEPT !.created = TRUE]]
        /\ UNCHANGED <<log, fsm, snap, late, made>>

\* ShardDelete proposes at once.
ShardDelete(a, id) ==
    /\ call[a].phase = "idle"
    /\ call' = [call EXCEPT ![a] =
         [phase |-> "propose", op |-> "delete", index |-> 0, value |-> 0,
          cmd |-> [op |-> "shardDel", id |-> id]]]
    /\ UNCHANGED <<log, fsm, snap, late, made>>

-----------------------------------------------------------------------------
(* Raft.                                                                    *)

\* The proposal of a call is committed.
CommitCall(a) ==
    /\ call[a].phase = "propose"
    /\ log' = Append(log, call[a].cmd)
    /\ call' = [call EXCEPT ![a].phase = "commit", ![a].index = Len(log) + 1]
    /\ UNCHANGED <<fsm, snap, late, made>>

\* So is one whose call has given up, and one of another part of the system.
CommitLate ==
    \E cmd \in late :
        /\ log' = Append(log, cmd)
        /\ late' = late \ {cmd}
        /\ UNCHANGED <<fsm, snap, call, made>>

\* Replicas are only posted to hosts found in the registry, and hosts stay in it.
CommitOther ==
    \E cmd \in Other :
        /\ cmd.op = "replicaPost" => cmd.host \in DOMAIN After(Len(log)).host
        /\ log' = Append(log, cmd)
        /\ UNCHANGED <<fsm, snap, call, late, made>>

\* The call of agent a ends without a result.  A proposal that has not been
\* committed may have been lost or not.
Abandon(a) ==
    /\ call' = [call EXCEPT ![a] = Idle]
    /\ late' \in IF call[a].phase = "propose" THEN {late, late \cup {call[a].cmd}}
                 ELSE {late}

Timeout(a) ==
    /\ call[a].phase \in {"propose", "commit"}
    /\ Abandon(a)
    /\ UNCHANGED <<log, fsm, snap, made>>

\* The replica of agent a applies the next entry, which may answer its call.  A
\* ShardCreate that found the shard has its ID already.
ApplyEntry(a) ==
    LET s == fsm[a]
        i == s.index + 1
        c == call[a]
    IN  /\ i <= Len(log)
        /\ ~s.panicked
        /\ fsm' = [fsm EXCEPT ![a] = Update(s, log[i])]
        /\ call' = IF c.phase = "commit" /\ c.index = i
                   THEN [call EXCEPT ![a].phase = "return", ![a].value = Value(s, log[i])]
                   ELSE call
        /\ UNCHANGED <<log, snap, late, made>>

\* The call returns to its caller.
Return(a) ==
    LET c == call[a]
    IN  /\ c.phase = "return"
        /\ call' = [call EXCEPT ![a] = Idle]
        /\ made' = IF c.op = "create" /\ c.name # NoName /\ c.value # 0
                   THEN [made EXCEPT ![c.name] = c.value]
                   ELSE made
        /\ UNCHANGED <<log, fsm, snap, late>>

-----------------------------------------------------------------------------
(* Snapshots and restarts.                                                  *)

SaveSnapshot(a) ==
    /\ snap[a].index < fsm[a].index
    /\ snap' = [snap EXCEPT ![a] = Save(fsm[a])]
    /\ UNCHANGED <<log, fsm, call, late, made>>

\* fsmFactory makes an empty registry, raft fills it from the snapshot and applies
\* the entries after it again.
Restart(a) ==
    /\ fsm[a] # EmptyState
    /\ fsm' = [fsm EXCEPT ![a] = recover(EmptyState, snap[a])]
    /\ Abandon(a)
    /\ UNCHANGED <<log, snap, made>>

-----------------------------------------------------------------------------
(* Specifications.                                                          *)

KnownShard == 1 .. After(Len(log)).shardID

\* No replica falls behind a compacted log.
Next ==
    \/ CommitLate \/ CommitOther
    \/ \E a \in Agent :
         ApplyEntry(a) \/ SaveSnapshot(a) \/ Restart(a)
    \/ \E a \in Caller :
         \/ \E name \in Name \cup {NoName} : ShardCreate(a, name)
         \/ ShardCreateRead(a)
         \/ \E id \in KnownShard : ShardDelete(a, id)
         \/ CommitCall(a) \/ Timeout(a) \/ Return(a)

Spec == Init /\ [][Next]_vars

-----------------------------------------------------------------------------
(* Properties.                                                              *)

\* What an agent serves is the registry of one index of the log, whatever it has
\* been through: replayed from the start, or recovered from a snapshot (Save,
\* recover) and replayed from there.  "State will always provide snapshot
\* isolation, even for stale reads" (agent.go:371-372); "every host always has an
\* eventually consistent snapshot of the cluster topology" (README.md:26-27).
StateIsLog == \A a \in Agent : fsm[a] = After(fsm[a].index)

Deleted(id) == \E i \in DOMAIN log : log[i] = [op |-> "shardDel", id |-> id]

\* A ShardCreate that starts after another ShardCreate of the same name has
\* returned, on any agent, returns the same shard unless it was deleted ("If shard
\* name option is provided and shard exists, found shard is returned",
\* agent.go:121; "Read Your Writes consistency following a proposal",
\* agent.go:370).
SameShard ==
    \A a \in Agent :
        LET c == call[a]
        IN  c.phase = "return" /\ c.op = "create" /\ c.expect # 0 /\ ~Deleted(c.expect)
              => c.value = c.expect
=============================================================================
