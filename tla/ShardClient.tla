----------------------------- MODULE ShardClient -----------------------------
(***************************************************************************)
(* The clients of one shard at one agent: the client manager, which pings  *)
(* the hosts of the shard's replicas and keeps the tables of hosts by ping *)
(* (shard_client_manager.go); the shard client, which tries the hosts of a *)
(* table in turn (shard_client.go, host_client.go, and the handlers of     *)
(* grpc_server.go); and the pool of connections (grpc_client_pool.go).     *)
(*                                                                         *)
(* The registry is what the manager sees of it, row: the shard's replicas  *)
(* and its leader.  news says that the shard was updated since the manager *)
(* has read it.  The raft shard is external: log are the commands it has   *)
(* committed, applied[h] how many of them host h has applied.  Apply and   *)
(* Commit, which differ in what they return, are one operation, a write;   *)
(* a write is named by its call.                                           *)
(***************************************************************************)
EXTENDS Naturals, FiniteSets, Sequences, Functions

CONSTANTS
    Host, NoHost,
    Local,         \* the host of the agent
    Client,        \* the shard clients in use
    LeaderClient,  \* those with the option WithWriteToLeader
    Rows,          \* the states of the registry: functions of replicas, and a leader
    FirstRow,
    PingTime,      \* PingTime[h]: the results of a ping of host h
    PoolSize,      \* the size of the pool
    Conn,          \* connections, positive numbers
    MaxCalls,      \* bound on calls
    MaxMoves,      \* bound on changes of the registry
    MaxFaults      \* bound on faults

ASSUME PoolSizeAssumption == PoolSize \in Nat \ {0}
ASSUME BoundsAssumption == {MaxCalls, MaxMoves, MaxFaults} \subseteq Nat
ASSUME ClientAssumption == IsFiniteSet(Client)
ASSUME HostAssumption == Local \in Host /\ NoHost \notin Host
ASSUME PingAssumption == \A h \in Host \ {Local} : PingTime[h] \subseteq Nat
ASSUME RowsAssumption ==
    /\ FirstRow \in Rows
    /\ \A w \in Rows : /\ IsFiniteSet(DOMAIN w.replica) /\ DOMAIN w.replica \subseteq Nat
                       /\ \A r \in DOMAIN w.replica : w.replica[r].host \in Host

VARIABLES
    row, news,     \* the registry
    up,            \* up[h]: the agent of h answers
    log, applied,  \* the raft shard
    late,          \* writes accepted whose caller had an error, by number of times
    tick,          \* the manager's tick
    table,         \* the manager's tables
    pool, closed,  \* the pooled connections, the least recent first; those in use and closed
    call,          \* call[c]: the call client c makes
    done,          \* the results of calls
    moves, faults

registry == <<row, news, moves>>
raft == <<log, applied, late>>
network == <<pool, closed>>
vars == <<registry, up, raft, tick, table, network, call, done, faults>>

Fault == faults < MaxFaults /\ faults' = faults + 1

HostsIn(rows) == {rows[r].host : r \in DOMAIN rows}

-----------------------------------------------------------------------------
(* The pool.                                                                *)

Pooled(h) == {i \in DOMAIN pool : pool[i].host = h}

\* The pool without its entry i.
Others(i) == SubSeq(pool, 1, i - 1) \o SubSeq(pool, i + 1, Len(pool))

\* lru.Get: the entry becomes the most recent.
Used(i) == Append(Others(i), pool[i])

\* The entries that lru.Add for host h leaves alone.
Kept(h) == IF Pooled(h) = {} THEN pool ELSE Others(CHOOSE i \in Pooled(h) : TRUE)

\* Mutant: nothing is evicted.
AddedUnbounded(h, x) ==
    [pool |-> Append(Kept(h), [host |-> h, conn |-> x]), closed |-> {}]

\* Mutant: the connection that is closed is the one added.
AddedClosing(h, x) ==
    LET kept == Kept(h)
        full == Len(kept) = PoolSize
    IN  [pool |-> Append(IF full THEN Tail(kept) ELSE kept, [host |-> h, conn |-> x]),
         closed |-> IF full THEN {x} ELSE {}]

\* lru.Add: an entry for the host is replaced, and its connection stays open; else the
\* least recent entry goes when the pool is full, and its connection is closed.
Added(h, x) ==
    LET kept == Kept(h)
        full == Len(kept) = PoolSize
    IN  [pool |-> Append(IF full THEN Tail(kept) ELSE kept, [host |-> h, conn |-> x]),
         closed |-> IF full THEN {Head(kept).conn} ELSE {}]

InUse == {call[c].conn : c \in Client} \cup {pool[i].conn : i \in DOMAIN pool}
FreeConn == CHOOSE x \in Conn : x \notin InUse

\* get, for one caller at a time: the second half of a miss.
Dial(h) ==
    LET added == Added(h, FreeConn)
    IN  /\ Conn \ InUse # {}
        /\ pool' = added.pool
        /\ closed' = (closed \cap InUse) \cup added.closed

-----------------------------------------------------------------------------
(* The client manager.                                                      *)

With(f, x, y) == [z \in DOMAIN f \cup {x} |-> IF z = x THEN y ELSE f[z]]

Resting == [pc |-> "idle", rows |-> <<>>, leader |-> 0, left |-> {}, ping |-> <<>>]

\* The local read of a tick; left are the replicas whose host is to be pinged.  The agent
\* does not call itself.
TickRead ==
    /\ tick.pc = "idle" /\ news
    /\ tick' = [pc |-> "ping", rows |-> row.replica, leader |-> row.leader,
                left |-> {r \in DOMAIN row.replica : row.replica[r].host # Local},
                ping |-> [h \in {Local} |-> 0]]
    /\ news' = FALSE
    /\ UNCHANGED <<row, moves, up, raft, table, network, call, done, faults>>

\* The ping of the next replica's host, which counts for its other replicas.  A host that
\* does not answer is left out, and the tick goes on.
Ping ==
    /\ tick.pc = "ping"
    /\ \E r \in tick.left :
         LET h == tick.rows[r].host
         IN  /\ \A q \in tick.left : r <= q
             /\ IF Pooled(h) = {} THEN Dial(h)
                ELSE \E i \in Pooled(h) : pool' = Used(i) /\ UNCHANGED closed
             /\ \/ /\ up[h] /\ UNCHANGED faults
                   /\ \E t \in PingTime[h] :
                        tick' = [tick EXCEPT !.ping = With(@, h, t),
                                             !.left = {q \in @ : tick.rows[q].host # h}]
                \/ /\ IF up[h] THEN Fault ELSE UNCHANGED faults
                   /\ tick' = [tick EXCEPT !.left = @ \ {r}]
    /\ UNCHANGED <<registry, up, raft, table, call, done>>

\* The ping of a replica's host.
Time(r) == tick.ping[tick.rows[r].host]

\* The replicas of rs that have a place in a table.  The table is a map keyed by ping: of
\* the hosts with one ping the last stays.
Placed(rs) ==
    LET alive == {r \in rs : tick.rows[r].host \in DOMAIN tick.ping}
    IN  {r \in alive : \A q \in alive : Time(q) = Time(r) => q <= r}

\* The hosts of replicas rs that have answered, by ping.
ByPing(rs) ==
    LET placed == Placed(rs)
        sorted == CHOOSE s \in [1 .. Cardinality(placed) -> placed] :
                      \A i \in 2 .. Cardinality(placed) : Time(s[i - 1]) < Time(s[i])
    IN  [i \in 1 .. Cardinality(placed) |-> tick.rows[sorted[i]].host]

\* The tables of a tick's rows.  The leader has an entry if its host has answered.
Tables ==
    [ready |-> TRUE,
     member |-> ByPing({r \in DOMAIN tick.rows : ~tick.rows[r].nonVoting}),
     replica |-> ByPing(DOMAIN tick.rows),
     leader |-> IF /\ tick.leader \in DOMAIN tick.rows
                   /\ tick.rows[tick.leader].host \in DOMAIN tick.ping
                THEN tick.rows[tick.leader].host ELSE NoHost]

\* Mutant: the index is that of the registry at the end of the tick.
PublishLate ==
    /\ tick.pc = "ping" /\ tick.left = {}
    /\ table' = Tables /\ tick' = Resting /\ news' = FALSE
    /\ UNCHANGED <<row, moves, up, raft, network, call, done, faults>>

\* The end of a tick: the tables are replaced, and the index is that of the rows read.
Publish ==
    /\ tick.pc = "ping" /\ tick.left = {}
    /\ table' = Tables /\ tick' = Resting
    /\ UNCHANGED <<registry, up, raft, network, call, done, faults>>

Manager == TickRead \/ Ping \/ Publish

-----------------------------------------------------------------------------
(* A call of the shard client.                                              *)

NoConn == 0

\* A client between two calls.  left are the hosts of a table it has still to try,
\* tried is the number of those it has tried, since are the writes completed before.
NoCall ==
    [pc |-> "idle", op |-> "none", id |-> 0, toLeader |-> FALSE, first |-> FALSE,
     left |-> <<>>, conn |-> NoConn, tried |-> 0, since |-> {}]

Calls == Cardinality(done) + Cardinality({c \in Client : call[c].pc # "idle"})
Completed == {d.id : d \in {e \in done : e.op = "write" /\ e.ok /\ e.ran}}

\* A call returns.  ran says that a host was tried, fresh that an answer that has to
\* contain the writes of since does.
Return(c, ok, ran, fresh) ==
    LET k == call[c]
    IN  /\ call' = [call EXCEPT ![c] = NoCall]
        /\ done' = done \cup {[id |-> k.id, op |-> k.op, toLeader |-> k.toLeader, ok |-> ok,
                               ran |-> ran, fresh |-> fresh]}

\* Every call returns ErrShardNotReady before the first tables.
NotReady(c, op) ==
    /\ call[c].pc = "idle" /\ Calls < MaxCalls /\ ~table.ready
    /\ done' = done \cup {[id |-> Calls + 1, op |-> op, toLeader |-> FALSE, ok |-> FALSE,
                           ran |-> FALSE, fresh |-> TRUE]}
    /\ UNCHANGED <<registry, up, raft, tick, table, network, call, faults>>

\* Apply and Commit, Read with and without stale, and Index pick a table.
Begin(c, op) ==
    /\ call[c].pc = "idle" /\ Calls < MaxCalls /\ table.ready
    /\ LET toLeader == op = "write" /\ c \in LeaderClient /\ table.leader # NoHost
       IN  call' = [call EXCEPT ![c] =
             [NoCall EXCEPT !.pc = "next", !.op = op, !.id = Calls + 1, !.toLeader = toLeader,
                !.first = op = "stale",
                !.since = IF op \in {"read", "index"} THEN Completed ELSE {},
                !.left = IF toLeader THEN <<table.leader>>
                         ELSE IF op \in {"stale", "index"} THEN table.replica
                         ELSE table.member]]
    /\ UNCHANGED <<registry, up, raft, tick, table, network, done, faults>>

Moved(c, pc, conn) == call' = [call EXCEPT ![c].pc = pc, ![c].conn = conn]

\* The next host: the agent itself, or one with a pooled connection, or a miss.
Try(c) ==
    /\ call[c].pc = "next" /\ call[c].left # <<>>
    /\ LET h == Head(call[c].left)
       IN  \/ h = Local /\ Moved(c, "sent", NoConn) /\ UNCHANGED network
           \/ h # Local /\ Pooled(h) = {} /\ Moved(c, "dial", NoConn) /\ UNCHANGED network
           \/ /\ h # Local
              /\ \E i \in Pooled(h) : pool' = Used(i) /\ Moved(c, "sent", pool[i].conn)
              /\ UNCHANGED closed
    /\ UNCHANGED <<registry, up, raft, tick, table, done, faults>>

\* The second half of a miss: another caller may have missed the host too.
Dialed(c) ==
    /\ call[c].pc = "dial"
    /\ Dial(Head(call[c].left))
    /\ Moved(c, "sent", FreeConn)
    /\ UNCHANGED <<registry, up, raft, tick, table, done, faults>>

\* Mutant: the error of the last host is lost.
ExhaustedQuiet(c) ==
    /\ call[c].pc = "next" /\ call[c].left = <<>>
    /\ Return(c, TRUE, call[c].tried > 0, TRUE)
    /\ UNCHANGED <<registry, up, raft, tick, table, network, faults>>

\* No host is left: a stale read goes on with the members, any other call returns its
\* last error, or none if the table was empty.
Exhausted(c) ==
    /\ call[c].pc = "next" /\ call[c].left = <<>>
    /\ IF call[c].first
       THEN /\ call' = [call EXCEPT ![c].first = FALSE, ![c].left = table.member]
            /\ UNCHANGED done
       ELSE Return(c, call[c].tried = 0, call[c].tried > 0, TRUE)
    /\ UNCHANGED <<registry, up, raft, tick, table, network, faults>>

\* The host answers, and the connection was not closed in the meantime.
Voters == {r \in DOMAIN row.replica : ~row.replica[r].nonVoting}
Quorum == 2 * Cardinality({r \in Voters : up[row.replica[r].host]}) > Cardinality(Voters)
Serves(h) == up[h] /\ h \in HostsIn(row.replica) /\ Quorum
Reaches(c) ==
    LET h == Head(call[c].left)
    IN  Serves(h) /\ (h = Local \/ call[c].conn \notin closed)

Holds(c, n) == call[c].since \subseteq Range(SubSeq(log, 1, n))

\* Mutant: every read is a stale one.
ServeReadStale(c, h) ==
    /\ UNCHANGED raft
    /\ Return(c, TRUE, TRUE, Holds(c, applied[h]))

\* SyncRead and ReadIndex wait until the host has applied what is committed.
ServeRead(c, h) ==
    /\ applied' = [applied EXCEPT ![h] = Len(log)]
    /\ UNCHANGED <<log, late>>
    /\ Return(c, TRUE, TRUE, Holds(c, Len(log)))

Serve(c) ==
    LET h == Head(call[c].left)
    IN  /\ call[c].pc = "sent" /\ Reaches(c)
        /\ \/ /\ call[c].op = "write"
              /\ log' = Append(log, call[c].id)
              /\ UNCHANGED <<applied, late>>
              /\ Return(c, TRUE, TRUE, TRUE)
           \/ call[c].op = "read" /\ ServeRead(c, h)
           \/ call[c].op = "index" /\ h # Local /\ ServeRead(c, h)
           \/ call[c].op = "stale" /\ UNCHANGED raft /\ Return(c, TRUE, TRUE, TRUE)
        /\ UNCHANGED <<registry, up, tick, table, network, faults>>

\* ReadIndex of the agent's own host returns at once.
ServeIndexLocal(c) ==
    /\ call[c].pc = "sent" /\ call[c].op = "index" /\ Head(call[c].left) = Local
    /\ Return(c, TRUE, TRUE, TRUE)
    /\ UNCHANGED <<registry, up, raft, tick, table, network, faults>>

\* Mutant: a write that fails at the leader is sent to the members.
FailedToMembers(c) ==
    [call[c] EXCEPT !.pc = "next", !.conn = NoConn, !.tried = @ + 1,
                    !.left = IF call[c].toLeader /\ call[c].tried = 0
                             THEN table.member ELSE Tail(@)]

\* Mutant: the same host is tried again.
FailedStays(c) == [call[c] EXCEPT !.pc = "next", !.conn = NoConn]

Failed(c) == [call[c] EXCEPT !.pc = "next", !.conn = NoConn, !.left = Tail(@), !.tried = @ + 1]

\* The call fails.  A write the host has accepted may be committed all the same, at once
\* or later.
Fail(c) ==
    /\ call[c].pc = "sent" /\ ~(call[c].op = "index" /\ Head(call[c].left) = Local)
    /\ IF Reaches(c) THEN Fault ELSE UNCHANGED faults
    /\ \/ UNCHANGED <<log, late>>
       \/ /\ call[c].op = "write" /\ Serves(Head(call[c].left))
          /\ \/ log' = Append(log, call[c].id) /\ UNCHANGED late
             \/ late' = late \cup {<<call[c].id, call[c].tried>>} /\ UNCHANGED log
    /\ call' = [call EXCEPT ![c] = Failed(c)]
    /\ UNCHANGED <<registry, up, applied, tick, table, network, done>>

ClientStep(c) ==
    Try(c) \/ Dialed(c) \/ Exhausted(c) \/ Serve(c) \/ ServeIndexLocal(c) \/ Fail(c)

-----------------------------------------------------------------------------
(* The registry, the hosts and the raft shard.                              *)

Change ==
    /\ moves < MaxMoves /\ moves' = moves + 1
    /\ row' \in Rows \ {row} /\ news' = TRUE
    /\ UNCHANGED <<up, raft, tick, table, network, call, done, faults>>

HostDown(h) ==
    /\ h # Local /\ up[h] /\ up' = [up EXCEPT ![h] = FALSE] /\ Fault
    /\ UNCHANGED <<registry, raft, tick, table, network, call, done>>

HostUp(h) ==
    /\ ~up[h] /\ up' = [up EXCEPT ![h] = TRUE]
    /\ UNCHANGED <<registry, raft, tick, table, network, call, done, faults>>

CatchUp(h) ==
    /\ up[h] /\ applied[h] < Len(log) /\ applied' = [applied EXCEPT ![h] = @ + 1]
    /\ UNCHANGED <<registry, up, log, late, tick, table, network, call, done, faults>>

LateCommit ==
    \E w \in late :
        /\ log' = Append(log, w[1]) /\ late' = late \ {w}
        /\ UNCHANGED <<registry, up, applied, tick, table, network, call, done, faults>>

Environment == Change \/ LateCommit \/ \E h \in Host : HostDown(h) \/ HostUp(h) \/ CatchUp(h)

-----------------------------------------------------------------------------

Init ==
    /\ row = FirstRow /\ news = TRUE /\ moves = 0
    /\ up = [h \in Host |-> TRUE]
    /\ log = <<>> /\ applied = [h \in Host |-> 0] /\ late = {}
    /\ tick = Resting
    /\ table = [ready |-> FALSE, member |-> <<>>, replica |-> <<>>, leader |-> NoHost]
    /\ pool = <<>> /\ closed = {}
    /\ call = [c \in Client |-> NoCall] /\ done = {}
    /\ faults = 0

Op == {"write", "read", "stale", "index"}

Users == \E c \in Client, op \in Op : NotReady(c, op) \/ Begin(c, op)

Next == Manager \/ Users \/ (\E c \in Client : ClientStep(c)) \/ Environment

\* The manager's ticker goes on, and a call in progress proceeds: what it waits for is
\* answered, or fails.
Fairness == WF_vars(Manager) /\ \A c \in Client : WF_vars(ClientStep(c))

Spec == Init /\ [][Next]_vars
FairSpec == Spec /\ Fairness

-----------------------------------------------------------------------------
(* Properties.                                                              *)

\* Types, and the bound of the pool.
TypeOK ==
    /\ row \in Rows /\ news \in BOOLEAN /\ moves \in 0..MaxMoves /\ faults \in 0..MaxFaults
    /\ up \in [Host -> BOOLEAN] /\ applied \in [Host -> 0..Len(log)]
    /\ tick.pc \in {"idle", "ping"} /\ DOMAIN tick.ping \subseteq Host
    /\ table.ready \in BOOLEAN /\ table.leader \in Host \cup {NoHost}
    /\ Range(table.member) \cup Range(table.replica) \subseteq Host
    /\ Len(pool) <= PoolSize /\ closed \subseteq Conn
    /\ \A c \in Client : /\ call[c].pc \in {"idle", "next", "dial", "sent"}
                         /\ call[c].conn \in Conn \cup {NoConn}
    /\ \A d \in done : d.op \in Op /\ d.id \in 1..MaxCalls

\* Between two ticks, with no news, the tables are those of the present rows: a table
\* lists hosts of replicas of its kind only, and the leader entry is the leader's host.
TablesCurrent ==
    tick.pc = "idle" /\ ~news =>
        /\ Range(table.replica) \subseteq HostsIn(row.replica)
        /\ Range(table.member) \subseteq {row.replica[r].host : r \in Voters}
        /\ table.leader # NoHost =>
              row.leader \in DOMAIN row.replica /\ table.leader = row.replica[row.leader].host

\* A write that returns no error after a host was tried is in the shard's log, whatever
\* became of the attempts before.  (With an empty table Apply and Commit return no error
\* and have done nothing, shard_client.go 87 and 113.)
WriteIsApplied ==
    \A d \in done : d.op = "write" /\ d.ok /\ d.ran => d.id \in Range(log)

Times(w) == Cardinality({i \in DOMAIN log : log[i] = w}) + Cardinality({l \in late : l[1] = w})

\* A write that is sent to the leader is committed at most once, now or later: its error
\* is returned, and it is not sent to another host.
LeaderWritesOnce ==
    /\ \A d \in done : d.toLeader => Times(d.id) <= 1
    /\ \A c \in Client : call[c].toLeader => Times(call[c].id) <= 1

\* A read that is not stale, and an index barrier at another host, answer with every
\* write that had completed before the call, whichever host of the table answers.
ReadsAreFresh == \A d \in done : d.fresh

\* The pool hands out open connections only, and one for a host, although callers
\* miss, dial and evict each other's connections concurrently.
PooledAreOpen ==
    \A i \in DOMAIN pool : /\ pool[i].conn \notin closed
                          /\ \A j \in DOMAIN pool : pool[i].host = pool[j].host => i = j

\* Without faults the tables settle: in the end they are those of the last rows, with the
\* leader's entry, and with a member if there is one.
Routed ==
    <>[](faults = 0 => /\ ~news /\ tick.pc = "idle" /\ table.ready
                       /\ row.leader \in DOMAIN row.replica =>
                             table.leader = row.replica[row.leader].host
                       /\ Voters # {} => table.member # <<>>)

\* Every call returns, although hosts fail, rows move and connections are closed while
\* it goes from host to host.
CallReturns == \A c \in Client : call[c].pc # "idle" ~> call[c].pc = "idle"
=============================================================================
