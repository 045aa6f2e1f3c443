--------------------------- MODULE MCShardClient ---------------------------
(***************************************************************************)
(* Instances of ShardClient: the agent of h1 and the hosts h2 and h3.      *)
(***************************************************************************)
EXTENDS ShardClient, TLC

CONSTANTS h1, h2, h3, none, c1, c2

MCHost == {h1, h2, h3}
MCClient == {c1, c2}
MCLeaderClient == {c2}

Voter(h) == [host |-> h, nonVoting |-> FALSE]
Reader(h) == [host |-> h, nonVoting |-> TRUE]

\* The shard without replicas; with three voters, led from h2; with a reader at the agent,
\* and with the reader of h3 still there beside a voter, which leads.
Empty == [replica |-> <<>>, leader |-> 0]
Three == [replica |-> <<Voter(h1), Voter(h2), Voter(h3)>>, leader |-> 2]
Mixed == [replica |-> <<Reader(h1), Voter(h2), Reader(h3), Voter(h3)>>, leader |-> 4]

MCRows == {Empty, Three, Mixed}
MCPingTime == h2 :> {1, 2} @@ h3 :> {2}
MCConn == 1..4

\* What each client is used for.
Uses == /\ call'[c1].op \in {"none", "write", "stale"}
        /\ call'[c2].op \in {"none", "write", "read", "index"}
        /\ \A d \in done' : table.ready \/ d.op = "write"

\* Hosts fail while calls are in progress, and recover and catch up between them.
InCall == \E c \in Client : call[c].pc # "idle"
Calm == /\ \A h \in Host : up[h] /\ ~up'[h] => InCall
        /\ \A h \in Host : ~up[h] /\ up'[h] => ~InCall
        /\ applied' # applied /\ call' = call => ~InCall

\* The rows change before the fault; after a change a call fails, with current tables.
FaultAfterChange ==
    /\ moves' > moves => faults = 0
    /\ faults' > faults /\ moves > 0 => up' = up /\ tick' = tick /\ ~news /\ tick.pc = "idle"
=============================================================================
