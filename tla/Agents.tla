------------------------------- MODULE Agents -------------------------------
(***************************************************************************)
(* What the controllers of a running cluster share: the registry, the      *)
(* status of each agent and the proposals they make (agent.go).            *)
(*                                                                         *)
(* Raft shard 0 is external: it is available, reads are linear and         *)
(* proposals atomic, so reg is the one registry all agents see.  The rows  *)
(* of shard 0, which both controllers skip, are left out.  A proposal that *)
(* fails is applied or lost.                                               *)
(*                                                                         *)
(* A controller looks at a row whose Updated is above the index it has     *)
(* handled.  The rows keep no times here, only the outcome of that         *)
(* comparison: hostNews[h] says that the row of host h was updated since   *)
(* its controller read it last, shardNews[a] are the shards updated since  *)
(* the manager of agent a has read them last.                              *)
(*                                                                         *)
(* Failed proposals, lost leaderships, crashes, expired contexts and calls *)
(* of Stop count as faults, of which there are at most MaxFaults.          *)
(***************************************************************************)
EXTENDS RegistryFSM, Sequences

CONSTANT MaxFaults    \* bound on faults

VARIABLES
    reg,         \* the registry
    hostNews,    \* hostNews[h]: the row of h was updated since h has read it
    shardNews,   \* shardNews[a]: the shards updated since a has read them
    status,      \* status[a]: "down", "starting" or "ready"
    stop,        \* stop[a]: how far Stop has got at a, "no" when it was not called
    faults       \* faults so far

regVars == <<reg, hostNews, shardNews>>
agentVars == <<regVars, status, stop, faults>>

Fault == faults < MaxFaults /\ faults' = faults + 1

\* A table or a registry state without times.
TimelessTable(t) == [x \in DOMAIN t |-> [t[x] EXCEPT !.Created = 0, !.Updated = 0]]
Timeless(s) ==
    [s EXCEPT !.index = 0, !.host = TimelessTable(@), !.shard = TimelessTable(@),
              !.replica = TimelessTable(@)]

\* Rows the last command has updated: the others have time 0.
News(t) == {x \in DOMAIN t : t[x].Updated > 0}

\* A command that leads to registry t is applied.  The quantifiers name values.
Apply(t) ==
    \E after \in {Commit(reg, t)} :
    \E hosts \in {News(after.host)}, shards \in {News(after.shard)} :
        /\ reg' = Timeless(after)
        /\ hostNews' = [h \in Host |-> hostNews[h] \/ h \in hosts]
        /\ shardNews' = [a \in Host |-> shardNews[a] \cup shards]

\* primePropose of a command that leads to registry t: it returns no error, or an
\* error, in which case it may have been applied.
primePropose(t, ok) ==
    \/ ok /\ Apply(t) /\ UNCHANGED faults
    \/ ~ok /\ Fault /\ (Apply(t) \/ UNCHANGED regVars)
=============================================================================
