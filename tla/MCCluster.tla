------------------------------ MODULE MCCluster ------------------------------
(* Cluster for TLC.                                                         *)
EXTENDS Cluster, TLC

CONSTANTS h1, h2, h3, h4

ThreeHosts == <<h1, h2, h3>>
FourHosts == <<h1, h2, h3, h4>>
AllTags == (h1 :> [class |-> "a", zone |-> "x"]) @@ (h2 :> [class |-> "a", zone |-> "x"])
        @@ (h3 :> [class |-> "a", zone |-> "y"]) @@ (h4 :> [class |-> "b", zone |-> "y"])
Tags == [h \in Host |-> AllTags[h]]
TheErrorTag == [error |-> "error"]

A == {<<"class", "a">>}
B == {<<"class", "b">>}

\* Three members; three members and a replica of a group "read"; three members and a
\* replica on each host of class b, with zones that should vary.
OnlyMembers ==
    [want |-> [member |-> 3], filter |-> [member |-> A], vary |-> {}, cover |-> {}]
WithRead ==
    [want |-> [member |-> 3, read |-> 1], filter |-> [member |-> A, read |-> B],
     vary |-> {}, cover |-> {}]
WithCover ==
    [want |-> [member |-> 3], filter |-> [member |-> A], vary |-> {"zone"}, cover |-> B]

Three == {OnlyMembers}
Read == {WithRead}
Cover == {WithCover}
ThreeOrCover == Three \cup Cover
ThreeOrRead == Three \cup Read
NoEdits == [p \in Three \cup Read |-> {}]
Uncover == [p \in Three \cup Cover |-> IF p \in Cover THEN Three ELSE {}]

\* Bound: the replicas placed.
ReplicaBound == reg'.replicaID <= MaxReplicas

\* Bound: h1 alone leads raft shard 0.
OneLeader == \A a \in Host \ {h1} : ~mgr'[a].leader

\* Bound: h1 and h2 alone lead, h2 alone crashes.
TwoLeaders ==
    /\ \A a \in Host \ {h1, h2} : ~mgr'[a].leader
    /\ \A a \in Host \ {h2} : status'[a] = "ready"

\* Bound: h1 is stopped, and nothing else goes wrong.
OnlyStop == faults' # faults => stop'[h1] # stop[h1]

\* Bound: with members alone anything may go wrong, with a read replica something at h4,
\* its host.
FaultsOfJoiner ==
    faults' = faults \/ \A id \in DOMAIN reg.shard :
        Policy(reg, id) = WithRead => /\ \A h \in Host \ {h4} : ctl'[h] = ctl[h]
                                      /\ mgr'[h1] = mgr[h1]

\* Bound: with members alone h1, which leads, crashes, or a proposal of its controllers
\* fails; a replica that covers h4 may not be added in time.
MembersAlone ==
    DOMAIN reg.shard # {} /\ \A id \in DOMAIN reg.shard :
        Policy(reg, id) = OnlyMembers /\ reg.replicaID <= 3
FaultsOfLeader ==
    /\ \A h \in Host \ {h1} : status'[h] = "ready"
    /\ faults' # faults =>
         \/ MembersAlone /\ \A h \in Host \ {h1} : ctl'[h] = ctl[h]
         \/ ctl'[h4] # ctl[h4] /\ \A h \in Host \ {h4} : ctl[h].pc = "idle"

\* Bound: a policy is changed, and a leader of the shard elected, after it was fulfilled.
LateEdits ==
    \A id \in DOMAIN reg.shard :
        \/ Served(id)
        \/ Policy(reg, id) = Policy(reg, id)' /\ reg.shard[id].Term = reg'.shard[id].Term
=============================================================================
