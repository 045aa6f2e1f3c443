---------------------------- MODULE MCHostStream ----------------------------
(***************************************************************************)
(* An instance of HostStream: a stream tried at the own host h1, then at   *)
(* h2; two streams at h2, one after the other; a watch tried at h1, then   *)
(* at h2; and a stream tried at h1 twice, first as the host of a replica,  *)
(* then as the host of a member.                                           *)
(***************************************************************************)
EXTENDS HostStream, TLC

CONSTANTS u1, u2, u3, u4, u5, s1, s2, s3, s4, s5, s6, w1, w2, none, h1, h2

MCUser == {u1, u2, u3, u4, u5}
MCAttempts == u1 :> <<s1, s2>> @@ u2 :> <<s3>> @@ u3 :> <<s4>> @@ u4 :> <<w1, w2>>
                @@ u5 :> <<s5, s6>>
MCServer == [s \in {s1, s5, s6, w1} |-> h1] @@ [s \in {s2, s3, s4, w2} |-> h2]
MCWatch == {w1, w2}
MCLocal == {s1, s5, s6, w1}

Started(s) == client[s].call = "idle" /\ client'[s].call # "idle"
Groups == {{s1, s2}, {s3, s4}, {w1, w2}, {s5, s6}}

\* The four are checked apart.  Of the two streams at h2 the second starts while the first
\* ends; each has one input, and the second sends no results and is not cut.  To cut the first
\* has the effect of its user's cancelling it, and is left out.
Apart ==
    /\ \A g \in Groups : (\E s \in g : Started(s)) => \A t \in Stream \ g : client[t].call = "idle"
    /\ client[s3].call # "idle" => faults' = 0
    /\ Started(s4) => server[s3].handler \in {"close", "back"}
    /\ taken'[u2] <= 1 /\ taken'[u3] <= 1 /\ machine'[s4].made = 0 /\ ~wire'[s4].cut
=============================================================================
