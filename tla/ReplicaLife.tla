----------------------------- MODULE ReplicaLife -----------------------------
(***************************************************************************)
(* What the registry and the controllers promise together about a replica: *)
(* an ID is placed on one host, once; only that host starts it; it is      *)
(* reported active only after that; and once it was removed it does not    *)
(* come back, though a host that is late may still start it.               *)
(***************************************************************************)
CONSTANTS Replica, Host, NoHost

VARIABLES
    phase,       \* phase[r]: "unborn", "placed", "active" or "removed"
    home,        \* home[r]: the host r is placed on, or NoHost
    startedOn    \* startedOn[r]: the hosts that have started r

Init ==
    /\ phase = [r \in Replica |-> "unborn"]
    /\ home = [r \in Replica |-> NoHost]
    /\ startedOn = [r \in Replica |-> {}]

Place(r) ==
    /\ phase[r] = "unborn"
    /\ phase' = [phase EXCEPT ![r] = "placed"]
    /\ \E h \in Host : home' = [home EXCEPT ![r] = h]
    /\ UNCHANGED startedOn

Start(r) ==
    /\ startedOn[r] = {} /\ phase[r] # "unborn"
    /\ \E h \in Host :
         /\ home[r] \in {h, NoHost}
         /\ startedOn' = [startedOn EXCEPT ![r] = {h}]
    /\ UNCHANGED <<phase, home>>

Confirm(r) ==
    /\ phase[r] = "placed" /\ startedOn[r] = {home[r]}
    /\ phase' = [phase EXCEPT ![r] = "active"]
    /\ UNCHANGED <<home, startedOn>>

Remove(r) ==
    /\ phase[r] \in {"placed", "active"}
    /\ phase' = [phase EXCEPT ![r] = "removed"]
    /\ home' = [home EXCEPT ![r] = NoHost]
    /\ UNCHANGED startedOn

Next == \E r \in Replica : Place(r) \/ Start(r) \/ Confirm(r) \/ Remove(r)

Spec == Init /\ [][Next]_<<phase, home, startedOn>>
=============================================================================
