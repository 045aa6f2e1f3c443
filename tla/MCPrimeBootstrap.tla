-------------------------- MODULE MCPrimeBootstrap --------------------------
(* PrimeBootstrap for TLC: peer lists of one and three peers.               *)
EXTENDS PrimeBootstrap

CONSTANTS p1, p2, p3, j1, MaxIndex

OnePeer == <<p1>>
ThreePeers == <<p1, p2, p3>>

\* The registry is cut off after MaxIndex entries; the members an agent starts its
\* replica with do not depend on it.
RegistryBound == reg'.index <= MaxIndex

\* The behaviours in which the last peer alone initializes the cluster.
OneInitializer == \A a \in Host \ {p3} : agent'[a].next # "putShard"
=============================================================================
