----------------------------- MODULE MCRegistry -----------------------------
(* Registry for TLC: the log is cut off after MaxIndex entries.             *)
EXTENDS Registry, TLC

CONSTANT MaxIndex

MCNext == reg.index < MaxIndex /\ Next

MCSpec == Init /\ [][MCNext]_reg

HostSymmetry == Permutations(Host)
=============================================================================
