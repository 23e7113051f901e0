--------------------------- MODULE MCLiveAuthority ---------------------------
(* One lineage of two grants, in epoch 0 of two: its root can be revoked   *)
(* while its leaf is not, and epoch 1 can drop a revocation of epoch 0.    *)
EXTENDS LiveAuthority, TLC

MCLineages ==
    { [grants |-> {"g0", "g1"}, root |-> "g0", leaf |-> "g1", epoch |-> 0] }

\* Callers and evidence digests are only compared for equality.
ClientSymmetry == Permutations(Clients) \cup Permutations(Evidence)
==============================================================================
