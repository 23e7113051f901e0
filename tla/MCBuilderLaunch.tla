--------------------------- MODULE MCBuilderLaunch ---------------------------
(* One start admission that can be launched on either of two provider      *)
(* descriptors, by two workers, with as many processes as requests plus    *)
(* one to spare.                                                           *)
EXTENDS BuilderLaunch, TLC

Symmetric == Permutations(Workers) \cup Permutations(Descriptors) \cup Permutations(Launches)
==============================================================================
