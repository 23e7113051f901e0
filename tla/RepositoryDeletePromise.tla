----------------------- MODULE RepositoryDeletePromise -----------------------
(***************************************************************************)
(* What the mediated deletion of a branch promises, over its fence and     *)
(* over what happened to the branch.  RepositoryDelete says how it is kept.*)
(***************************************************************************)
EXTENDS EffectFence

VARIABLE gone   \* effects since whose prepare the branch has been absent once

\* "no second DELETE is ever issued": one DELETE at most per effect over reruns,
\* lost answers and late reconciliation, and its attempt is on record, so that it
\* is never denied and can still be resolved.
OneDeletePerEffect ==
    \A k \in Keys : calls[k] > 0 => calls[k] = 1 /\ fence[k] # None /\ fence[k].attempted

\* A RECONCILED delete is true although what is read may be outdated: since its
\* prepare the branch has really been absent.  That covers the effect of a DELETE
\* whose answer was lost, ALREADY_ABSENT and late reconciliation.
ReconciledWasAbsent ==
    \A k \in Keys : fence[k] # None /\ fence[k].state = "RECONCILED" => k \in gone

DeleteEffects == INSTANCE EffectOnce WITH
    Effects <- Keys, Rivals <- SameKey, Late <- TRUE, phase <- Phase

\* Fence, sandbox and backend keep the promise of EffectOnce.
DeleteImplementsEffectOnce == DeleteEffects!OnceSpec
===============================================================================
