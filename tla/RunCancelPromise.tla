-------------------------- MODULE RunCancelPromise --------------------------
(***************************************************************************)
(* What the mediated cancellation of a run promises, over its fence and    *)
(* over what happened to the run.  RunCancel says how it is kept.          *)
(***************************************************************************)
EXTENDS EffectFence

VARIABLE cancelled   \* effects since whose prepare the run was cancelled once

\* RECONCILED says that the run was really cancelled since the request was prepared;
\* neither the acceptance of the POST nor an earlier cancellation, undone by a
\* re-run, is enough.
ReconciledWasCancelled ==
    \A k \in Keys : fence[k] # None /\ fence[k].state = "RECONCILED" => k \in cancelled

CancelEffects == INSTANCE EffectOnce WITH
    Effects <- Keys, Rivals <- SameRequest, Late <- FALSE, phase <- Phase

\* "replay has no second POST": one POST at most per request, whichever admission
\* carries it and however often it is executed again, on a recorded attempt.
CancelImplementsEffectOnce == CancelEffects!OnceSpec
===============================================================================
