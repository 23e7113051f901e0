------------------------- MODULE CommentWritePromise -------------------------
(***************************************************************************)
(* What a mediated issue comment promises, over its fence and over what    *)
(* happened on GitHub.  CommentWrite says how it is kept.                  *)
(***************************************************************************)
EXTENDS EffectFence

VARIABLE written   \* effects whose write happened

\* A RECONCILED effect really wrote: an update that finds its body already there,
\* because somebody else or an earlier attempt put it there, is not taken for one.
ReconciledWasWritten ==
    \A k \in Keys : fence[k] # None /\ fence[k].state = "RECONCILED" => k \in written

CommentEffects == INSTANCE EffectOnce WITH
    Effects <- Keys, Rivals <- SameKey, Late <- FALSE, phase <- Phase

\* A request under one admission is sent at most once, on a recorded attempt.
CommentImplementsEffectOnce == CommentEffects!OnceSpec
===============================================================================
