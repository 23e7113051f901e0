------------------------------ MODULE EffectOnce ------------------------------
(***************************************************************************)
(* What a durable effect fence promises about the consequential provider   *)
(* calls behind it (delete a branch, dispatch a workflow, cancel a run,    *)
(* write a file or a comment), without processes, observations or          *)
(* failures: an effect whose binding is taken is never prepared; the       *)
(* provider is called at most once per effect, and only while the attempt  *)
(* is on record and has no verdict; a verdict is final, except that an     *)
(* attempt with an unknown outcome may be confirmed later where the fence  *)
(* supports it.                                                            *)
(***************************************************************************)
EXTENDS Naturals

CONSTANTS
    Effects,       \* the effect keys
    Rivals(_, _),  \* two effects that share a unique binding
    Late           \* whether an unknown outcome may be confirmed later

VARIABLES
    phase,   \* of each effect
    calls    \* how many provider calls were made for each effect

Phases == {"none", "prepared", "attempted", "confirmed", "unknown", "abandoned"}

OnceInit ==
    /\ phase = [e \in Effects |-> "none"]
    /\ calls = [e \in Effects |-> 0]

Become(e, from, to) ==
    /\ phase[e] = from
    /\ phase' = [phase EXCEPT ![e] = to]
    /\ UNCHANGED calls

Prepare(e) ==
    /\ \A d \in Effects : Rivals(d, e) => phase[d] = "none"
    /\ Become(e, "none", "prepared")

Attempt(e) == Become(e, "prepared", "attempted")
Abandon(e) == Become(e, "prepared", "abandoned")
Confirm(e) == Become(e, "attempted", "confirmed")
GiveUp(e) == Become(e, "attempted", "unknown")
Resolve(e) == Late /\ Become(e, "unknown", "confirmed")

Call(e) ==
    /\ phase[e] = "attempted" /\ calls[e] = 0
    /\ calls' = [calls EXCEPT ![e] = 1]
    /\ UNCHANGED phase

OnceNext ==
    \E e \in Effects :
        Prepare(e) \/ Attempt(e) \/ Abandon(e) \/ Confirm(e) \/ GiveUp(e) \/ Resolve(e) \/ Call(e)

OnceSpec == OnceInit /\ [][OnceNext]_<<phase, calls>>
-------------------------------------------------------------------------------
(* What follows for the provider.                                          *)

\* Of all the effects that share a binding, one makes one call, ever.
OneCallPerBinding ==
    \A d, e \in Effects :
        /\ calls[e] <= 1
        /\ Rivals(d, e) /\ calls[d] > 0 /\ calls[e] > 0 => d = e

\* A call made is a call on record: no verdict and no later prepare takes the
\* record of the attempt away.
CallsAreOnRecord ==
    \A e \in Effects : calls[e] > 0 => phase[e] \in {"attempted", "confirmed", "unknown"}
===============================================================================
