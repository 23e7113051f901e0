------------------------------ MODULE AttachOnce ------------------------------
(***************************************************************************)
(* What RepositoryMutationPEP promises about the attach effects it         *)
(* admits, without processes, budgets, clocks or failures: an authority    *)
(* effect key is spent on at most one effect; an effect lands on the ref   *)
(* at most once, and only after it was recorded as attempted; what is      *)
(* recorded as its outcome is final, and an effect recorded as having had  *)
(* no effect never lands.                                                  *)
(***************************************************************************)
CONSTANTS
    Effects,     \* the effects that may be proposed
    Key          \* the authority effect key each effect would spend

VARIABLES
    phase,   \* "none", "admitted", "attempted", "applied" or "no_effect"
    landed   \* the effects whose compare-and-swap moved the ref

Phases == {"none", "admitted", "attempted", "applied", "no_effect"}

AttachInit ==
    /\ phase = [e \in Effects |-> "none"]
    /\ landed = {}

Become(e, from, to) ==
    /\ phase[e] = from
    /\ phase' = [phase EXCEPT ![e] = to]
    /\ UNCHANGED landed

Admit(e) ==
    /\ \A d \in Effects : Key[d] = Key[e] => phase[d] = "none"
    /\ Become(e, "none", "admitted")

Attempt(e) == Become(e, "admitted", "attempted")
Applied(e) == Become(e, "attempted", "applied")
NoEffect(e) == e \notin landed /\ Become(e, "attempted", "no_effect")

Land(e) ==
    /\ phase[e] \in {"attempted", "applied"}
    /\ e \notin landed
    /\ landed' = landed \cup {e}
    /\ UNCHANGED phase

AttachNext ==
    \E e \in Effects : Admit(e) \/ Attempt(e) \/ Applied(e) \/ NoEffect(e) \/ Land(e)

AttachSpec == AttachInit /\ [][AttachNext]_<<phase, landed>>
===============================================================================
