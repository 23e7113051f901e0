------------------------------- MODULE RunCancel -------------------------------
(***************************************************************************)
(* Mediated cancellation of a workflow run: the mediator and its fence     *)
(* (src/cyber_lion/enterprise/actions_run_cancel_mediation.py) and the     *)
(* effect inside execute_actions_run_cancel (actions_run_cancel_runtime.py)*)
(*                                                                         *)
(* One run, which several requests may name.  GitHub accepts a cancel (202)*)
(* and carries it out later, while the run may complete by itself; others  *)
(* may cancel or re-run it.  trust is the version of what the admission    *)
(* binds besides the request.                                              *)
(***************************************************************************)
EXTENDS RunCancelPromise

CONSTANTS Requests, MaxTrust, MaxReruns

CancelConstants ==
    /\ Keys = [request : Requests, trust : 1..MaxTrust]
    /\ None \notin Keys /\ None \notin Row
    /\ MaxTrust \in Nat \ {0} /\ MaxReruns \in Nat

ASSUME CancelAssumption == CancelConstants

VARIABLES
    run,         \* the run's status, or its conclusion once completed
    cancelling,  \* an accepted cancel that is not carried out yet
    reruns, trust,
    post,        \* the provider's handling of each POST
    lost         \* effects whose worker died

provider == <<run, cancelling, reruns, post, calls, cancelled>>
vars == <<fence, pc, job, run, cancelling, reruns, trust, post, calls, cancelled, lost>>

Places == {"idle", "resolve", "prepare", "recheck", "attempt", "boundary", "fenced", "send", "wait",
           "observe", "observed", "reconcile", "failed"}

TypeOK ==
    /\ FenceType /\ pc \in [Workers -> Places]
    /\ run \in {"queued", "in_progress", "success", "cancelled"}
    /\ cancelling \in BOOLEAN /\ reruns \in 0..MaxReruns /\ trust \in 1..MaxTrust
    /\ post \in [Keys -> {"none", "sent", "accepted", "refused"}]
    /\ calls \in [Keys -> Nat]
    /\ cancelled \subseteq Keys /\ lost \subseteq Keys

Init ==
    /\ FenceInit
    /\ run \in {"queued", "in_progress"} /\ cancelling = FALSE
    /\ reruns = 0 /\ trust = 1
    /\ post = [k \in Keys |-> "none"]
    /\ cancelled = {} /\ lost = {}
-------------------------------------------------------------------------------
(* GitHub and the authority.                                               *)

Cancellable == run \in {"queued", "in_progress"}

RunMoves(s) ==
    /\ Cancellable /\ s \in {"in_progress", "success"} /\ s # run
    /\ run' = s
    /\ cancelling' = (cancelling /\ s # "success")
    /\ UNCHANGED <<fence, pc, job, trust, reruns, post, calls, cancelled, lost>>

CancelTakesEffect ==
    /\ Cancellable /\ cancelling
    /\ run' = "cancelled" /\ cancelling' = FALSE
    /\ cancelled' = {k \in Keys : fence[k] # None}
    /\ UNCHANGED <<fence, pc, job, trust, reruns, post, calls, lost>>

OtherCancels ==
    /\ Cancellable /\ ~cancelling /\ cancelling' = TRUE
    /\ UNCHANGED <<fence, pc, job, run, trust, reruns, post, calls, cancelled, lost>>

Rerun ==
    /\ ~Cancellable /\ reruns < MaxReruns
    /\ reruns' = reruns + 1 /\ run' = "queued"
    /\ UNCHANGED <<fence, pc, job, cancelling, trust, post, calls, cancelled, lost>>

ProviderAccepts(k) ==
    /\ post[k] = "sent" /\ Cancellable
    /\ post' = [post EXCEPT ![k] = "accepted"]
    /\ cancelling' = TRUE
    /\ UNCHANGED <<fence, pc, job, run, reruns, trust, calls, cancelled, lost>>
ProviderRefuses(k) ==
    /\ post[k] = "sent"
    /\ post' = [post EXCEPT ![k] = "refused"]
    /\ UNCHANGED <<fence, pc, job, run, cancelling, reruns, trust, calls, cancelled, lost>>

TrustChanges ==
    /\ trust < MaxTrust /\ trust' = trust + 1
    /\ UNCHANGED <<fence, pc, job, provider, lost>>
-------------------------------------------------------------------------------
(* CanonicalActionsRunCancelMediator.execute.                              *)

\* _validate_run: the run's workflow, event and head never change.
_validate_run == Cancellable

execute(w, r) ==
    /\ At(w, "idle") /\ _validate_run
    /\ job' = [job EXCEPT ![w] = [request |-> r, trust |-> trust]]
    /\ Goto(w, "resolve")
    /\ UNCHANGED <<fence, provider, trust, lost>>

resolve(w) ==
    /\ At(w, "resolve")
    /\ job' = [job EXCEPT ![w].trust = trust]
    /\ Goto(w, "prepare")
    /\ UNCHANGED <<fence, provider, trust, lost>>

\* Wrong variant: request_digest is not unique.
TakenEffect(k) == fence[k] # None

Taken(k) == \E j \in Keys : j.request = k.request /\ fence[j] # None

prepare(w) ==
    /\ At(w, "prepare")
    /\ Prepare(w, Taken(job[w]), "recheck", "idle")
    /\ UNCHANGED <<provider, trust, lost>>

Recheck(w) ==
    /\ At(w, "recheck")
    /\ GoOrRaise(w, trust = job[w].trust /\ _validate_run, "attempt")
    /\ UNCHANGED <<provider, trust, lost>>

mark_attempted(w) ==
    /\ At(w, "attempt")
    /\ MarkAttempted(w, "boundary")
    /\ UNCHANGED <<provider, trust, lost>>

\* cancel_exact: admission and run are looked at again, then the fence row.
cancel_exact(w) ==
    /\ At(w, "boundary")
    /\ GoOrRaise(w, trust = job[w].trust /\ _validate_run, "fenced")
    /\ UNCHANGED <<provider, trust, lost>>

FenceAttempted(w) ==
    /\ At(w, "fenced")
    /\ GoOrRaise(w, fence[job[w]].state = "ATTEMPTED", "send")
    /\ UNCHANGED <<provider, trust, lost>>

Post(w) ==
    /\ At(w, "send")
    /\ post' = [post EXCEPT ![job[w]] = "sent"]
    /\ Calls(w)
    /\ Goto(w, "wait")
    /\ UNCHANGED <<fence, job, run, cancelling, reruns, cancelled, trust, lost>>

PostAccepted(w) ==
    /\ At(w, "wait") /\ post[job[w]] = "accepted"
    /\ Goto(w, "observe")
    /\ UNCHANGED <<fence, job, provider, trust, lost>>
\* Any other status, an error or the timeout; the POST may still be handled.
PostFails(w) ==
    /\ At(w, "wait")
    /\ Raise(w)
    /\ UNCHANGED <<provider, trust, lost>>

\* Wrong variant: an accepted cancel is taken for a cancelled run.
ObservedAccepted == cancelling \/ run = "cancelled"

ObservedCancelled == run = "cancelled"

\* The run is read once, right after the POST was accepted.
Observe(w) ==
    /\ At(w, "observe")
    /\ GoOrRaise(w, ObservedCancelled, "observed")
    /\ UNCHANGED <<provider, trust, lost>>

mark_observed(w) ==
    /\ At(w, "observed")
    /\ MarkObserved(w, "reconcile")
    /\ UNCHANGED <<provider, trust, lost>>

mark_reconciled(w) ==
    /\ At(w, "reconcile")
    /\ MarkReconciled(w, "idle")
    /\ UNCHANGED <<provider, trust, lost>>

\* Wrong variant: only an attempted effect is marked.
MarkUnknownAttempted(w) ==
    /\ At(w, "failed")
    /\ fence' = IF fence[job[w]].state = "ATTEMPTED"
                THEN [fence EXCEPT ![job[w]].state = "UNKNOWN"] ELSE fence
    /\ Finish(w)
    /\ UNCHANGED <<provider, trust, lost>>

mark_unknown(w) ==
    /\ At(w, "failed")
    /\ MarkUnknown(w, "idle")
    /\ UNCHANGED <<provider, trust, lost>>

\* The process dies, or the last mark fails and its error is swallowed.
Crash(w) ==
    /\ ~At(w, "idle")
    /\ lost' = IF pc[w] \in {"resolve", "prepare"} THEN lost ELSE lost \cup {job[w]}
    /\ Finish(w)
    /\ UNCHANGED <<fence, provider, trust>>
-------------------------------------------------------------------------------
Step(w) ==
    \/ resolve(w) \/ prepare(w) \/ Recheck(w) \/ mark_attempted(w) \/ cancel_exact(w)
    \/ FenceAttempted(w) \/ Post(w) \/ PostAccepted(w) \/ PostFails(w) \/ Observe(w)
    \/ mark_observed(w) \/ mark_reconciled(w) \/ mark_unknown(w)

Provider ==
    \/ \E s \in {"in_progress", "success"} : RunMoves(s)
    \/ CancelTakesEffect \/ OtherCancels \/ Rerun \/ TrustChanges
    \/ \E k \in Keys : ProviderAccepts(k) \/ ProviderRefuses(k)

Next ==
    \/ Provider
    \/ \E w \in Workers :
        \/ \E r \in Requests : execute(w, r)
        \/ Step(w) \/ Crash(w)

Spec == Init /\ [][Next]_vars

\* A process that does not die goes on: its calls have timeouts.
FairSpec == Spec /\ \A w \in Workers : WF_vars(Step(w))
-------------------------------------------------------------------------------
(* Liveness; the other properties are in RunCancelPromise.                 *)

\* Every prepared cancellation gets a verdict, unless its process died.
EveryCancelGetsVerdict ==
    \A k \in Keys : (fence[k] # None) ~>
        (k \in lost \/ (fence[k] # None /\ fence[k].state \notin Undecided))
===============================================================================
