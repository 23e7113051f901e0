--------------------------- MODULE RepositoryDelete ---------------------------
(***************************************************************************)
(* Mediated deletion of a branch: run_exact_request, execute_one and late  *)
(* reconciliation (src/cyber_lion/enterprise/repository_maintenance_media- *)
(* ted_cleanup.py), the delete sandbox, the GitHub backend and the delete  *)
(* fence.                                                                  *)
(*                                                                         *)
(* One branch.  GitHub's DELETE of a ref is unconditional, and its read    *)
(* model may lag behind (the comment in delete_exact_branch_ref): branch_- *)
(* sha returns `view`, which catches up with `ref` in a step of its own.   *)
(* The tree of master is a function of master and is left out.  trust is   *)
(* the version of everything the admission binds besides the repository:   *)
(* bundle, context, authority state, PDP decision.  Reads of the repository*)
(* made in a row with one verdict are one step.                            *)
(***************************************************************************)
EXTENDS RepositoryDeletePromise

CONSTANTS
    Executions,        \* execution_id: workflow run and attempt
    Heads,             \* commits the branch may point to
    Safe,              \* the heads that classify as A or B
    MaxMaster, MaxTrust, MaxChanges

DeleteConstants ==
    /\ Keys = [execution : Executions, head : Safe, master : 1..MaxMaster, trust : 1..MaxTrust]
    /\ Safe \subseteq Heads /\ None \notin Heads /\ None \notin Keys /\ None \notin Row
    /\ MaxMaster \in Nat \ {0} /\ MaxTrust \in Nat \ {0} /\ MaxChanges \in Nat

ASSUME DeleteAssumption == DeleteConstants

VARIABLES
    ref, view,        \* the branch and what GitHub's read model shows of it
    master, trust,
    blocked,          \* the branch has an open pull request or an active owner
    changes,          \* how often others have changed something
    late,             \* repository_delete_late_reconciliation: its keys
    del,              \* the provider's handling of each DELETE
    lost              \* effects whose worker died (or could not write its verdict)

environment == <<master, trust, blocked, changes>>
provider == <<ref, view, del, calls, gone>>
vars == <<fence, pc, job, ref, view, master, trust, blocked, changes, late,
          del, calls, gone, lost>>

Places == {"idle", "admit", "prepare", "recheck", "authorize", "attempt", "sandbox", "current",
           "send", "wait", "readback", "observe", "observed", "reconcile", "failed",
           "late_observe", "late_record"}

TypeOK ==
    /\ FenceType /\ pc \in [Workers -> Places]
    /\ ref \in Heads \cup {None} /\ view \in Heads \cup {None}
    /\ master \in 1..MaxMaster /\ trust \in 1..MaxTrust
    /\ blocked \in BOOLEAN /\ changes \in 0..MaxChanges
    /\ late \subseteq Keys /\ gone \subseteq Keys /\ lost \subseteq Keys
    /\ del \in [Keys -> {"none", "sent", "done", "refused"}]
    /\ calls \in [Keys -> Nat]

Init ==
    /\ FenceInit
    /\ ref \in Heads /\ view = ref
    /\ master = 1 /\ trust = 1 /\ blocked = FALSE /\ changes = 0
    /\ late = {} /\ gone = {} /\ lost = {}
    /\ del = [k \in Keys |-> "none"]

Recorded == {k \in Keys : fence[k] # None}
-------------------------------------------------------------------------------
(* The world.                                                              *)

MasterMoves ==
    /\ changes < MaxChanges /\ changes' = changes + 1
    /\ master < MaxMaster /\ master' = master + 1
    /\ UNCHANGED <<fence, pc, job, trust, blocked, provider, late, lost>>

TrustChanges ==
    /\ changes < MaxChanges /\ changes' = changes + 1
    /\ trust < MaxTrust /\ trust' = trust + 1
    /\ UNCHANGED <<fence, pc, job, master, blocked, provider, late, lost>>

\* A pull request is opened or an owner becomes active, or the reverse.
OwnershipChanges ==
    /\ changes < MaxChanges /\ changes' = changes + 1
    /\ blocked' = ~blocked
    /\ UNCHANGED <<fence, pc, job, master, trust, provider, late, lost>>

\* Somebody else moves, recreates or deletes the branch.
OtherWrites(h) ==
    /\ changes < MaxChanges /\ h # ref
    /\ changes' = changes + 1
    /\ ref' = h
    /\ gone' = IF h = None THEN gone \cup Recorded ELSE gone
    /\ UNCHANGED <<fence, pc, job, master, trust, blocked, view, del, calls, late, lost>>

Converge ==
    /\ view # ref /\ view' = ref
    /\ UNCHANGED <<fence, pc, job, environment, ref, del, calls, gone, late, lost>>

\* DELETE /git/refs/heads/<branch>: 204 when there was a ref, whatever it was.
ProviderDelete(k) ==
    /\ del[k] = "sent" /\ ref # None
    /\ ref' = None
    /\ del' = [del EXCEPT ![k] = "done"]
    /\ gone' = gone \cup Recorded
    /\ UNCHANGED <<fence, pc, job, environment, view, calls, late, lost>>
ProviderRefuse(k) ==
    /\ del[k] = "sent"
    /\ del' = [del EXCEPT ![k] = "refused"]
    /\ UNCHANGED <<fence, pc, job, environment, ref, view, calls, gone, late, lost>>
-------------------------------------------------------------------------------
(* execute_one.                                                            *)

Target(w) == job[w]

\* The repository reads that recur: master, its tree and the branch head; and the
\* classification A or B from ancestry, pull requests and ownership.
Current(w) == master = Target(w).master /\ view = Target(w).head
Eligible(h) == h \in Safe /\ ~blocked

run_exact_request(w, e, h) ==
    /\ At(w, "idle") /\ view = h /\ Eligible(h)
    /\ job' = [job EXCEPT ![w] = [execution |-> e, head |-> h, master |-> master, trust |-> trust]]
    /\ Goto(w, "admit")
    /\ UNCHANGED <<fence, environment, provider, late, lost>>

\* Bundle, context, PDP and the authority snapshot become the admission.
Admit(w) ==
    /\ At(w, "admit")
    /\ job' = [job EXCEPT ![w].trust = trust]
    /\ Goto(w, "prepare")
    /\ UNCHANGED <<fence, environment, provider, late, lost>>

prepare(w) ==
    /\ At(w, "prepare")
    /\ Prepare(w, fence[Target(w)] # None, "recheck", "idle")
    /\ gone' = IF ref = None /\ Target(w) \notin Recorded THEN gone \cup {Target(w)} ELSE gone
    /\ UNCHANGED <<environment, ref, view, del, calls, late, lost>>

Recheck(w) ==
    /\ At(w, "recheck")
    /\ GoOrRaise(w, trust = Target(w).trust /\ Current(w), "authorize")
    /\ UNCHANGED <<environment, provider, late, lost>>

authorize_canonical_delete(w) ==
    /\ At(w, "authorize")
    /\ GoOrRaise(w, /\ fence[Target(w)].state = "PREPARED"
                    /\ Current(w) /\ Eligible(Target(w).head), "attempt")
    /\ UNCHANGED <<environment, provider, late, lost>>

mark_attempted(w) ==
    /\ At(w, "attempt")
    /\ MarkAttempted(w, "sandbox")
    /\ UNCHANGED <<environment, provider, late, lost>>

\* RepositoryMaintenanceSandbox.execute_delete: a branch that is already absent is
\* an outcome (ALREADY_ABSENT), without a DELETE.
execute_delete(w) ==
    /\ At(w, "sandbox")
    /\ IF master = Target(w).master /\ view = None
       THEN Goto(w, "observe") /\ UNCHANGED <<fence, job>>
       ELSE GoOrRaise(w, Current(w) /\ Eligible(Target(w).head), "current")
    /\ UNCHANGED <<environment, provider, late, lost>>

delete_exact_branch_ref(w) ==
    /\ At(w, "current")
    /\ GoOrRaise(w, Current(w), "send")
    /\ UNCHANGED <<environment, provider, late, lost>>

_delete_exact_branch_ref_http(w) ==
    /\ At(w, "send")
    /\ del' = [del EXCEPT ![Target(w)] = "sent"]
    /\ Calls(w)
    /\ Goto(w, "wait")
    /\ UNCHANGED <<fence, job, environment, ref, view, gone, late, lost>>

DeleteReply(w) ==
    /\ At(w, "wait") /\ del[Target(w)] = "done"
    /\ Goto(w, "readback")
    /\ UNCHANGED <<fence, job, environment, provider, late, lost>>
\* Wrong variant: a failed DELETE is sent again.
DeleteRetried(w) ==
    /\ At(w, "wait")
    /\ Goto(w, "send")
    /\ UNCHANGED <<fence, job, environment, provider, late, lost>>

\* Any other status, an error or a timeout; the DELETE may still be handled.
DeleteFails(w) ==
    /\ At(w, "wait")
    /\ Raise(w)
    /\ UNCHANGED <<environment, provider, late, lost>>

\* Wrong variant: the branch is not looked at.
AbsentAssumed(w) == master = Target(w).master

Absent(w) == master = Target(w).master /\ view = None

\* The sandbox's readback, after the bounded wait for the read model.
Readback(w) ==
    /\ At(w, "readback")
    /\ GoOrRaise(w, Absent(w), "observe")
    /\ UNCHANGED <<environment, provider, late, lost>>

\* The independent observation of execute_one.
Observe(w) ==
    /\ At(w, "observe")
    /\ GoOrRaise(w, Absent(w), "observed")
    /\ UNCHANGED <<environment, provider, late, lost>>

mark_observed(w) ==
    /\ At(w, "observed")
    /\ MarkObserved(w, "reconcile")
    /\ UNCHANGED <<environment, provider, late, lost>>

mark_reconciled(w) ==
    /\ At(w, "reconcile")
    /\ MarkReconciled(w, "idle")
    /\ UNCHANGED <<environment, provider, late, lost>>

\* Wrong variants: the row is opened again for a retry; only an effect that was not
\* attempted is marked.
MarkUnknownReopening(w) ==
    /\ At(w, "failed")
    /\ fence' = [fence EXCEPT ![Target(w)].state = "PREPARED"]
    /\ Finish(w)
    /\ UNCHANGED <<environment, provider, late, lost>>
MarkUnknownPrepared(w) ==
    /\ At(w, "failed")
    /\ fence' = IF fence[Target(w)].state = "PREPARED"
                THEN [fence EXCEPT ![Target(w)].state = "UNKNOWN"] ELSE fence
    /\ Finish(w)
    /\ UNCHANGED <<environment, provider, late, lost>>

mark_unknown(w) ==
    /\ At(w, "failed")
    /\ MarkUnknown(w, "idle")
    /\ UNCHANGED <<environment, provider, late, lost>>

\* The process dies; likewise when the fence database refuses the last mark, an
\* error that the except clause swallows.
Crash(w) ==
    /\ ~At(w, "idle")
    /\ lost' = lost \cup ({Target(w)} \cap Recorded)
    /\ Finish(w)
    /\ UNCHANGED <<fence, environment, provider, late>>
-------------------------------------------------------------------------------
(* late_reconcile_unknown_delete, run by an operator.                      *)

late_reconcile_unknown_delete(w, k) ==
    /\ At(w, "idle") /\ fence[k] # None
    /\ fence[k].state = "UNKNOWN" /\ fence[k].attempted
    /\ job' = [job EXCEPT ![w] = k]
    /\ Goto(w, "late_observe")
    /\ UNCHANGED <<fence, environment, provider, late, lost>>

\* Its errors are raised without marking anything.
LateObserve(w) ==
    /\ At(w, "late_observe")
    /\ IF Absent(w) THEN Goto(w, "late_record") /\ UNCHANGED job ELSE Finish(w)
    /\ UNCHANGED <<fence, environment, provider, late, lost>>

late_reconcile_unknown(w) ==
    /\ At(w, "late_record")
    /\ IF fence[Target(w)].state = "UNKNOWN" /\ fence[Target(w)].attempted /\ Target(w) \notin late
       THEN /\ fence' = [fence EXCEPT ![Target(w)].state = "RECONCILED"]
            /\ late' = late \cup {Target(w)}
       ELSE UNCHANGED <<fence, late>>
    /\ Finish(w)
    /\ UNCHANGED <<environment, provider, lost>>
-------------------------------------------------------------------------------
Step(w) ==
    \/ Admit(w) \/ prepare(w) \/ Recheck(w) \/ authorize_canonical_delete(w) \/ mark_attempted(w)
    \/ execute_delete(w) \/ delete_exact_branch_ref(w) \/ _delete_exact_branch_ref_http(w)
    \/ DeleteReply(w) \/ DeleteFails(w) \/ Readback(w) \/ Observe(w)
    \/ mark_observed(w) \/ mark_reconciled(w) \/ mark_unknown(w)
    \/ LateObserve(w) \/ late_reconcile_unknown(w)

Environment ==
    \/ MasterMoves \/ TrustChanges \/ OwnershipChanges \/ Converge
    \/ \E h \in Heads \cup {None} : OtherWrites(h)
    \/ \E k \in Keys : ProviderDelete(k) \/ ProviderRefuse(k)

Next ==
    \/ Environment
    \/ \E w \in Workers :
        \/ \E e \in Executions, h \in Heads : run_exact_request(w, e, h)
        \/ \E k \in Keys : late_reconcile_unknown_delete(w, k)
        \/ Step(w)
        \/ Crash(w)

Spec == Init /\ [][Next]_vars

\* A worker that does not die takes its next step: every remote call and every
\* transaction of the code has a timeout, and the visibility wait is bounded.
FairSpec == Spec /\ \A w \in Workers : WF_vars(Step(w))
-------------------------------------------------------------------------------
(* Liveness; the other properties are in RepositoryDeletePromise.          *)

\* Every effect that was prepared gets a verdict, unless its worker died.
EveryEffectGetsVerdict ==
    \A k \in Keys : (fence[k] # None) ~>
        (k \in lost \/ (fence[k] # None /\ fence[k].state \notin Undecided))
===============================================================================
