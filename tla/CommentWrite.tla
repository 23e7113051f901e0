------------------------------ MODULE CommentWrite ------------------------------
(***************************************************************************)
(* Mediated issue comments: the mediator and its fence (src/cyber_lion/    *)
(* enterprise/issue_comment_write_mediation.py) and the effect inside      *)
(* execute_issue_comment_write (issue_comment_write_runtime.py).           *)
(*                                                                         *)
(* A CREATE request posts a new comment, named here by the effect that     *)
(* posted it; an UPDATE request patches the one comment `Target`, whose    *)
(* body it expects to know.  trust is the version of the authority that an *)
(* admission binds (lineage, epoch, state version); master is the head     *)
(* that requests expect.                                                   *)
(***************************************************************************)
EXTENDS FiniteSets, CommentWritePromise

CONSTANTS
    Requests,        \* [id, action, previous, body, head]
    Bodies, Target,
    MaxTrust, MaxMaster, MaxChanges, MaxEffects

CommentConstants ==
    /\ Keys = [request : Requests, trust : 1..MaxTrust]
    /\ None \notin Bodies /\ None \notin Keys /\ None \notin Row /\ Target \notin Keys
    /\ MaxTrust \in Nat \ {0} /\ MaxMaster \in Nat \ {0} /\ MaxChanges \in Nat /\ MaxEffects \in Nat
    /\ \A r \in Requests : /\ r.action \in {"CREATE_COMMENT", "UPDATE_OWN_CREATED_COMMENT"}
                           /\ r.body \in Bodies /\ r.head \in 1..MaxMaster

ASSUME CommentAssumption == CommentConstants

VARIABLES
    comments,      \* the body of each comment, or None
    master, trust,
    changes,       \* how often others have changed something
    http,          \* the provider's handling of each write
    lost           \* effects whose worker died

Ids == Keys \cup {Target}
env == <<master, trust, changes>>
provider == <<comments, http, calls, written>>
vars == <<fence, pc, job, comments, master, trust, changes, http, calls, written, lost>>

Places == {"idle", "check", "prepare", "recheck", "attempt", "boundary", "fenced", "send",
           "wait", "observe", "observed", "reconcile", "failed"}
Unprepared == {"check", "prepare"}

TypeOK ==
    /\ FenceType /\ pc \in [Workers -> Places]
    /\ comments \in [Ids -> Bodies \cup {None}]
    /\ master \in 1..MaxMaster /\ trust \in 1..MaxTrust /\ changes \in 0..MaxChanges
    /\ http \in [Keys -> {"none", "sent", "done", "refused"}] /\ calls \in [Keys -> Nat]
    /\ written \subseteq Keys /\ lost \subseteq Keys

Init ==
    /\ FenceInit
    /\ comments \in {[i \in Ids |-> IF i = Target THEN b ELSE None] : b \in Bodies}
    /\ master = 1 /\ trust = 1 /\ changes = 0
    /\ http = [k \in Keys |-> "none"]
    /\ written = {} /\ lost = {}
-------------------------------------------------------------------------------
(* GitHub, its other users, and the authority.                             *)

MasterMoves ==
    /\ changes < MaxChanges /\ changes' = changes + 1
    /\ master < MaxMaster /\ master' = master + 1
    /\ UNCHANGED <<fence, pc, job, trust, provider, lost>>
TrustChanges ==
    /\ changes < MaxChanges /\ changes' = changes + 1
    /\ trust < MaxTrust /\ trust' = trust + 1
    /\ UNCHANGED <<fence, pc, job, master, provider, lost>>
\* A comment is edited or deleted.
OtherEdits(i, b) ==
    /\ changes < MaxChanges /\ changes' = changes + 1
    /\ comments[i] \notin {None, b} /\ comments' = [comments EXCEPT ![i] = b]
    /\ UNCHANGED <<fence, pc, job, master, trust, http, calls, written, lost>>

\* The comment that an effect writes: its answer names it, or the request does.
IdOf(k) == IF k.request.action = "CREATE_COMMENT" THEN k ELSE Target

\* POST creates, PATCH overwrites whatever the comment says now.
ProviderWrites(k) ==
    /\ http[k] = "sent" /\ (k.request.action = "CREATE_COMMENT" \/ comments[Target] # None)
    /\ http' = [http EXCEPT ![k] = "done"]
    /\ comments' = [comments EXCEPT ![IdOf(k)] = k.request.body]
    /\ written' = written \cup {k}
    /\ UNCHANGED <<fence, pc, job, calls, env, lost>>
ProviderRefuses(k) ==
    /\ http[k] = "sent"
    /\ http' = [http EXCEPT ![k] = "refused"]
    /\ UNCHANGED <<fence, pc, job, calls, env, comments, written, lost>>
-------------------------------------------------------------------------------
(* CanonicalIssueCommentWriteMediator.execute.                             *)

Request(w) == job[w].request

\* master is the expected head and the comment to update says what is expected.
Current(r) ==
    /\ master = r.head
    /\ r.action = "UPDATE_OWN_CREATED_COMMENT" => comments[Target] = r.previous

\* Bounded: no call is made once MaxEffects rows exist.
execute(w, r) ==
    /\ At(w, "idle") /\ Cardinality({k \in Keys : fence[k] # None}) < MaxEffects
    /\ job' = [job EXCEPT ![w] = [request |-> r, trust |-> trust]]
    /\ Goto(w, "check")
    /\ UNCHANGED <<fence, env, provider, lost>>

CheckCurrent(w) ==
    /\ At(w, "check")
    /\ IF Current(Request(w)) THEN Goto(w, "prepare") /\ UNCHANGED job ELSE Finish(w)
    /\ UNCHANGED <<fence, env, provider, lost>>

\* Wrong variant: nothing is unique, a second prepare replaces the row.
NothingTaken(k) == FALSE

\* effect_key, and with it (request_digest, admission_digest), is unique.
Taken(k) == fence[k] # None

prepare(w) ==
    /\ At(w, "prepare")
    /\ Prepare(w, Taken(job[w]), "recheck", "idle")
    /\ UNCHANGED <<env, provider, lost>>

Recheck(w) ==
    /\ At(w, "recheck")
    /\ GoOrRaise(w, trust = job[w].trust /\ Current(Request(w)), "attempt")
    /\ UNCHANGED <<env, provider, lost>>

mark_attempted(w) ==
    /\ At(w, "attempt")
    /\ MarkAttempted(w, "boundary")
    /\ UNCHANGED <<env, provider, lost>>

\* write_exact: everything is looked at again at the effect boundary.
write_exact(w) ==
    /\ At(w, "boundary")
    /\ GoOrRaise(w, trust = job[w].trust /\ Current(Request(w)), "fenced")
    /\ UNCHANGED <<env, provider, lost>>

FenceAttempted(w) ==
    /\ At(w, "fenced")
    /\ GoOrRaise(w, fence[job[w]].state = "ATTEMPTED", "send")
    /\ UNCHANGED <<env, provider, lost>>

Send(w) ==
    /\ At(w, "send")
    /\ http' = [http EXCEPT ![job[w]] = "sent"]
    /\ Calls(w)
    /\ Goto(w, "wait")
    /\ UNCHANGED <<fence, job, env, comments, written, lost>>

\* Wrong variant: an id is made up when the answer does not name one.
AnswerAssumed(w) ==
    /\ At(w, "wait") /\ http[job[w]] \in {"done", "sent"}
    /\ Goto(w, "observe")
    /\ UNCHANGED <<fence, job, env, provider, lost>>

Answer(w) ==
    /\ At(w, "wait") /\ http[job[w]] = "done"
    /\ Goto(w, "observe")
    /\ UNCHANGED <<fence, job, env, provider, lost>>
\* Another status, no usable answer, or the timeout; the write may still happen.
SendFails(w) ==
    /\ At(w, "wait")
    /\ Raise(w)
    /\ UNCHANGED <<env, provider, lost>>

Observe(w) ==
    /\ At(w, "observe")
    /\ GoOrRaise(w, comments[IdOf(job[w])] = Request(w).body, "observed")
    /\ UNCHANGED <<env, provider, lost>>

mark_observed(w) ==
    /\ At(w, "observed")
    /\ MarkObserved(w, "reconcile")
    /\ UNCHANGED <<env, provider, lost>>

mark_reconciled(w) ==
    /\ At(w, "reconcile")
    /\ MarkReconciled(w, "idle")
    /\ UNCHANGED <<env, provider, lost>>

\* Wrong variant: only an attempted effect is marked.
MarkUnknownAttempted(w) ==
    /\ At(w, "failed")
    /\ fence' = IF fence[job[w]].state = "ATTEMPTED"
                THEN [fence EXCEPT ![job[w]].state = "UNKNOWN"] ELSE fence
    /\ Finish(w)
    /\ UNCHANGED <<env, provider, lost>>

mark_unknown(w) ==
    /\ At(w, "failed")
    /\ MarkUnknown(w, "idle")
    /\ UNCHANGED <<env, provider, lost>>

\* The process dies, or the last mark fails and its error is swallowed.
Crash(w) ==
    /\ ~At(w, "idle")
    /\ lost' = IF pc[w] \in Unprepared THEN lost ELSE lost \cup {job[w]}
    /\ Finish(w)
    /\ UNCHANGED <<fence, env, provider>>
-------------------------------------------------------------------------------
Step(w) ==
    \/ CheckCurrent(w) \/ prepare(w) \/ Recheck(w) \/ mark_attempted(w) \/ write_exact(w)
    \/ FenceAttempted(w) \/ Send(w) \/ Answer(w) \/ SendFails(w) \/ Observe(w)
    \/ mark_observed(w) \/ mark_reconciled(w) \/ mark_unknown(w)

Environment ==
    \/ MasterMoves \/ TrustChanges
    \/ \E i \in Ids, b \in Bodies \cup {None} : OtherEdits(i, b)
    \/ \E k \in Keys : ProviderWrites(k) \/ ProviderRefuses(k)

Next ==
    \/ Environment
    \/ \E w \in Workers :
        \/ \E r \in Requests : execute(w, r)
        \/ Step(w) \/ Crash(w)

Spec == Init /\ [][Next]_vars

\* A process that does not die goes on: its calls have timeouts.
FairSpec == Spec /\ \A w \in Workers : WF_vars(Step(w))
-------------------------------------------------------------------------------
(* Liveness; the other properties are in CommentWritePromise.              *)

\* Every prepared write gets a verdict, unless its process died.
EveryCommentGetsVerdict ==
    \A k \in Keys : (fence[k] # None) ~>
        (k \in lost \/ (fence[k] # None /\ fence[k].state \notin Undecided))
===============================================================================
