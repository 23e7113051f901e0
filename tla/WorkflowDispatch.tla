--------------------------- MODULE WorkflowDispatch ---------------------------
(***************************************************************************)
(* Mediated dispatch of a GitHub Actions workflow: the dispatch bridge     *)
(* (actions_dispatch_bridge.py and _legacy.py) that answers control        *)
(* comments, its ledger of claims and receipts on the control issue, the   *)
(* mediator and fence of workflow_dispatch_mediation.py, the provider of   *)
(* workflow_dispatch_github_effect.py, and the later observation of the    *)
(* run.                                                                    *)
(*                                                                         *)
(* All comments dispatch one workflow on one ref.  GitHub accepts a        *)
(* dispatch before its run exists, and others dispatch the same workflow.  *)
(* A run's created_at has whole seconds, the code's own stamps have        *)
(* fractions: a tick is a fraction of a second.  The mediator compares the *)
(* two as text ("...05Z" sorts after "...05.3+00:00"), the observer as     *)
(* points in time.                                                         *)
(***************************************************************************)
EXTENDS Sequences, FiniteSets, WorkflowDispatchPromise

CONSTANTS
    Comments,
    MaxHead, MaxTrust, MaxRuns, MaxClock

TicksPerSecond == 2

DispatchConstants ==
    /\ Keys = [comment : Comments, trust : 1..MaxTrust]
    /\ RequestId \in [Comments -> RequestIds] /\ ExpectedHead \in [Comments -> 1..MaxHead]
    /\ None \notin Keys /\ None \notin Row
    /\ MaxHead \in Nat \ {0} /\ MaxTrust \in Nat \ {0} /\ MaxRuns \in Nat /\ MaxClock \in Nat

ASSUME DispatchAssumption == DispatchConstants

VARIABLES
    clock, head, trust,
    post,            \* the provider's handling of each POST
    accepted,        \* accepted_at of each comment's execution (a local, then in the receipt)
    attempted_at,    \* of each effect
    observation,     \* by request id: the run of its observation receipt
    lost

bridge == <<ledger, accepted, observation>>
effect == <<attempted_at, run, listed>>
github == <<post, calls, runs>>
vars == <<fence, pc, job, clock, head, trust, post, calls, runs, ledger, accepted,
          attempted_at, run, listed, observation, lost>>

Places == {"idle", "ledger", "claim", "moved", "stamp", "resolve", "prepare", "recheck", "attempt",
           "post", "wait", "observe", "observed", "reconcile", "failed", "patch_failed", "receipt"}
Run == [by : Keys \cup {None}, head : 1..MaxHead, created : Nat]
Claims == {"none", "CLAIMED", "DENIED", "FAILED", "RECEIPT"}

TypeOK ==
    /\ FenceType /\ pc \in [Workers -> Places]
    /\ clock \in 0..MaxClock /\ head \in 1..MaxHead /\ trust \in 1..MaxTrust
    /\ post \in [Keys -> {"none", "sent", "accepted", "refused", "run"}]
    /\ calls \in [Keys -> Nat]
    /\ runs \in Seq(Run) /\ Len(runs) <= MaxRuns
    /\ ledger \in [RequestIds -> Claims]
    /\ accepted \in [Comments -> Nat] /\ attempted_at \in [Keys -> Nat]
    /\ run \in [Keys -> 0..MaxRuns] /\ listed \in [Keys -> 0..MaxRuns]
    /\ observation \in [RequestIds -> 0..MaxRuns]
    /\ lost \subseteq Comments

Init ==
    /\ FenceInit
    /\ clock = 0 /\ head = 1 /\ trust = 1
    /\ post = [k \in Keys |-> "none"] /\ runs = <<>>
    /\ ledger = [q \in RequestIds |-> "none"] /\ accepted = [c \in Comments |-> 0]
    /\ attempted_at = [k \in Keys |-> 0]
    /\ run = [k \in Keys |-> 0] /\ listed = [k \in Keys |-> 0]
    /\ observation = [q \in RequestIds |-> 0]
    /\ lost = {}

Seconds(t) == t \div TicksPerSecond
-------------------------------------------------------------------------------
(* The world.                                                              *)

Tick ==
    /\ clock < MaxClock /\ clock' = clock + 1
    /\ UNCHANGED <<fence, pc, job, head, trust, github, bridge, effect, lost>>
HeadMoves ==
    /\ head < MaxHead /\ head' = head + 1
    /\ UNCHANGED <<fence, pc, job, clock, trust, github, bridge, effect, lost>>
TrustChanges ==
    /\ trust < MaxTrust /\ trust' = trust + 1
    /\ UNCHANGED <<fence, pc, job, clock, head, github, bridge, effect, lost>>

NewRun(by) ==
    /\ Len(runs) < MaxRuns
    /\ runs' = Append(runs, [by |-> by, head |-> head, created |-> Seconds(clock)])
OtherDispatch ==
    /\ NewRun(None)
    /\ UNCHANGED <<fence, pc, job, clock, head, trust, post, calls, bridge, effect, lost>>

Accept(k) ==
    /\ post[k] = "sent" /\ post' = [post EXCEPT ![k] = "accepted"]
    /\ UNCHANGED <<fence, pc, job, clock, head, trust, calls, runs, bridge, effect, lost>>
Refuse(k) ==
    /\ post[k] = "sent" /\ post' = [post EXCEPT ![k] = "refused"]
    /\ UNCHANGED <<fence, pc, job, clock, head, trust, calls, runs, bridge, effect, lost>>
StartRun(k) ==
    /\ post[k] = "accepted" /\ NewRun(k)
    /\ post' = [post EXCEPT ![k] = "run"]
    /\ UNCHANGED <<fence, pc, job, clock, head, trust, calls, bridge, effect, lost>>
-------------------------------------------------------------------------------
(* execute of the bridge, up to the mediator.                              *)

Comment(w) == job[w].comment
Request(w) == RequestId[Comment(w)]
HeadCurrent(w) == head = ExpectedHead[Comment(w)]
Stay == UNCHANGED <<clock, head, trust, lost>>

execute(w, c) ==
    /\ At(w, "idle") /\ head = ExpectedHead[c]
    /\ job' = [job EXCEPT ![w] = [comment |-> c, trust |-> trust]]
    /\ Goto(w, "ledger")
    /\ UNCHANGED <<fence, github, bridge, effect>> /\ Stay

\* _kv_body raises on a repeated field, and a DENIED or FAILED claim has two states.
Unreadable(q) == ledger[q] \in {"DENIED", "FAILED"}

\* The scan of the control issue refuses a request id that a claim or a receipt names,
\* and fails on the first entry that it cannot read, whosever it is.
_ledger_match(w) ==
    /\ At(w, "ledger")
    /\ Leave(w, IF ledger[Request(w)] # "none" \/ \E q \in RequestIds : Unreadable(q)
                THEN "idle" ELSE "claim")
    /\ UNCHANGED <<fence, github, bridge, effect>> /\ Stay

Claim(w) ==
    /\ At(w, "claim")
    /\ ledger' = [ledger EXCEPT ![Request(w)] = "CLAIMED"]
    /\ Goto(w, "moved")
    /\ UNCHANGED <<fence, job, github, accepted, observation, effect>> /\ Stay

HeadMovedBeforeDispatch(w) ==
    /\ At(w, "moved")
    /\ IF HeadCurrent(w)
       THEN Goto(w, "stamp") /\ UNCHANGED <<job, ledger>>
       ELSE Finish(w) /\ ledger' = [ledger EXCEPT ![Request(w)] = "DENIED"]
    /\ UNCHANGED <<fence, github, accepted, observation, effect>> /\ Stay

Stamp(w) ==
    /\ At(w, "stamp")
    /\ accepted' = [accepted EXCEPT ![Comment(w)] = clock]
    /\ Goto(w, "resolve")
    /\ UNCHANGED <<fence, job, github, ledger, observation, effect>> /\ Stay

\* Wrong variant: the claim is left as it is.
PatchForgotten(w) ==
    /\ At(w, "patch_failed")
    /\ Finish(w)
    /\ UNCHANGED <<fence, github, bridge, effect>> /\ Stay

\* The except clause of execute: the request stays consumed.
PatchFailed(w) ==
    /\ At(w, "patch_failed")
    /\ ledger' = [ledger EXCEPT ![Request(w)] = "FAILED"]
    /\ Finish(w)
    /\ UNCHANGED <<fence, github, accepted, observation, effect>> /\ Stay

PatchReceipt(w) ==
    /\ At(w, "receipt")
    /\ ledger' = [ledger EXCEPT ![Request(w)] = "RECEIPT"]
    /\ Finish(w)
    /\ UNCHANGED <<fence, github, accepted, observation, effect>> /\ Stay
-------------------------------------------------------------------------------
(* execute of the mediator.                                                *)

Resolve(w) ==
    /\ At(w, "resolve")
    /\ IF HeadCurrent(w)
       THEN job' = [job EXCEPT ![w].trust = trust] /\ Goto(w, "prepare")
       ELSE Goto(w, "patch_failed") /\ UNCHANGED job
    /\ UNCHANGED <<fence, github, bridge, effect>> /\ Stay

prepare(w) ==
    /\ At(w, "prepare")
    /\ Prepare(w, \E k \in Keys : SameComment(k, job[w]) /\ fence[k] # None, "recheck", "patch_failed")
    /\ UNCHANGED <<github, bridge, effect>> /\ Stay

Recheck(w) ==
    /\ At(w, "recheck")
    /\ GoOrRaise(w, trust = job[w].trust /\ HeadCurrent(w), "attempt")
    /\ UNCHANGED <<github, bridge, effect>> /\ Stay

mark_attempted(w) ==
    /\ At(w, "attempt")
    /\ MarkAttempted(w, "post")
    /\ attempted_at' = [attempted_at EXCEPT ![job[w]] = clock]
    /\ UNCHANGED <<github, bridge, run, listed>> /\ Stay

execute_exact(w) ==
    /\ At(w, "post")
    /\ IF fence[job[w]].state = "ATTEMPTED"
       THEN /\ post' = [post EXCEPT ![job[w]] = "sent"]
            /\ Calls(w)
            /\ Goto(w, "wait") /\ UNCHANGED <<fence, job>>
       ELSE Raise(w) /\ UNCHANGED <<post, calls>>
    /\ UNCHANGED <<runs, bridge, effect>> /\ Stay

PostReply(w) ==
    /\ At(w, "wait") /\ post[job[w]] \in {"accepted", "run"}
    /\ Goto(w, "observe")
    /\ UNCHANGED <<fence, job, github, bridge, effect>> /\ Stay

\* Wrong variant: a POST that timed out is sent again.
PostRetried(w) ==
    /\ At(w, "wait")
    /\ Goto(w, "post")
    /\ UNCHANGED <<fence, job, github, bridge, effect>> /\ Stay

PostFails(w) ==
    /\ At(w, "wait")
    /\ Raise(w)
    /\ UNCHANGED <<github, bridge, effect>> /\ Stay

\* Wrong variant: a run of the second of the attempt does not count.
CandidatesAfter(k) ==
    {r \in 1..Len(runs) : /\ runs[r].head = ExpectedHead[k.comment]
                          /\ runs[r].created > Seconds(attempted_at[k])}

\* created_at >= attempted_at, as text.
Candidates(k) ==
    {r \in 1..Len(runs) : /\ runs[r].head = ExpectedHead[k.comment]
                          /\ runs[r].created >= Seconds(attempted_at[k])}

Observe(w) ==
    /\ At(w, "observe")
    /\ IF Cardinality(Candidates(job[w])) = 1
       THEN /\ run' = [run EXCEPT ![job[w]] = CHOOSE r \in Candidates(job[w]) : TRUE]
            /\ listed' = [listed EXCEPT ![job[w]] = Len(runs)]
            /\ Goto(w, "observed") /\ UNCHANGED <<fence, job>>
       ELSE Raise(w) /\ UNCHANGED <<run, listed>>
    /\ UNCHANGED <<github, bridge, attempted_at>> /\ Stay

mark_observed(w) ==
    /\ At(w, "observed")
    /\ MarkObserved(w, "reconcile")
    /\ UNCHANGED <<github, bridge, effect>> /\ Stay

mark_reconciled(w) ==
    /\ At(w, "reconcile")
    /\ MarkReconciled(w, "receipt")
    /\ UNCHANGED <<github, bridge, effect>> /\ Stay

\* Wrong variants: the exception is swallowed and execute writes its receipt; the row
\* is reopened for a retry.
MarkUnknownSwallowed(w) ==
    /\ At(w, "failed")
    /\ MarkUnknown(w, "receipt")
    /\ UNCHANGED <<github, bridge, effect>> /\ Stay

MarkUnknownReopening(w) ==
    /\ At(w, "failed")
    /\ fence' = [fence EXCEPT ![job[w]] = [state |-> "PREPARED", attempted |-> FALSE]]
    /\ Leave(w, "patch_failed")
    /\ UNCHANGED <<github, bridge, effect>> /\ Stay

mark_unknown(w) ==
    /\ At(w, "failed")
    /\ MarkUnknown(w, "patch_failed")
    /\ UNCHANGED <<github, bridge, effect>> /\ Stay

\* The job dies, or a comment on the control issue cannot be patched.
Crash(w) ==
    /\ ~At(w, "idle")
    /\ lost' = lost \cup {Comment(w)}
    /\ Finish(w)
    /\ UNCHANGED <<fence, clock, head, trust, github, bridge, effect>>
-------------------------------------------------------------------------------
(* observe of the bridge, for an observation comment.                      *)

\* _matching_runs: created >= accepted, as points in time.
Matching(c) ==
    {r \in 1..Len(runs) : /\ runs[r].head = ExpectedHead[c]
                          /\ runs[r].created * TicksPerSecond >= accepted[c]}

\* The receipt of a request id names the comment that was executed for it.
Executed(q) ==
    {c \in Comments : RequestId[c] = q /\ \E k \in Keys : k.comment = c /\ fence[k] # None}

\* _dispatch_receipt_for, _discover_run and _wait_terminal; a timeout changes nothing.
observe(q) ==
    /\ ledger[q] = "RECEIPT" /\ observation[q] = 0
    /\ \E c \in Executed(q) :
          /\ Cardinality(Matching(c)) = 1
          /\ observation' = [observation EXCEPT ![q] = CHOOSE r \in Matching(c) : TRUE]
    /\ UNCHANGED <<fence, pc, job, clock, head, trust, github, ledger, accepted, effect, lost>>
-------------------------------------------------------------------------------
Step(w) ==
    \/ _ledger_match(w) \/ Claim(w) \/ HeadMovedBeforeDispatch(w) \/ Stamp(w)
    \/ Resolve(w) \/ prepare(w) \/ Recheck(w) \/ mark_attempted(w)
    \/ execute_exact(w) \/ PostReply(w) \/ PostFails(w) \/ Observe(w)
    \/ mark_observed(w) \/ mark_reconciled(w) \/ mark_unknown(w)
    \/ PatchFailed(w) \/ PatchReceipt(w)

Environment ==
    \/ Tick \/ HeadMoves \/ TrustChanges \/ OtherDispatch
    \/ \E k \in Keys : Accept(k) \/ Refuse(k) \/ StartRun(k)

Next ==
    \/ Environment
    \/ \E q \in RequestIds : observe(q)
    \/ \E w \in Workers :
        \/ \E c \in Comments : execute(w, c)
        \/ Step(w)
        \/ Crash(w)

Spec == Init /\ [][Next]_vars

\* The job has a time limit, and so has every request it makes.
FairSpec == Spec /\ \A w \in Workers : WF_vars(Step(w))
-------------------------------------------------------------------------------
(* Liveness and service; the other properties are in                       *)
(* WorkflowDispatchPromise.                                                *)

\* No claim is left open on the control issue, unless its job died.
EveryClaimSettles ==
    \A q \in RequestIds : ledger[q] = "CLAIMED" ~>
        (ledger[q] # "CLAIMED" \/ \E c \in lost : RequestId[c] = q)
===============================================================================
