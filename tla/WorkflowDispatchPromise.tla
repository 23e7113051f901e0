----------------------- MODULE WorkflowDispatchPromise -----------------------
(***************************************************************************)
(* What the mediated dispatch of a workflow promises, over the ledger of   *)
(* the bridge, the fence and the workflow's runs.  WorkflowDispatch says   *)
(* how it is kept.                                                         *)
(***************************************************************************)
EXTENDS EffectFence

CONSTANTS
    RequestIds,
    RequestId, ExpectedHead   \* of each comment

VARIABLES
    ledger,       \* by request id: none, or the state its claim comment shows
    runs,         \* the workflow's runs: [by, head, created] in the order of creation
    run, listed   \* the run each effect observed, and how many runs were listed then

\* A request id is dispatched at most once, over repeated comments, reruns of the
\* job, new admissions, crashes and lost answers.
OneDispatchPerRequestId ==
    \A j, k \in Keys :
        /\ calls[k] <= 1
        /\ calls[j] > 0 /\ calls[k] > 0 /\ j # k => RequestId[j.comment] # RequestId[k.comment]

\* A receipt on the control issue is backed by a reconciled fence row, although the
\* two are written apart, and a request denied for its head was never sent.
LedgerFollowsFence ==
    \A q \in RequestIds :
        /\ ledger[q] = "RECEIPT" =>
              \E k \in Keys : RequestId[k.comment] = q /\ fence[k] # None /\ fence[k].state = "RECONCILED"
        /\ ledger[q] = "DENIED" => \A k \in Keys : RequestId[k.comment] = q => calls[k] = 0

OwnRun(k, n) == {r \in 1..n : runs[r].by = k /\ runs[r].head = ExpectedHead[k.comment]}

\* When an effect's own run was listed at its observation, on the expected head, the
\* run it recorded is that run: the coarse created_at never excludes it.
ListedRunIsRecorded ==
    \A k \in Keys : fence[k] # None /\ fence[k].state = "RECONCILED" =>
        \A r \in OwnRun(k, listed[k]) : run[k] = r

\* request_digest is unique: one row per comment, whatever the admission.
SameComment(j, k) == j.comment = k.comment

DispatchEffects == INSTANCE EffectOnce WITH
    Effects <- Keys, Rivals <- SameComment, Late <- FALSE, phase <- Phase

\* Bridge, mediator, fence and provider keep the promise of EffectOnce; no outcome
\* that is unknown is ever resolved later.
DispatchImplementsEffectOnce == DispatchEffects!OnceSpec
===============================================================================
