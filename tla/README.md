# Verification of the Cyber Lion effect-control plane

This directory holds TLA+ models of the part of the repository that decides
whether an external effect may happen, and makes it happen at most once: the
durable stores, fences and enforcement points under `src/cyber_lion/enterprise`,
the coordination of the fleet that proposes the effects, and the operator's
control over running missions (`src/cyber_lion/mission_control`,
`src/tools/lion_mission_control_v3.py`). The models are checked by TLC on small
instances, and every safety property, action property and refinement that the
passing runs check is proved by TLAPS for every instance. `PROJECT.json` maps every
definition to the lines it models and lists the runs, the wrong variants each property was tried against, the hazards,
the finding and the theorems.

## 1. Inventory

### 1.1 The system

A fleet of agents proposes effects on repositories and processes: attach a
commit to a branch, delete a branch, dispatch a workflow, start a builder. Each
goes through a *policy enforcement point* that holds no authority of its own. It
asks other components for evidence, writes what it is about to do to a durable
SQLite table, calls an untrusted provider, and afterwards adjudicates what
happened from an independent observation.

| Component | State it keeps | Operations | Talks to |
|---|---|---|---|
| Fleet effect budget (`fleet_effect_budget.py`) | one envelope; a table of reservations RESERVED / RELEASED / FINALIZED / EXPIRED | `reserve_exact`, `get`, `validate_for_effect`, `release`, `finalize`, `snapshot` | trusted clock; called by the repository PEP |
| Live authority admission (`live_authority_admission.py`) | none | `admit`, `revalidate`, `finalize_binding` and the repository-ref forms | persistent authority state, canonical lineage source |
| Persistent authority state (`persistent_authority_state.py`) | epoch row (epoch, revocation list, version), root anchors, replay digests, issuance and launch tables | `bootstrap_context`, `advance_epoch`, `register_root`, `consume_replay`, `finalize_binding`, `record_builder_*` | all admission engines |
| Repository attach journal (`repository_mutation_state.py`) | one row per effect: PREPARED / RECONCILE_REQUIRED / APPLIED / FAILED_NO_EFFECT, attempt time | `prepare`, `mark_attempted`, `mark_applied`, `mark_failed_no_effect`, `mark_reconcile_required` | called by the repository PEP |
| Repository mutation PEP (`repository_mutation_pep.py`) | none of its own | `admit`, `execute`, reconciliation | journal, budget, live authority, repository provider, trusted observer |
| Builder start admission (`builder_start_admission.py`) | issuance table, replay digests | `issue_admission` | authority state, trusted sources |
| Builder process launch (`builder_process_launch.py`) | intents, held processes, receipts | `launch`, `contain_held_after_restart` | authority state, trusted sources, runtime provider |
| Builder permit chain R17-R20 | issuance tables | issue a permit from its predecessor | authority state |
| Delete fence, mediated cleanup (`repository_delete_fence.py`, `repository_maintenance_*.py`) | PREPARED / ATTEMPTED / OBSERVED / RECONCILED / UNKNOWN per delete; late reconciliations | `run_exact_request`, `execute_one`, `late_reconcile_unknown` | GitHub refs, whose read model lags |
| Workflow dispatch (`actions_dispatch_bridge*.py`, `workflow_dispatch_*.py`) | claims and receipts on the control issue; a fence | `execute` of bridge and mediator, `observe` | GitHub Actions |
| Run cancel (`actions_run_cancel_*.py`) | a fence | `execute` | GitHub Actions |
| File writes (`moon_file_write*.py`) | a fence; temporary files | `execute`, `write_exact` | the host's file system, GitHub permissions |
| Comment writes (`issue_comment_write_*.py`) | a fence | `execute`, `write_exact` | GitHub issues |
| Fleet coordination (`fleet_coordination_state.py`) | missions, generations, fencing tokens, leases, plans, event chain | open, `register_mission`, `plan`, `requeue`, `record_terminal` | drones |
| Operator control of missions (`operator_control.py`, `global_scheduler.py`, `execution_driver.py`, the driver loop of `lion_mission_control_v3.py`) | control row (epoch, owner, latches), driver row (generation, state), assignments, receipts | operator commands, claim, receipt, `drive_generic_once`, RESUME | operator gateway, Mission Control, workers: processes on one SQLite file |
| Merge admission | consumed merge authority | admit | live authority |
| Fleet status, reconciliation | status events | ingest, reconcile | drones, operators |
| Authority revocation | revocation decisions | revoke | `advance_epoch` |
| Mission registration and projections, application coordination, process language, start-up agent, other tools, browser broker | mostly read models and files | | |

The rows down to operator control are modelled, except the builder permit chain
(not) and the issuance tables and the mission phases behind them (in part). The
others are in `PROJECT.json` with the reason they are not, or not yet.

### 1.2 What is hard here

* **No component is atomic with another.** Journal, budget and authority are
  separate databases, and the provider is remote. A process can die between any
  two writes, and nothing repairs the pair except a later call.
* **Checks and their use are separate transactions.** Authority is read as epoch
  row, root row, epoch row, root row; budget and authority are validated before
  the provider call they guard.
* **Clocks are read before locks are taken**, so transactions reach a table in
  another order than their clock readings.
* **Provider answers may be lost, late or wrong.** A compare-and-swap whose answer
  was lost may still be applied; `commit_start` may open the gate and raise.
* **The remote side is not transactional.** GitHub deletes a ref whatever it points
  to, shows old refs for a while, accepts a cancel or a dispatch before it happens,
  and others act on the same branch, run, comment and file.
* **Threads write what they read earlier.** The driver loop and the RESUME handler
  read control and driver rows outside a transaction and update later; an
  operator command may come in between.
* **Nothing runs in the background** in the effect stores. Expired reservations stay RESERVED in the
  table until a later transaction notices them.
* **Authority can be withdrawn at any moment**, also for an ancestor of the grant
  in use, and a later epoch may forget earlier revocations.

### 1.3 What makes the components correct

* Budget: the four limits hold at all times; an effect or key is reserved once
  ever; closed rows stay closed; expired rows never block; one envelope governs.
* Authority: a binding is finalized only for a lineage never revoked; a nonce is
  accepted once; two equal readings mean that nothing happened in between.
* Repository mutation: one compare-and-swap per authority effect key, journaled
  and charged first; outcomes are final; FAILED_NO_EFFECT is only said when true.
* Builder launch: one process per request; every started process can be found
  again; a receipt is evidence of a start.
* Mediators behind a fence: one provider call per effect, on a recorded attempt; a
  RECONCILED verdict is true and final; every prepared effect gets a verdict.
* Coordination: running missions share nothing they write; a mission runs after its
  dependencies; only the latest dispatch reports; the store can be opened again.
* Operator control: no claimed work behind a latch or for a former owner; a result
  is accepted only under the epoch of its claim; what was fenced stays fenced.

## 2. Modules

| Module | Models |
|---|---|
| `BudgetTable` | the reservation table: its rows and what its SQL computes from a table and a clock reading. Shared by the next two. |
| `FleetEffectBudget` | `FleetEffectBudgetStore`: callers, clock readings, restarts, envelope binding. |
| `LiveAuthority` | `LiveAuthorityAdmission` over the epoch, root and replay tables. |
| `AttachOnce` | the abstract specification: what the repository PEP promises. |
| `RepositoryMutation` | the PEP composed with journal, budget table, authority state and branch provider; implements `AttachOnce`. |
| `BuilderLaunch` | `issue_admission`, `launch` and `contain_held_after_restart` with a runtime provider. |
| `EffectOnce` | the abstract specification: what a durable effect fence promises, and what follows from it for the provider. |
| `EffectFence` | the transactions that the five fences of the code repeat, the mediator's exception path and the count of provider calls. Extended by the next five, each of which implements `EffectOnce`. |
| `RepositoryDeletePromise`, `WorkflowDispatchPromise`, `RunCancelPromise`, `CommentWritePromise` | the safety properties and the refinement of the mediator of that name, over the part of its state that they mention. The mediator extends it and adds how the promise is kept; `MediatorProofs` extends all four. (`FileWrite` holds its own.) |
| `RepositoryDelete` | mediated branch deletion with sandbox, GitHub backend and late reconciliation. |
| `WorkflowDispatch` | dispatch bridge, its ledger, mediator, provider and observation of the run. |
| `FileWrite` | mediated write of a host file with its temporary file. |
| `RunCancel` | mediated cancellation of a workflow run. |
| `CommentWrite` | mediated creation and update of issue comments. |
| `FleetCoordination` | `FleetCoordinationStore`. |
| `OperatorControl` | operator commands against scheduler, driver loop and workers of one mission. |
| `MC*` | constants and symmetry sets for TLC. |
| `BudgetTableLemmas` | facts about the table operators, used by two proof modules. |
| `FleetEffectBudgetProofs`, `RepositoryMutationProofs`, `BuilderLaunchProofs`, `LiveAuthorityProofs`, `OperatorControlProofs`, `FleetCoordinationProofs` | theorems about the module of that name. |
| `MediatorProofs` | theorems about the fence and the five mediators: it extends `FileWrite` and the four promise modules, and instantiates the other four mediators. |

Definitions whose comment says "Wrong variant" are not used by any specification:
they are the plausible mistakes that each property was seen to catch.

### 2.1 BudgetTable and FleetEffectBudget

`rows` is `fleet_effect_reservation`, a function from reservation_id to a row or
`None`. `_expire_locked`, `Active`, `Replayed` and `SlotsFree` are the SQL
statements of the same methods. Each public operation is two steps because each
calls `_now()` before it takes the lock: `StartCall` (or `StampRequest` and
`ReserveClock`) saves the reading in `seen[c]`, the second step is the
`BEGIN IMMEDIATE` transaction. A denied transaction rolls its expiries back, as
the code's `ROLLBACK` does. `Crash` drops the store object, so that `Open` can
bind again, also with another envelope.

The expiry is kept twice: `expires_at` is the instant `reserve_exact` compares,
`expires_text` the instant whose UTC text the stored text is ordered like. SQL
compares texts. They agree for the UTC texts that the PEP writes, and the proofs
do not assume that they do.

Abstracted: digests (a request *is* what its digest binds), the validation of
field syntax, the JSON columns, and the counting in `snapshot` (its expiry is kept).

### 2.2 LiveAuthority

One authority context. `advance_epoch` may begin a later epoch with any revocation
list and only grow the list within an epoch, as the code allows. A lineage is a
set of grants with a root, a leaf and an epoch; signatures, scopes and the chain
from root to leaf are the data that `_authenticate_record` checks, abstracted to
root, epoch, revocation of any grant, and whether the call's `now` precedes every
expiry. Each of the four reads is a step, so other processes write in between.
`finalize_binding` is `revalidate` followed by the store's transaction, which
compares epoch, version, root and *leaf* revocation only, and consumes a key made of
receipt, runtime evidence and nonce (`FinalKey`): the same receipt and nonce with other
evidence is another key. `everRevoked` is a history variable.

### 2.3 RepositoryMutation and AttachOnce

A proposal is a budget request with its intent: expected and candidate commit,
grant, admission_id. A worker is one call of `admit` or `execute`; `pc` is the
place in the method. Every store transaction and remote call is a step. The
branch `head` can be moved by the provider and by others (`OtherPush`, to any
commit, the candidate included). A request has a state `cas` at the provider:
`sent` requests may be applied or refused at any later time, whether or not the
worker still waits (`CasReply`, `CasLost`, `Crash`). `execute` on an attempted
effect goes to the reconciliation path, `_reconcile_without_new_effect`, which
differs from the end of `execute` only in having no provider result.

A budget transaction reads the clock and runs in one step here. What an outdated
reading does to the table is the subject of `FleetEffectBudget`; the invariants
of `RepositoryMutation` do not depend on the clock.

Authority is the epoch version, the revoked grants and the expiry of the leaf: a
receipt is the version it was issued at, possibly an old one, since the caller
supplies it.

Refinement mapping: an effect's abstract `phase` is read from its journal row
(none; PREPARED without attempt: admitted; PREPARED with attempt or
RECONCILE_REQUIRED: attempted; APPLIED; FAILED_NO_EFFECT), and `landed` is the set
of effects whose request the provider applied. `AttachOnce` lets an effect land
after it was recorded as applied: reconciliation judges by the head of the branch,
which another writer may have moved to the candidate.

### 2.4 BuilderLaunch

A request stands for its replay digest, a hash of the start admission and the
runtime provider descriptor. `current` abstracts the baseline, authority, subject
and sentinel that `_currentness` and `issue_admission` compare: each is a trusted
source that may change (`Drift`), and all of them deny in the same way. The
runtime provider is external: `prepare_launch` makes a held process; `commit_start`
may open the gate or not, and may answer with the right identity, a wrong one or
not at all; observation and `freeze_or_kill` may fail. `Abort` stands for a crash,
and for an exception where the code cleans nothing up.

### 2.5 EffectFence, EffectOnce and the five mediators

All five fences have the same columns and updates: `prepare` inserts, `mark_attempted`
is the write-ahead record of the provider call, `mark_observed` and `mark_reconciled`
follow the observation, `mark_unknown` is what the `except` clause does before it
re-raises. They differ in which columns are unique, a parameter of `Prepare`. A
worker is one call of the mediator and `pc` its place; each transaction, remote call
and read of remote state is a step, and repeated reads with one verdict are one.
`trust` (in `FileWrite`, `permission`) stands for the evidence an admission binds: it
may change between any two steps. A provider call has a state of its own, so that it
may take effect after its worker gave up or died. `lost` marks effects whose worker
died; no code ever settles those, except late reconciliation of UNKNOWN deletes.

Refinement mapping (`PhaseOf`): no row, prepared, attempted (ATTEMPTED and OBSERVED),
confirmed, unknown (with an attempt) and abandoned (without). `calls` counts the
provider calls of each effect and is the same variable in both: `Call` of `EffectOnce`
takes it from 0 to 1, so that a mediator that calls a second time does not implement it.
(As a set of effects that were called it would hide the second call: adding an element
that is there is a stuttering step.) For `FileWrite` the call is the `link` or `replace`
that changes the file. `Rivals` says what the fence makes unique: the effect key
(delete, comments) or the request under any admission (dispatch, cancel, file). `Late`
holds for deletes only.

Particular to each: the `view` of the ref that catches up with the ref in a step of
its own; the whole-second `created_at` compared as text with a finer stamp, with two
ticks to a second; inodes, so that a rewritten file is told from the one that was
looked at; an accepted cancel that is carried out later; a created comment, known only
by the answer. In `FileWrite` every call between creating the temporary file and the
end of `write_exact` may fail, the unlink of the `finally` clause included: it swallows
`FileNotFoundError` only, so any other error leaves the file behind with the runner
alive (`stuck`) and replaces whatever outcome the write had. In `WorkflowDispatch` the
scan of the ledger reads every claim, and one whose state field was appended a second
time cannot be read (`Unreadable`): it refuses every request. `observe`, `Matching` and
the claim's `observation` model the bridge's second command for completeness; the checked
properties are about dispatching and do not depend on them. `WorkflowDispatch` has one bridge worker because the workflow's
concurrency group serialises the jobs (`src/.github/workflows/lion-actions-dispatch-bridge.yml:12-14`).

### 2.6 FleetCoordination

Rows, leases, plans and events are the tables; a dispatch is what its seed hashes
(request, mission, generation), and an event digest stands for the prefix it closes.
Opening is three steps, since chain, head and tables are read by separate statements;
every write is one transaction. The clock may be set back, and then nothing is written.

### 2.7 OperatorControl

`control`, `driver` and `row` are `mission_operator_control`, `mission_execution_drivers`
and `mission_execution_assignments` of one generic mission. A command is one
transaction that bumps the epoch, fences the driver's generation and cancels or
contains assignments. The driver loop and the RESUME handler are two threads whose
reads and writes are steps of their own; `seen` is what each has read. A worker
claims, works and posts, may lose the answer and post a failure afterwards, or die.
Between an accepted result and the next phase the driver loop takes six steps: the read
that finds the result, the check of autonomy (skipped when the plan already has its
action receipt, for example after a restart), the action receipt (`acted`), the phase,
and the read and the write that make the driver active again, over a pause in between.

BLOCKED counts as WAITING, and STOPPED, FAILED and BOOTSTRAP_PAUSED as PAUSED: this
code treats the members alike. Left out: amendments and approvals (they touch none of
this state), messages (they do: the gateway's fan-out creates assignments for the
recipients, `src/tools/lion_operator_gateway.py:278`, with the insert that is modelled
here for the driver loop), the reconciliation capability, which may reactivate the
driver inside a plan, HELD assignments, the proxy principal, the epoch floor of a
restored database, terminal missions and the loops for the built-in missions.

## 3. Runs

Fairness is assumed where the code bounds its own waiting: in the five mediators,
weak fairness of each worker's own steps (`Step`). Every remote call and SQLite
transaction there has a timeout, and every retry or visibility loop is bounded, so a
worker that does not die goes on. Starting a call, the other actors, the provider and
crashes are not fair. Elsewhere no fairness is assumed: every operation is started by a
caller who may never call again, and workers of missions may be gone for good.
Deadlock is checked where the instance never comes to rest. It is not in the
mediators, the coordination store and operator control: their effects, missions and
assignments are used up, and then they rightly stop.

| Run | Instance | Shows |
|---|---|---|
| `budget` (1,421,751 states) | 2 callers, 4 requests, 3 rival envelopes, clock 0..2 | limits, replay and durability, with outdated readings and rival envelopes |
| `budget_offset` (violation) | 1 request with an offset text | the finding |
| `authority` (1,617,519) | 2 clients, 1 lineage of 2 grants, 2 epochs, 3 epoch writes, 1 nonce, 1 receipt, 2 runtime evidences | replay and revocation |
| `mutation` (1,349,075) | 2 workers, 2 effects of one grant with one admission_id, clock 0..1, 2 versions, 1 foreign push | all properties of the PEP and its refinement of `AttachOnce` |
| `launch` (28,490) | 2 workers, 1 admission, 2 descriptors, 3 processes, 2 drifts | start, recovery and receipt properties |
| `delete` (50,207) | 2 workers, 1 execution, 2 heads (one safe), 1 change by others: of branch, ownership, master or trust | one DELETE, true verdicts, a verdict for all, `EffectOnce` |
| `dispatch` (283,216) | 1 worker, 2 comments with one request id, foreign runs, clock in half seconds | one dispatch, ledger against fence, run identity, claims settle, `EffectOnce` |
| `file_write` (83,224) | 2 workers, a create and a replace request, 3 permissions, 1 change by others | no overwriting create, true verdicts, temporary files, a verdict for all, `EffectOnce` |
| `run_cancel` (83,886) | 2 workers, 1 request, 3 trust versions, 2 re-runs | true verdicts, a verdict for all, `EffectOnce` |
| `comment_write` (112,933) | 2 workers, a create and an update request, no new call after 2 effects, 1 change by others: of comment, master or trust | true verdicts, a verdict for all, `EffectOnce` |
| `coordination` (1,205,752) | 3 missions with overlapping scopes, cyclic variants, 3 plan requests, 2 generations, clock 0..1 | sharing, fencing, restart and progress properties |
| `operator` (3,206,547) | 2 assignments, 3 epochs, 4 generations, 2 threads | containment, epochs, reassignment and late results |

### 3.1 Why the bounds are enough for the cases of interest

* `budget`: each limit is met alone: two requests share a branch, two a path on two
  branches, and two only their repository, which is full under one envelope, while
  under another the fleet's writers are; a fourth has a used effect and key. With
  three clock values a reading can be older than an expiry that another caller
  has recorded. Envelopes with different limits make substitution visible.
* `authority`: three writes allow revoke, new epoch without the revocation, and one
  more; the lineage's root can be revoked while the leaf is not; two clients race
  for one nonce and interleave with all four reads. New admissions stop at one receipt
  (`MaxReceipts`), which two clients may then finalize with two evidences.
* `mutation`: two workers are what every race of the code needs (two attempts, an
  attempt and a reconciliation, an admission and an admission). One foreign push
  can move the head away, or to the candidate. The first reservation expires at
  instant 1, between any two steps.
* `launch`: one request launched by both workers, and the second request that one
  admission yields when the provider is re-pinned; two drifts change a source and
  change it back; one process more than there are requests.
* The mediators: a row is written by the worker that inserted it, so two workers (a
  run and a rerun, or two runs) meet every conflict on a unique column; two trust
  versions are an admission that was overtaken, three in `run_cancel` one that is
  given anew. One act of somebody else falls between any two steps, and the provider's
  own delay and lost answers come on top.
* `dispatch`: one worker, as the concurrency group has it: the race of two jobs between
  reading and writing the ledger is excluded, not explored (`DispatchOneCall` is proved for
  any number of jobs). GitHub and the runner share one clock, which `ListedRunIsRecorded`
  relies on. Two comments with one request id; two runs, of which others may start
  either, so that a foreign run comes before or after the own; a clock with two
  instants in one second and one in the next.
* `coordination`: a directory and a file in it, a dependency that is registered after
  its dependent, a cycle over three missions closed by whichever is registered last, a
  requeue and a second generation, one request replayed and one reused with other
  contents. Tokens of the first generation arrive during the second.
* `operator`: the second assignment is the replacement of the first or the next phase;
  two commands are enough to fence and to hand back between a read and a write.

The bounds are the `Max...` constants, each in the guard of the actions that count.
The theorems hold for any value of those they mention. Symmetry is used in the
`budget`, `authority`, `mutation` and `launch` runs only, over sets no definition tells
apart; none of them checks liveness.

### 3.2 Properties

Every module states `TypeOK`, as the description of its state and the first conjunct
of its inductive invariant. It is proved where there are proofs; no run lists it.

*FleetEffectBudget.* `WithinLimits`: the four limits hold even when expired but
unmarked rows are counted, also after an attempt to bind another envelope. `NoReplay`:
one reservation ever per effect and key. `Durable`: the table is append-only and closed
rows are final.

*LiveAuthority.* `AcceptedOnce`: one receipt per admission key, one finalization per
receipt, runtime evidence and nonce. `RevocationIsForever`: the leaf-only lookup of the
finalizing transaction is enough, because the version is compared in it as well.

*RepositoryMutation.* `SpentOnce`, `BudgetFollowsJournal`, `ImplementsAttachOnce`. Proved
besides: `JournaledAndCharged`, `NoEffectIsTrue`, `OutcomeIsFinal`.

*BuilderLaunch.* `StartedOnce`, `Recoverable`, `ReceiptIsEvidence`.

*RepositoryDelete.* `OneDeletePerEffect`; `ReconciledWasAbsent`: a verdict read from a
lagging view is true all the same; `EveryEffectGetsVerdict`.

*WorkflowDispatch.* `OneDispatchPerRequestId` over new comments, admissions and reruns;
`LedgerFollowsFence`; `ListedRunIsRecorded`: comparing whole seconds with fractions as
text never hides the own run; `EveryClaimSettles`.

*FileWrite.* `CreateNeverOverwrites`, `ReconciledWasApplied`, `TempIsCollected` (unless
the runner died, or the unlink failed, which then shows as ATTEMPTED or UNKNOWN),
`EveryWriteGetsVerdict`. *RunCancel.* `ReconciledWasCancelled`,
`EveryCancelGetsVerdict`. *CommentWrite.* `ReconciledWasWritten`,
`EveryCommentGetsVerdict`. All five implement `EffectOnce`: `DeleteImplementsEffectOnce`,
`DispatchImplementsEffectOnce`, `FileImplementsEffectOnce`, `CancelImplementsEffectOnce`,
`CommentImplementsEffectOnce`.

*FleetCoordination.* `NoSharedWrites`, `LatestDispatchReports`, `RestartAccepts`,
`SomeMissionIsReady` (missions never wait in a circle).

*OperatorControl.* `Contained`: no claimed work behind a latch or for a former owner,
although two threads write what they read earlier; `AcceptedUnderOneEpoch`;
`ReplacedWhenIdle`; `CancelIsFinal`; `LateResultIsKept`.

### 3.3 Finding

`budget_offset`: `_expire_locked` and the SQL conditions order `expires_at` as text. A
reservation written with a positive UTC offset stays RESERVED past its expiry, and can
be closed after its envelope ended, although `reserve_exact` says "reservation cannot
outlive envelope". The PEP writes UTC texts, so this takes another caller of the store.

### 3.4 Known limits

What the models show the code does *not* promise. The properties above are worded so
as not to claim it; most of it lies in the remote interface.

* `LiveAuthority`: one receipt and nonce can be finalized again with other runtime
  evidence, since the evidence is part of the replay key.
* `RepositoryMutation`: authority and budget are checked before the compare-and-swap
  is sent and may lapse before it arrives. APPLIED is judged by the head, which
  another writer may have moved to the candidate.
* `BuilderLaunch`: if `commit_start` opens the gate and raises, `launch` raises with the
  builder running; `Recoverable` says that its held record finds it.
* `RepositoryDelete`: the DELETE names no head, so a push after the last read is deleted
  with the branch. An effect left ATTEMPTED by a dead worker is settled by nothing.
* `WorkflowDispatch`: while the own run is not listed yet, a foreign run of the same head
  may be recorded. When a claim is denied or its dispatch fails, the bridge appends a
  second `state` field to it (`actions_dispatch_bridge.py:91`, `:105`), which
  `actions_control_ledger.py:52` calls intentional; but `_ledger_match` reads every claim
  with `_kv_body`, which raises on a repeated field
  (`actions_dispatch_bridge_legacy.py:148`). From then on the `execute` of every request is
  refused, also of one never presented before. It fails closed: the safety properties
  hold, and `EveryClaimSettles` speaks of claims that were made. The bridge's own discovery compares instants and can miss a run
  created in the second of the request.
* `FileWrite`: `os.replace` overwrites what was written after the identity check. The
  temporary file of a runner that died, and one whose unlink failed, is swept by nothing.
* `CommentWrite`: uniqueness is over request and admission; under a newer admission the
  same request is posted again (`CommentOneCall` holds per admission only).
* `FleetCoordination`: opening the store next to a commit may refuse an intact store;
  opening it again succeeds (`RestartAccepts`).
* `OperatorControl`: a row whose PASS was accepted becomes STALE_RESULT when the worker
  lost the answer, posts FAIL and a command came in between; the ledger keeps the
  receipt. A generation bump under a claimed row gets its receipt refused, and
  `lease_expires_at` is never used to reclaim it. CANCEL_ASSIGNMENT of a claimed row
  without an epoch change keeps no evidence of the late result, so REASSIGN waits. The
  claim does not consult revoked capabilities; a revocation acts through the epoch, and
  RESUME binds READY rows to the current one. A driver row that a command fenced may be
  overwritten by an activation, or by the step to the next phase, that read it before. Two REASSIGNs of one cancelled row
  make two replacements.

## 4. Proofs

Every theorem holds for every value of the constants that satisfies the named
assumptions: `TableAssumption` (finitely many reservation ids, limits of at least 1,
times are naturals, `None` is none of the values), `BudgetAssumption`,
`MutationAssumption` (a reservation_id determines its proposal; one envelope; expected
and candidate differ; the reservation ends no later than the leaf), `LaunchAssumption`,
`AuthorityAssumption` (grants belong to one epoch), `ControlAssumption` (bounds of at
least 1, two distinct owners), `CoordinationAssumption` (`Order` lists every mission
once, no mission depends on itself, plans have room for one mission, `None` is no row).
The mediators name theirs as operators (`CancelConstants` and so on). `MediatorProofs`
brings all five together, by EXTENDS (`FileWrite`) or as instances (the other four, whose
promises it extends), and no choice of `Keys` fits all of them, so there they are hypotheses of the lemmas. TLC
evaluates every one of them on the instances (`FileConstants` in `MCFileWrite`, the
others in the mediator's own module).

| Theorem | States | For any |
|---|---|---|
| `BudgetSafety`, `BudgetNoReplay` | `[](TypeOK /\ OneEnvelope /\ WithinLimits /\ NoReplay)` | callers, requests, envelopes |
| `BudgetDurable` | `Durable` | |
| `MutationSafety`, `MutationBudget` | `[](TypeOK /\ SpentOnce /\ JournaledAndCharged /\ NoEffectIsTrue /\ BudgetFollowsJournal)` | workers, proposals |
| `MutationOutcomes` | `OutcomeIsFinal` | |
| `MutationRefines` | `ImplementsAttachOnce` | |
| `LaunchSafety`, `LaunchRecoverable`, `LaunchReceipts` | `[](TypeOK /\ StartedOnce /\ Recoverable /\ ReceiptIsEvidence)` | workers, admissions, descriptors, processes |
| `AuthorityTyped` | `[]TypeOK` | clients, lineages, nonces, epochs |
| `AuthorityAcceptsOnce` | `[]AcceptedOnce` | |
| `AuthorityRevocation` | `RevocationIsForever` | |
| `CancelSafety` | `[]ReconciledWasCancelled` | workers, requests, re-runs |
| `CommentSafety` | `[]ReconciledWasWritten` | workers, requests, bodies |
| `FileNeverOverwrites`, `FileSafety`, `FileTempSafety` | `[]CreateNeverOverwrites`, `[]ReconciledWasApplied`, `[]TempIsCollected` | workers, requests, permissions, other writers |
| `DeleteOnce`, `DeleteSafety` | `[]OneDeletePerEffect`, `[]ReconciledWasAbsent` | workers, executions, heads |
| `DispatchSafety` | `[]ListedRunIsRecorded` | jobs, comments, foreign runs |
| `DispatchOnce`, `DispatchLedger` | `[]OneDispatchPerRequestId`, `[]LedgerFollowsFence` | comments, foreign runs; one job at a time |
| `CancelRefines`, `CommentRefines`, `FileRefines`, `DeleteRefines`, `DispatchRefines` | the mediator's `...ImplementsEffectOnce` | as above; any number of bridge jobs |
| `CancelOneCall`, `CommentOneCall`, `FileOneCall`, `DeleteOneCall`, `DispatchOneCall` | `[](OneCallPerBinding /\ CallsAreOnRecord)` of `EffectOnce`, mapped to the mediator | as above; any number of bridge jobs |
| `ControlTyped`, `ControlContains`, `ControlAccepts`, `ControlReplaces` | `[]TypeOK`, `[]Contained`, `[]AcceptedUnderOneEpoch`, `[]ReplacedWhenIdle` | assignments, epochs, generations |
| `ControlCancels`, `ControlKeepsLate` | `CancelIsFinal`, `LateResultIsKept` | |
| `CoordinationTyped`, `CoordinationApart`, `CoordinationFences` | `[]TypeOK`, `[]NoSharedWrites`, `[]LatestDispatchReports` | missions, scopes, requests, processes |
| `CoordinationRestarts` | `[]RestartAccepts` | event chains of any length |
| `CoordinationProgresses` | `[]SomeMissionIsReady` | dependency graphs |

**Budget.** `WithinLimits` is not inductive: `Open` needs that no row exists before an
envelope is recorded, and `reserve_exact` that the caller's envelope is the recorded
one. `IInv` adds `OneEnvelope` and `InOperation` (a caller in an operation has a store
and a request). The argument is in `BudgetTableLemmas`: closing rows only shrinks the
sets that the limits count (`LimitsShrink`); after `_expire_locked` with the caller's
reading every RESERVED row is active at that reading, so that the counts
`reserve_exact` compared are the counts over all RESERVED rows, and one insertion adds
at most one to each (`LimitsInsert`). This is why an outdated reading is harmless: it
counts more rows, never fewer.

**Repository mutation.** `IInv = TypeOK /\ Local /\ Exclusive /\ Entries`. `Local` says
what a worker at each place relies on: while admitting, no journal row and a row that
is RESERVED or EXPIRED; from the attempt to the request, an attempted row and nothing
sent; FAILED_NO_EFFECT in hand only when the provider refused. `Exclusive`: no two
workers between reserving and preparing one effect, nor between recording its attempt
and sending. `Entries` relates journal, budget row and request. `SpentOnce` needs
`Exclusive`, which needs that `mark_attempted` succeeds once; `BudgetFollowsJournal` needs
that the worker who releases is the one who reserved. The refinement follows from the
same invariant: a step that writes the journal is an abstract step of that effect,
`ProviderSwap` is `Land`, everything else stutters.

**Builder launch.** `IInv = TypeOK /\ Evidence /\ Exclusive /\ Processes /\
ReceiptIsEvidence`. `Evidence` lists what each step of `launch` has on record;
`Exclusive` says that a worker about to prepare a process is the only one with its
request, and that no process was made for it before, which is what consuming the
replay digest before `prepare_launch` buys; `Processes` that no two processes share a
request.

**Live authority.** `AuthorityInv = Typed /\ Fresh /\ Keyed /\ AcceptedOnce`. `Fresh`: the
epoch row that a call has read is the current row or one of an older version, since
every write is a new version; what the call has authenticated, it authenticated against
that row; and the list of the current epoch holds every grant of that epoch ever
revoked, since within an epoch it only grows. So a receipt whose version is still
current had none of its grants revoked, which is why the finalizing transaction may
look up the leaf alone. `Keyed`: each receipt, finalization and admission about to return
has consumed a replay row that no other has.

**The fence.** The first part of `MediatorProofs` is about `EffectFence` alone. `FenceSafe`:
a worker past its `prepare` is the only one with its key, and its place tells the state
of its row. `FenceStep` lists what a step may do to fence and worker; `FenceKept` and
`PhasesKept` show that such a step keeps `FenceSafe` and is a step of `EffectOnce` or a
stutter. Each mediator shows that its actions are such steps, and adds what its own
evidence rests on: that its provider call was sent from a place behind
`mark_attempted` and by one worker only, and what an observation that led to OBSERVED
has really seen (the run cancelled after the prepare, the answer to the own POST, the
own inode at the target, the branch absent in a view that lags but never invents, the
only run on the expected head that is not older than the attempt).

**One call per binding.** What the abstract specification guarantees is proved once and
carried over by the refinements. `OnceInv` (each count is 0 or 1; an effect with a call
was attempted and never goes back; of two effects that share a binding one was never
prepared) is kept by every step of `EffectOnce` (`OnceKept`), for any symmetric relation
of sharing; `OneCallPerBinding` and `CallsAreOnRecord` follow. Read for each mediator this
says what a *newer admission* of the same request may repeat: nothing in the run-cancel,
file and dispatch mediators, whose fences hold the request unique, even for concurrent
bridge jobs, as long as they carry one comment; the provider call in the comment and
delete mediators, whose fences hold unique the request together with what its admission
bound (for a delete: the heads that were read, the execution and the authority).
`DispatchOnce` is stronger, one dispatch per request id over different comments, and
needs the bridge's ledger and therefore `OneJob`.

**Dispatch ledger.** The bridge's ledger is comments on an issue: reading it and
claiming in it are not atomic, and two jobs at a time could both claim. The workflow's
concurrency group runs one job of the bridge at a time; `OneJob` states this, as a
hypothesis of `DispatchOnce` and `DispatchLedger` alone. With it a claim precedes every
row of its request id, and a request id has one row.

**Operator control.** `ControlInv = Typed /\ Custody /\ Contained /\
AcceptedUnderOneEpoch`. `RowStep` and `WorkStep` say once for all actions what a step may
make of a row (`RowMoves`) and of the work on it (`WorkMoves`). `Contained` follows
because a command that sets a latch or changes the owner fences in the same
transaction, and a claim checks latches and owner in its own; what the two threads
have read plays no part, as they never claim. `AcceptedUnderOneEpoch` needs that a claimed
row carries the epoch of its claim, `ReplacedWhenIdle` that only cancelled or stale
rows have replacements and work is on claimed or cancel-requested rows only. That the
phase counter stays within its type needs a pigeonhole argument (`PhaseBound`): every
passed phase has a row of its own, and so has a phase whose plan is under way
(`PlanHasRow`).

**Coordination.** `CoordinationInv` has one conjunct per relation between the tables: the
leases are exactly those of the running missions' dispatches (`Leased`); running
missions are apart; a plan's dispatches are of registered missions and of no later
generation than the row's, and the row's dispatch was issued (`Planned`); an accepted
report has ended its mission with that very dispatch (`Ended`); the head counts the
events, which are ordered in time; the replay of the chain is the mission table; the
dependency graph has no cycle. The scan of `plan` and the replay are recursive functions,
and what they compute is proved by induction: `SetInduction` (a set that holds 0 and the
successors of its members holds every natural) follows from the well-foundedness of `<`,
and with the set of positions at which the claim holds it does what an induction rule
with a predicate would. `ScanPicks`: the missions that a plan picks are pending, distinct
and apart from each other and from all that run, because a candidate is compared with
the leases of the table and with the claims of those picked before it. `ReplayPrefix` and
`ReplayMany`: appended events leave what earlier ones told, and those of a plan set exactly
the rows of its missions. `SomeMissionIsReady` follows from the absence of cycles alone:
pending missions none of which is ready would each depend on another of them.

### 4.1 Only model-checked

Liveness: `EveryEffectGetsVerdict`, `EveryWriteGetsVerdict`, `EveryCancelGetsVerdict`,
`EveryCommentGetsVerdict` and `EveryClaimSettles`. They need fairness and `ENABLED`, which
the prover does not handle; TLC checks them on the instances of section 3. The violation
of `budget_offset` is a counterexample of TLC as well.

## 5. Not modelled

Signatures, digests and canonical encodings; the syntax checks of the contracts; file
permissions, store-origin records and process isolation; logging and evidence
formatting; candidate verification (its evidence is part of the proposal it binds).
SQLite is taken to give serializable `BEGIN IMMEDIATE` transactions and durable
commits. Components listed as not modelled are in `PROJECT.json`.

The map covers about 4,500 of the roughly 126,000 lines of Python in the repository.
Most of the rest has no protocol to model: field-by-field validation of contract
records, deterministic projections and renderings, static analysis, command-line
programs that read and write files once, snapshots of earlier versions
(`src/LION/runtime_compat`), probes of the host. Validation and formatting inside the
modelled files is not claimed by the map either. The code with state over time that is
still left is in the plan.

## 6. Plan

Done: budget, live authority, repository mutation, builder start and launch, the five
mediators behind the effect fence, fleet coordination, operator control. Of the models
still to come, in order of importance:

1. `BuilderPermits`: the R17-R20 chain (authorization, entry permit, invocation permit,
   consumption), each consuming a replay digest and then recording an issuance;
   composed with `BuilderLaunch` through the start admission. Property: every started
   process goes back to one authorization, none is used twice.
2. `AuthorityRevocation` and merge admission over `LiveAuthority`.
3. The effect admission broker (`src/tools/lion_effect_admission_broker.py`).
4. Fleet status ingestion and reconciliation; application coordination; the loops of
   the built-in missions in Mission Control.

Proofs to come: lemmas that carry `LiveAuthority`'s invariant over to the epoch version
that `RepositoryMutation` uses in its place, and the modules above as they come.
