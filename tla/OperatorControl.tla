---------------------------- MODULE OperatorControl ----------------------------
(***************************************************************************)
(* Operator control of one mission: the commands of the operator gateway   *)
(* (src/cyber_lion/mission_control/operator_control.py), the assignments,  *)
(* claims and receipts of the scheduler (global_scheduler.py), the driver  *)
(* row (execution_driver.py), and the two threads of Mission Control that  *)
(* write it (src/tools/lion_mission_control_v3.py): the driver loop on a   *)
(* generic mission and the handler of RESUME and DRIVER_START.             *)
(*                                                                         *)
(* Gateway, Mission Control and workers are separate processes on one      *)
(* SQLite file.  A command is a BEGIN IMMEDIATE transaction; a claim and a *)
(* receipt write before they read; they are atomic.  The two threads are   *)
(* not: they SELECT outside a transaction and UPDATE later.                *)
(*                                                                         *)
(* Assignments are numbered in the order of their creation.  BLOCKED       *)
(* counts as WAITING, and STOPPED, FAILED and BOOTSTRAP_PAUSED as PAUSED:  *)
(* this code treats the members of each group alike.                       *)
(***************************************************************************)
EXTENDS Naturals

CONSTANTS
    MaxRows, MaxEpoch, MaxGeneration,    \* bounds
    AUTONOMOUS, PRIMARY_OPERATOR         \* control owners

ASSUME ControlAssumption ==
    /\ {MaxRows, MaxEpoch, MaxGeneration} \subseteq Nat \ {0}
    /\ AUTONOMOUS # PRIMARY_OPERATOR

Owners == {AUTONOMOUS, PRIMARY_OPERATOR}
Threads == {"driver", "resume"}
Rows == 1..MaxRows
Fenced == {"CANCELLED", "CANCEL_REQUESTED", "STALE_RESULT"}
RowStates == {"FREE", "READY", "CLAIMED", "PASS", "FAIL"} \cup Fenced

VARIABLES
    control,   \* mission_operator_control: [epoch, owner, pause, stop]
    driver,    \* mission_execution_drivers: owned while ACTIVE under a lease
    row,       \* mission_execution_assignments
    phase,     \* the first phase that has not passed
    acted,     \* mission_generic_action_receipts: that phase's plan has been carried out
    pc, seen,  \* each thread: where it is, and what it has read
    worker,    \* the worker of each claimed row, with the generation it was given
    claimed,   \* the control epoch under which each row was claimed, 0 before
    ledger,    \* mission_execution_receipts: the epoch of acceptance, 0 before
    parent     \* the row that each row replaces, 0 for none

threads == <<pc, seen>>
workers == <<worker, claimed, ledger>>
vars == <<control, driver, row, phase, acted, pc, seen, worker, claimed, ledger, parent>>

Free == [state |-> "FREE", generation |-> 0, epoch |-> 0, authority |-> AUTONOMOUS, phase |-> 0]
Nothing == [generation |-> 0, epoch |-> 0]
Gone(at) == [at |-> at, generation |-> 0]

Epochs == 0..MaxEpoch
Generations == 0..MaxGeneration
Row == [state : RowStates, generation : Generations, epoch : Epochs, authority : Owners,
        phase : 0..MaxRows + 1]

TypeOK ==
    /\ control \in [epoch : 1..MaxEpoch, owner : Owners, pause : BOOLEAN, stop : BOOLEAN]
    /\ driver \in [generation : 1..MaxGeneration, state : {"ACTIVE", "WAITING", "PAUSED"}, owned : BOOLEAN]
    /\ row \in [Rows -> Row]
    /\ phase \in 1..MaxRows + 1
    /\ acted \in BOOLEAN
    /\ pc \in [Threads -> {"idle", "picked", "read", "write", "snapshot", "check",
                           "insert", "wait", "plan", "act", "pass", "select", "activate",
                           "epoch", "rebind"}]
    /\ seen \in [Threads -> [generation : Generations, epoch : Epochs]]
    /\ worker \in [Rows -> [at : {"none", "busy", "again", "done", "dead"}, generation : Generations]]
    /\ claimed \in [Rows -> Epochs]
    /\ ledger \in [Rows -> Epochs]
    /\ parent \in [Rows -> 0..MaxRows]

Init ==
    /\ control = [epoch |-> 1, owner |-> AUTONOMOUS, pause |-> FALSE, stop |-> FALSE]
    /\ driver = [generation |-> 1, state |-> "PAUSED", owned |-> FALSE]
    /\ row = [a \in Rows |-> Free]
    /\ phase = 1
    /\ acted = FALSE
    /\ pc = [t \in Threads |-> "idle"]
    /\ seen = [t \in Threads |-> Nothing]
    /\ worker = [a \in Rows |-> Gone("none")]
    /\ claimed = [a \in Rows |-> 0]
    /\ ledger = [a \in Rows |-> 0]
    /\ parent = [a \in Rows |-> 0]
-------------------------------------------------------------------------------
In(s) == {a \in Rows : row[a].state = s}
IsNext(a) == row[a].state = "FREE" /\ \A b \in 1..a - 1 : row[b].state # "FREE"
IsLatest(a) == row[a].phase = phase /\ \A b \in a + 1..MaxRows : row[b].phase # phase

autonomy_allowed == control.owner = AUTONOMOUS /\ ~control.pause /\ ~control.stop

assignment_allowed(authority, epoch) ==
    /\ epoch = control.epoch
    /\ ~control.pause /\ ~control.stop
    /\ control.owner = authority
-------------------------------------------------------------------------------
(* apply_command: one transaction per command.                             *)

_bump_control(owner, pause, stop) ==
    /\ control.epoch < MaxEpoch
    /\ control' = [epoch |-> control.epoch + 1, owner |-> owner, pause |-> pause, stop |-> stop]

_driver_fence(state) ==
    /\ driver.generation < MaxGeneration
    /\ driver' = [generation |-> driver.generation + 1, state |-> state, owned |-> FALSE]

\* Wrong variant: claimed work is left alone.
FenceReadyOnly ==
    row' = [a \in Rows |-> IF row[a].state = "READY" THEN [row[a] EXCEPT !.state = "CANCELLED"] ELSE row[a]]

\* READY work is cancelled, claimed work is asked to stop.
_fence_assignments ==
    row' = [a \in Rows |-> CASE row[a].state = "READY" -> [row[a] EXCEPT !.state = "CANCELLED"]
                             [] row[a].state = "CLAIMED" -> [row[a] EXCEPT !.state = "CANCEL_REQUESTED"]
                             [] OTHER -> row[a]]

PAUSE_SCOPE ==
    /\ _bump_control(control.owner, TRUE, control.stop)
    /\ _driver_fence("PAUSED")
    /\ _fence_assignments
    /\ UNCHANGED <<phase, acted, threads, workers, parent>>

STOP_SCOPE ==
    /\ _bump_control(control.owner, TRUE, TRUE)
    /\ _driver_fence("PAUSED")
    /\ _fence_assignments
    /\ UNCHANGED <<phase, acted, threads, workers, parent>>

TAKE_CONTROL ==
    /\ _bump_control(PRIMARY_OPERATOR, control.pause, control.stop)
    /\ _driver_fence(driver.state)
    /\ _fence_assignments
    /\ UNCHANGED <<phase, acted, threads, workers, parent>>

\* What the operator prepared is handed to the scheduler, other READY work cancelled.
_release_assignment_handoff ==
    row' = [a \in Rows |->
         CASE row[a].state = "READY" /\ row[a].authority = PRIMARY_OPERATOR ->
                [row[a] EXCEPT !.generation = driver'.generation, !.epoch = control'.epoch,
                               !.authority = AUTONOMOUS]
           [] row[a].state = "READY" /\ row[a].authority # PRIMARY_OPERATOR ->
                [row[a] EXCEPT !.state = "CANCELLED"]
           [] row[a].state = "CLAIMED" -> [row[a] EXCEPT !.state = "CANCEL_REQUESTED"]
           [] OTHER -> row[a]]

RELEASE_CONTROL ==
    /\ _bump_control(AUTONOMOUS, control.pause, control.stop)
    /\ _driver_fence(driver.state)
    /\ _release_assignment_handoff
    /\ UNCHANGED <<phase, acted, threads, workers, parent>>

\* latches: those that the command releases.
RESUME_SCOPE(latches) ==
    /\ _bump_control(control.owner, control.pause /\ "pause" \notin latches,
                                    control.stop /\ "stop" \notin latches)
    /\ UNCHANGED <<driver, row, phase, acted, threads, workers, parent>>

\* Revocation reaches assignments through the epoch alone.
REVOKE_CAPABILITY ==
    /\ _bump_control(control.owner, control.pause, control.stop)
    /\ UNCHANGED <<driver, row, phase, acted, threads, workers, parent>>

CANCEL_ASSIGNMENT(a) ==
    /\ row[a].state \in {"READY", "CLAIMED"}
    /\ row' = [row EXCEPT ![a].state = IF @ = "CLAIMED" THEN "CANCEL_REQUESTED" ELSE "CANCELLED"]
    /\ UNCHANGED <<control, driver, phase, acted, threads, workers, parent>>

\* Wrong variant: a row that was asked to stop counts as stopped.
AwaitsClaimed(a) == row[a].state = "CLAIMED"

\* A worker may still be at it: the replacement has to wait.
AwaitsCheckpoint(a) == row[a].state \in {"CLAIMED", "CANCEL_REQUESTED"}

ReassignWaits(a) ==
    /\ AwaitsCheckpoint(a)
    /\ _driver_fence(driver.state)
    /\ row' = [row EXCEPT ![a].state = "CANCEL_REQUESTED"]
    /\ UNCHANGED <<control, phase, acted, threads, workers, parent>>

\* Row b replaces row a; the other READY rows follow the new generation.
ReassignReplaces(a, b) ==
    /\ row[a].state \in {"READY"} \cup Fenced
    /\ ~AwaitsCheckpoint(a)
    /\ IsNext(b)
    /\ _driver_fence(driver.state)
    /\ row' = [c \in Rows |->
         CASE c = a -> [row[a] EXCEPT !.state = "CANCELLED"]
           [] c = b -> [state |-> "READY", generation |-> driver'.generation, epoch |-> control.epoch,
                        authority |-> PRIMARY_OPERATOR, phase |-> row[a].phase]
           [] row[c].state = "READY" /\ c # a -> [row[c] EXCEPT !.generation = driver'.generation]
           [] OTHER -> row[c]]
    /\ parent' = [parent EXCEPT ![b] = a]
    /\ UNCHANGED <<control, phase, acted, threads, workers>>

Command ==
    \/ PAUSE_SCOPE \/ STOP_SCOPE \/ TAKE_CONTROL \/ RELEASE_CONTROL \/ REVOKE_CAPABILITY
    \/ \E latches \in {{"pause"}, {"stop"}, {"pause", "stop"}} : RESUME_SCOPE(latches)
    \/ \E a \in Rows : CANCEL_ASSIGNMENT(a) \/ ReassignWaits(a)
    \/ \E a, b \in Rows : ReassignReplaces(a, b)
-------------------------------------------------------------------------------
(* Mission Control: pausing, and the two threads that move the driver.     *)

Go(t, label) == pc' = [pc EXCEPT ![t] = label]
Leave(t) == pc' = [pc EXCEPT ![t] = "idle"] /\ seen' = [seen EXCEPT ![t] = Nothing]

\* PAUSE, PAUSE_AUTO_RESUME and STOP of the mission's action menu.
PauseDriver ==
    /\ driver.state # "PAUSED"
    /\ driver' = [driver EXCEPT !.state = "PAUSED", !.owned = FALSE]
    /\ UNCHANGED <<control, row, phase, acted, threads, workers, parent>>

\* RESUME or DRIVER_START: autonomy is checked once, at the start.
Resume ==
    /\ pc["resume"] = "idle"
    /\ autonomy_allowed
    /\ Go("resume", "read")
    /\ UNCHANGED <<control, driver, row, phase, acted, seen, workers, parent>>

\* eligible_missions
next_dispatch ==
    /\ pc["driver"] = "idle"
    /\ autonomy_allowed
    /\ driver.state # "PAUSED"
    /\ Go("driver", "picked")
    /\ UNCHANGED <<control, driver, row, phase, acted, seen, workers, parent>>

\* The lease of an active driver is renewed.
heartbeat(t) ==
    /\ driver.state = "ACTIVE"
    /\ driver' = [driver EXCEPT !.owned = TRUE]
    /\ Go(t, "snapshot")

\* A phase without an assignment needs one and an active driver; with one that is open,
\* failed, or passed but short of a capability, the driver waits; a passed one has a plan
\* to carry out; a fenced one leaves the loop nothing to do.
drive_generic_once ==
    /\ pc["driver"] = "picked"
    /\ LET latest == {a \in Rows : IsLatest(a)}
           waits == \E a \in latest : row[a].state \notin Fenced
       IN \/ /\ latest = {}
             /\ heartbeat("driver")
          \/ /\ driver.state = "WAITING" /\ latest = {}
             /\ Go("driver", "read") /\ UNCHANGED driver
          \/ /\ driver.state # "PAUSED" /\ waits
             /\ Go("driver", "wait") /\ UNCHANGED driver
          \/ /\ driver.state # "PAUSED" /\ \E a \in latest : row[a].state = "PASS"
             /\ Go("driver", "plan") /\ UNCHANGED driver
          \/ /\ driver.state = "PAUSED" \/ \E a \in latest : row[a].state \in Fenced
             /\ Go("driver", "idle") /\ UNCHANGED driver
    /\ UNCHANGED <<control, row, phase, acted, seen, workers, parent>>

\* activate reads the row; its UPDATE comes in a statement of its own.
ActivateReads(t) ==
    /\ pc[t] = "read"
    /\ \/ driver.owned /\ heartbeat(t) /\ UNCHANGED seen
       \/ /\ ~(driver.state = "ACTIVE" /\ driver.owned)
          /\ seen' = [seen EXCEPT ![t].generation = driver.generation]
          /\ Go(t, "write") /\ UNCHANGED driver
    /\ UNCHANGED <<control, row, phase, acted, workers, parent>>

ActivateWrites(t) ==
    /\ pc[t] = "write"
    /\ seen[t].generation < MaxGeneration
    /\ driver' = [generation |-> seen[t].generation + 1, state |-> "ACTIVE", owned |-> TRUE]
    /\ Go(t, "snapshot")
    /\ seen' = [seen EXCEPT ![t] = Nothing]
    /\ UNCHANGED <<control, row, phase, acted, workers, parent>>

\* The generation to use is read back after the commit.
snapshot(t) ==
    /\ pc[t] = "snapshot"
    /\ seen' = [seen EXCEPT ![t].generation = driver.generation]
    /\ Go(t, IF t = "driver" THEN "check" ELSE "epoch")
    /\ UNCHANGED <<control, driver, row, phase, acted, workers, parent>>

\* _create_assignment: the fence is checked, and the row inserted later.
CreateChecks ==
    /\ pc["driver"] = "check"
    /\ IF assignment_allowed(AUTONOMOUS, control.epoch)
       THEN Go("driver", "insert") /\ seen' = [seen EXCEPT !["driver"].epoch = control.epoch]
       ELSE Leave("driver")
    /\ UNCHANGED <<control, driver, row, phase, acted, workers, parent>>

CreateInserts(a) ==
    /\ pc["driver"] = "insert"
    /\ IsNext(a)
    /\ row' = [row EXCEPT ![a] = [state |-> "READY", generation |-> seen["driver"].generation,
                                  epoch |-> seen["driver"].epoch, authority |-> AUTONOMOUS,
                                  phase |-> phase]]
    /\ Go("driver", "wait")
    /\ seen' = [seen EXCEPT !["driver"] = Nothing]
    /\ UNCHANGED <<control, driver, phase, acted, workers, parent>>

\* A driver that was paused meanwhile may not wait: transition raises.
_generic_wait ==
    /\ pc["driver"] = "wait"
    /\ driver' = IF driver.state = "PAUSED" THEN driver
                 ELSE [driver EXCEPT !.state = "WAITING", !.owned = FALSE]
    /\ Leave("driver")
    /\ UNCHANGED <<control, row, phase, acted, workers, parent>>

RebindReads ==
    /\ pc["resume"] = "epoch"
    /\ seen' = [seen EXCEPT !["resume"].epoch = control.epoch]
    /\ Go("resume", "rebind")
    /\ UNCHANGED <<control, driver, row, phase, acted, workers, parent>>

\* READY rows are bound to what RESUME has read.
rebind_ready_assignments ==
    /\ pc["resume"] = "rebind"
    /\ row' = [a \in Rows |-> IF a \in In("READY")
                              THEN [row[a] EXCEPT !.generation = seen["resume"].generation,
                                                  !.epoch = seen["resume"].epoch,
                                                  !.authority = AUTONOMOUS]
                              ELSE row[a]]
    /\ Leave("resume")
    /\ UNCHANGED <<control, driver, phase, acted, workers, parent>>

\* The plan of an accepted result: a plan with its action receipt goes on to the phase,
\* any other one is carried out if autonomy is allowed now.
_generic_execute_read_plan ==
    /\ pc["driver"] = "plan"
    /\ \/ acted /\ Go("driver", "pass")
       \/ ~acted /\ autonomy_allowed /\ Go("driver", "act")
       \/ ~acted /\ Go("driver", "wait")
    /\ UNCHANGED <<control, driver, row, phase, acted, seen, workers, parent>>

record_generic_action_receipt ==
    /\ pc["driver"] = "act"
    /\ \/ acted' = TRUE /\ Go("driver", "pass")
       \/ UNCHANGED acted /\ Go("driver", "wait")
    /\ UNCHANGED <<control, driver, row, phase, seen, workers, parent>>

\* _driver_phase_result: the plan of the next phase has no receipt yet.
PhasePasses ==
    /\ pc["driver"] = "pass"
    /\ phase' = phase + 1
    /\ acted' = FALSE
    /\ Go("driver", "select")
    /\ UNCHANGED <<control, driver, row, seen, workers, parent>>

\* The driver of a passed phase is made active again: transition reads the row and
\* writes the state later, over a pause in between.
SelectReads ==
    /\ pc["driver"] = "select"
    /\ IF driver.state = "WAITING" THEN Go("driver", "activate") /\ UNCHANGED seen
       ELSE Leave("driver")
    /\ UNCHANGED <<control, driver, row, phase, acted, workers, parent>>

SelectNextPhase ==
    /\ pc["driver"] = "activate"
    /\ driver' = [driver EXCEPT !.state = "ACTIVE"]
    /\ Leave("driver")
    /\ UNCHANGED <<control, row, phase, acted, workers, parent>>

\* Mission Control dies and starts again: open statements are lost.
Restart ==
    /\ pc' = [t \in Threads |-> "idle"]
    /\ seen' = [t \in Threads |-> Nothing]
    /\ UNCHANGED <<control, driver, row, phase, acted, workers, parent>>

MissionControl ==
    \/ PauseDriver \/ Resume \/ next_dispatch \/ drive_generic_once \/ CreateChecks
    \/ _generic_wait \/ RebindReads \/ rebind_ready_assignments
    \/ _generic_execute_read_plan \/ record_generic_action_receipt \/ PhasePasses
    \/ SelectReads \/ SelectNextPhase \/ Restart
    \/ \E t \in Threads : ActivateReads(t) \/ ActivateWrites(t) \/ snapshot(t)
    \/ \E a \in Rows : CreateInserts(a)
-------------------------------------------------------------------------------
(* Workers: claim a row, work, and post the result.                        *)

assignment_claim_eligibility(a) ==
    /\ row[a].state = "READY"
    /\ assignment_allowed(row[a].authority, row[a].epoch)
    /\ row[a].generation = driver.generation

claim_assignment(a) ==
    /\ assignment_claim_eligibility(a)
    /\ row' = [row EXCEPT ![a].state = "CLAIMED"]
    /\ worker' = [worker EXCEPT ![a] = [at |-> "busy", generation |-> row[a].generation]]
    /\ claimed' = [claimed EXCEPT ![a] = control.epoch]
    /\ UNCHANGED <<control, driver, phase, acted, threads, ledger, parent>>

\* Wrong variant: the epoch is taken from the control row and not from the assignment.
StaleByLatch(a) ==
    \/ ~assignment_allowed(row[a].authority, control.epoch)
    \/ /\ {row[a].generation, driver.generation} # {worker[a].generation}
       /\ row[a].state = "CANCEL_REQUESTED"

\* A result that is kept as evidence only: it overtook a fence.
Stale(a) ==
    \/ ~assignment_allowed(row[a].authority, row[a].epoch)
    \/ /\ {row[a].generation, driver.generation} # {worker[a].generation}
       /\ row[a].state = "CANCEL_REQUESTED"

\* Wrong variant: the ledger alone decides.
AcceptableOnce(a) == ledger[a] = 0

Acceptable(a) == ledger[a] = 0 /\ row[a].state = "CLAIMED"

\* _record_receipt
Accepts(a) ==
    /\ ~Stale(a)
    /\ {row[a].generation, driver.generation} = {worker[a].generation}
    /\ Acceptable(a)

\* Wrong variant: only claimed rows take a late result.
StoreStaleClaimed(a) ==
    row' = [row EXCEPT ![a].state = IF @ = "CLAIMED" THEN "STALE_RESULT" ELSE @]

_store_stale_result(a) == row' = [row EXCEPT ![a].state = "STALE_RESULT"]

record_receipt(a, status) ==
    \/ /\ Stale(a)
       /\ _store_stale_result(a)
       /\ UNCHANGED ledger
    \/ /\ Accepts(a)
       /\ row' = [row EXCEPT ![a].state = status]
       /\ ledger' = [ledger EXCEPT ![a] = control.epoch]
    \/ /\ ~Stale(a) /\ ~Accepts(a)
       /\ UNCHANGED <<row, ledger>>

\* A failure after the work was done, the refusal of its receipt or a lost answer
\* included, makes the worker post FAIL for the same assignment.
PostResult(a) ==
    /\ worker[a].at = "busy"
    /\ \E status \in {"PASS", "FAIL"} :
         /\ record_receipt(a, status)
         /\ worker' = [worker EXCEPT ![a] = IF status = "FAIL" \/ ledger'[a] # ledger[a]
                                             THEN Gone("done") ELSE [@ EXCEPT !.at = "again"]]
    /\ UNCHANGED <<control, driver, phase, acted, threads, claimed, parent>>

PostAnswerLost(a) ==
    /\ worker[a].at = "busy"
    /\ record_receipt(a, "PASS")
    /\ worker' = [worker EXCEPT ![a].at = "again"]
    /\ UNCHANGED <<control, driver, phase, acted, threads, claimed, parent>>

PostFailure(a) ==
    /\ worker[a].at = "again"
    /\ record_receipt(a, "FAIL")
    /\ worker' = [worker EXCEPT ![a] = Gone("done")]
    /\ UNCHANGED <<control, driver, phase, acted, threads, claimed, parent>>

\* The worker dies, or cannot reach Mission Control any more.
WorkerDies(a) ==
    /\ worker[a].at \in {"busy", "again"}
    /\ worker' = [worker EXCEPT ![a] = Gone("dead")]
    /\ UNCHANGED <<control, driver, row, phase, acted, threads, claimed, ledger, parent>>

Posts(a) == PostResult(a) \/ PostAnswerLost(a) \/ PostFailure(a)
-------------------------------------------------------------------------------
Next ==
    \/ Command
    \/ MissionControl
    \/ \E a \in Rows : claim_assignment(a) \/ Posts(a) \/ WorkerDies(a)

Spec == Init /\ [][Next]_vars
-------------------------------------------------------------------------------
(* Properties.                                                             *)

\* Work in the hands of a worker belongs to the current owner of the mission, and
\* there is none behind a pause or stop latch: whatever the driver loop and RESUME
\* read before the command, and however they overwrite the driver row after it.
Contained ==
    \A a \in In("CLAIMED") :
        /\ ~control.pause /\ ~control.stop
        /\ row[a].authority = control.owner

\* "worker receipt cannot accept an old generation/epoch": what the ledger accepted
\* was claimed and delivered under one control epoch, with no command in between.
AcceptedUnderOneEpoch == \A a \in Rows : ledger[a] # 0 => ledger[a] = claimed[a]

\* "Reassigning an active worker waits": nobody is at work on a row that was replaced.
ReplacedWhenIdle ==
    \A b \in Rows : parent[b] # 0 => worker[parent[b]].at # "busy"

\* A row that was cancelled, asked to stop or answered too late never becomes work
\* or a decision again, although its worker may post a good result.
CancelIsFinal ==
    [][\A a \in Rows : row[a].state \in Fenced => row'[a].state \in Fenced]_vars

\* "The late result of an old worker is kept": a worker that a command overtook at its
\* work delivers historical evidence, which is what lets its row be reassigned.
Overtaken(a) == row[a].state = "CANCEL_REQUESTED" /\ row[a].epoch # control.epoch
LateResultIsKept ==
    [][\A a \in Rows : Overtaken(a) /\ worker[a] # worker'[a] =>
          row'[a].state = "STALE_RESULT" \/ worker'[a].at = "dead"]_vars
===============================================================================
