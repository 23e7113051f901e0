------------------------ MODULE OperatorControlProofs ------------------------
(***************************************************************************)
(* Proofs about OperatorControl, for any number of assignments, epochs and *)
(* driver generations, and every interleaving of the commands, the two     *)
(* threads of Mission Control and the workers.                             *)
(*                                                                         *)
(* RowStep and WorkStep say once, for all actions, what a step may make of *)
(* an assignment and of the work on it.  The invariant adds to the types   *)
(* that every passed phase has a row of its own (so that the phase stays   *)
(* within the rows: PhaseBound counts them), that a claimed row carries    *)
(* the epoch of its claim, that whoever is at work works on a claimed or   *)
(* cancelled row, and that a replaced row is cancelled or stale.           *)
(***************************************************************************)
EXTENDS OperatorControl, FiniteSets, FiniteSetTheorems, TLAPS

\* Every phase that has passed has a row of its own.
PhasesHaveRows ==
    /\ \A p \in 1..phase - 1 : \E a \in Rows : row[a].phase = p
    /\ \A a \in In("FREE") : row[a].phase = 0

\* A phase whose plan is being carried out has a row, too.
Planned == {"plan", "act", "pass"}
PlanHasRow == pc["driver"] \in Planned => \E a \in Rows : row[a].phase = phase

Typed == TypeOK /\ PhasesHaveRows /\ PlanHasRow

\* Who holds an assignment: no receipt before a claim, the epoch of the claim in the
\* claimed row, work only on claimed or cancelled rows, replacement only of ended ones.
Custody ==
    /\ \A a \in Rows : row[a].state \in {"FREE", "READY"} => ledger[a] = 0
    /\ \A a \in In("CLAIMED") : claimed[a] = row[a].epoch
    /\ \A a \in Rows : worker[a].at = "busy" => row[a].state \in {"CLAIMED", "CANCEL_REQUESTED"}
    /\ \A b \in Rows : parent[b] # 0 => row[parent[b]].state \in {"CANCELLED", "STALE_RESULT"}

ControlInv == Typed /\ Custody /\ Contained /\ AcceptedUnderOneEpoch
------------------------------------------------------------------------------
(* Types.                                                                  *)

LEMMA Bounds == /\ MaxRows \in Nat /\ MaxEpoch \in Nat /\ MaxGeneration \in Nat
                /\ MaxRows > 0 /\ MaxEpoch > 0 /\ MaxGeneration > 0
  BY ControlAssumption

LEMMA RowRecord ==
  ASSUME NEW r \in Row
  PROVE  /\ r.state \in RowStates /\ r.generation \in Generations /\ r.epoch \in Epochs
         /\ r.authority \in Owners /\ r.phase \in 0..MaxRows + 1
         /\ r = [state |-> r.state, generation |-> r.generation, epoch |-> r.epoch,
                 authority |-> r.authority, phase |-> r.phase]
  BY DEF Row

LEMMA TypedInit == ASSUME Init PROVE Typed
  <1> USE Bounds
  <1>1. control \in [epoch : 1..MaxEpoch, owner : Owners, pause : BOOLEAN, stop : BOOLEAN]
    BY DEF Init, Owners
  <1>2. driver \in [generation : 1..MaxGeneration, state : {"ACTIVE", "WAITING", "PAUSED"},
                    owned : BOOLEAN]
    BY DEF Init
  <1>3. row \in [Rows -> Row]
    <2>1. Free \in Row
      BY DEF Free, Row, RowStates, Generations, Epochs, Owners
    <2> QED BY <2>1 DEF Init
  <1>4. seen \in [Threads -> [generation : Generations, epoch : Epochs]]
    BY DEF Init, Nothing, Generations, Epochs
  <1>5. worker \in [Rows -> [at : {"none", "busy", "again", "done", "dead"}, generation : Generations]]
    BY DEF Init, Gone, Generations
  <1>6. /\ phase \in 1..MaxRows + 1 /\ claimed \in [Rows -> Epochs] /\ ledger \in [Rows -> Epochs]
        /\ parent \in [Rows -> 0..MaxRows]
    BY DEF Init, Epochs
  <1>9. acted \in BOOLEAN
    BY Zenon DEF Init
  <1>7. pc \in [Threads -> {"idle", "picked", "read", "write", "snapshot", "check",
                           "insert", "wait", "plan", "act", "pass", "select", "activate",
                              "epoch", "rebind"}]
    BY DEF Init
  <1>8. PhasesHaveRows /\ PlanHasRow
    BY DEF Init, PhasesHaveRows, PlanHasRow, Planned, Threads, In, Free
  <1> QED BY <1>1, <1>2, <1>3, <1>4, <1>5, <1>6, <1>7, <1>8, <1>9 DEF Typed, TypeOK

ControlType == control \in [epoch : 1..MaxEpoch, owner : Owners, pause : BOOLEAN, stop : BOOLEAN]
DriverType == driver \in [generation : 1..MaxGeneration, state : {"ACTIVE", "WAITING", "PAUSED"},
                          owned : BOOLEAN]
PcType == pc \in [Threads -> {"idle", "picked", "read", "write", "snapshot", "check",
                              "insert", "wait", "plan", "act", "pass", "select", "activate",
                              "epoch", "rebind"}]
SeenType == seen \in [Threads -> [generation : Generations, epoch : Epochs]]
WorkerType == worker \in [Rows -> [at : {"none", "busy", "again", "done", "dead"},
                                   generation : Generations]]

LEMMA BumpTyped ==
  ASSUME ControlType, NEW owner \in Owners, NEW pause \in BOOLEAN, NEW stop \in BOOLEAN,
         _bump_control(owner, pause, stop)
  PROVE  ControlType'
  BY Bounds DEF ControlType, _bump_control

LEMMA FenceTyped ==
  ASSUME DriverType, NEW s \in {"ACTIVE", "WAITING", "PAUSED"}, _driver_fence(s)
  PROVE  DriverType' /\ driver'.generation \in Generations
  BY Bounds DEF DriverType, _driver_fence, Generations

LEMMA ControlFields ==
  ASSUME ControlType
  PROVE  /\ control.epoch \in 1..MaxEpoch /\ control.epoch \in Epochs /\ control.owner \in Owners
         /\ control.pause \in BOOLEAN /\ control.stop \in BOOLEAN
  <1>1. control.epoch \in 1..MaxEpoch /\ control.owner \in Owners
    BY DEF ControlType
  <1>2. control.pause \in BOOLEAN /\ control.stop \in BOOLEAN
    BY DEF ControlType
  <1>3. control.epoch \in Epochs
    BY <1>1, Bounds DEF Epochs
  <1> QED BY <1>1, <1>2, <1>3

LEMMA DriverFields ==
  ASSUME DriverType
  PROVE  /\ driver.generation \in 1..MaxGeneration /\ driver.generation \in Generations
         /\ driver.state \in {"ACTIVE", "WAITING", "PAUSED"} /\ driver.owned \in BOOLEAN
  <1>1. driver.generation \in 1..MaxGeneration /\ driver.state \in {"ACTIVE", "WAITING", "PAUSED"}
    BY DEF DriverType
  <1>2. driver.owned \in BOOLEAN
    BY DEF DriverType
  <1>3. driver.generation \in Generations
    BY <1>1, Bounds DEF Generations
  <1> QED BY <1>1, <1>2, <1>3

LEMMA ControlStep ==
  ASSUME ControlType, Next
  PROVE  ControlType'
  <1>1. CASE UNCHANGED control
    BY <1>1 DEF ControlType
  <1>2. CASE \E owner \in Owners, pause \in BOOLEAN, stop \in BOOLEAN : _bump_control(owner, pause, stop)
    BY <1>2, BumpTyped
  <1>3. UNCHANGED control
        \/ \E owner \in Owners, pause \in BOOLEAN, stop \in BOOLEAN : _bump_control(owner, pause, stop)
    <2>1. CASE Command
      <3>1. /\ control.owner \in Owners /\ AUTONOMOUS \in Owners /\ PRIMARY_OPERATOR \in Owners
            /\ control.pause \in BOOLEAN /\ control.stop \in BOOLEAN
        BY ControlFields DEF Owners
      <3>2. \A latches : /\ (control.pause /\ "pause" \notin latches) \in BOOLEAN
                         /\ (control.stop /\ "stop" \notin latches) \in BOOLEAN
        OBVIOUS
      <3> QED BY <2>1, <3>1, <3>2, Zenon DEF Command, PAUSE_SCOPE, STOP_SCOPE, TAKE_CONTROL,
         RELEASE_CONTROL,
                 REVOKE_CAPABILITY, RESUME_SCOPE, CANCEL_ASSIGNMENT, ReassignWaits, ReassignReplaces
    <2>2. CASE MissionControl
      BY <2>2 DEF MissionControl, PauseDriver, Resume, next_dispatch, drive_generic_once, CreateChecks,
         _generic_wait, RebindReads, rebind_ready_assignments, SelectReads, SelectNextPhase,
         Restart, ActivateReads,
         ActivateWrites, snapshot, CreateInserts, _generic_execute_read_plan,
             record_generic_action_receipt, PhasePasses
    <2>3. CASE \E a \in Rows : claim_assignment(a) \/ Posts(a) \/ WorkerDies(a)
      BY <2>3 DEF claim_assignment, Posts, PostResult, PostAnswerLost, PostFailure, WorkerDies
    <2> QED BY <2>1, <2>2, <2>3 DEF Next
  <1> QED BY <1>1, <1>2, <1>3

LEMMA DriverStep ==
  ASSUME DriverType, SeenType, Next
  PROVE  DriverType'
  <1>1. CASE UNCHANGED driver
    BY <1>1 DEF DriverType
  <1>2. CASE \E s \in {"ACTIVE", "WAITING", "PAUSED"} : _driver_fence(s)
    BY <1>2, FenceTyped
  <1>3. CASE \E s \in {"ACTIVE", "WAITING", "PAUSED"}, o \in BOOLEAN :
                driver' = [driver EXCEPT !.state = s, !.owned = o]
    BY <1>3 DEF DriverType
  <1>4. CASE \E t \in Threads : ActivateWrites(t)
    <2>1. PICK t \in Threads : ActivateWrites(t)
      BY <1>4
    <2>2. seen[t].generation \in Generations
      BY DEF SeenType
    <2>3. seen[t].generation + 1 \in 1..MaxGeneration
      BY <2>1, <2>2, Bounds DEF ActivateWrites, Generations
    <2> QED BY <2>1, <2>3 DEF ActivateWrites, DriverType
  <1>5. CASE driver' = [driver EXCEPT !.owned = TRUE]
    BY <1>5 DEF DriverType
  <1>6. CASE \E s \in {"ACTIVE", "WAITING", "PAUSED"} : driver' = [driver EXCEPT !.state = s]
    BY <1>6 DEF DriverType
  <1> QED
    <2> USE DriverFields
    <2>1. CASE Command
      BY <2>1, <1>1, <1>2 DEF Command, PAUSE_SCOPE, STOP_SCOPE, TAKE_CONTROL, RELEASE_CONTROL,
                 REVOKE_CAPABILITY, RESUME_SCOPE, CANCEL_ASSIGNMENT, ReassignWaits, ReassignReplaces
    <2>2. CASE MissionControl
      <3>1. CASE PauseDriver \/ _generic_wait
        BY <3>1, <1>1, <1>3 DEF PauseDriver, _generic_wait
      <3>2. CASE drive_generic_once \/ \E t \in Threads : ActivateReads(t)
        BY <3>2, <1>1, <1>5 DEF drive_generic_once, ActivateReads, heartbeat
      <3>3. CASE SelectNextPhase
        BY <3>3, <1>6 DEF SelectNextPhase
      <3> QED BY <2>2, <3>1, <3>2, <3>3, <1>1, <1>4 DEF MissionControl, Resume, next_dispatch, CreateChecks,
           RebindReads, rebind_ready_assignments, SelectReads, Restart, snapshot, CreateInserts,
           _generic_execute_read_plan, record_generic_action_receipt, PhasePasses
    <2>3. CASE \E a \in Rows : claim_assignment(a) \/ Posts(a) \/ WorkerDies(a)
      BY <2>3, <1>1 DEF claim_assignment, Posts, PostResult, PostAnswerLost, PostFailure, WorkerDies
    <2> QED BY <2>1, <2>2, <2>3 DEF Next

LEMMA ThreadStep ==
  ASSUME ControlType, DriverType, PcType, SeenType, Next
  PROVE  PcType' /\ SeenType'
  <1>0. /\ control.epoch \in Epochs /\ driver.generation \in Generations
        /\ Nothing \in [generation : Generations, epoch : Epochs]
    BY ControlFields, DriverFields, Bounds DEF Nothing, Generations, Epochs
  <1>1. CASE UNCHANGED threads
    BY <1>1 DEF threads, PcType, SeenType
  <1>2. CASE MissionControl
    <2>1. PcType'
      BY <1>2 DEF MissionControl, PauseDriver, Resume, next_dispatch, drive_generic_once, CreateChecks,
         _generic_wait, RebindReads, rebind_ready_assignments, SelectReads, SelectNextPhase,
         Restart, ActivateReads,
         ActivateWrites, snapshot, CreateInserts, _generic_execute_read_plan,
             record_generic_action_receipt, PhasePasses, Go, Leave, heartbeat, threads, PcType
    <2>2. \/ UNCHANGED seen
          \/ \E t \in Threads : \/ seen' = [seen EXCEPT ![t].generation = driver.generation]
                                \/ seen' = [seen EXCEPT ![t].epoch = control.epoch]
                                \/ seen' = [seen EXCEPT ![t] = Nothing]
          \/ seen' = [t \in Threads |-> Nothing]
      BY <1>2 DEF MissionControl, PauseDriver, Resume, next_dispatch, drive_generic_once, CreateChecks,
         _generic_wait, RebindReads, rebind_ready_assignments, SelectReads, SelectNextPhase,
         Restart, ActivateReads,
         ActivateWrites, snapshot, CreateInserts, _generic_execute_read_plan,
             record_generic_action_receipt, PhasePasses, Leave, threads, Threads
    <2>3. SeenType'
      BY ONLY <1>0, <2>2, SeenType DEF SeenType
    <2> QED BY <2>1, <2>3
  <1> QED BY <1>1, <1>2 DEF Next, Command, PAUSE_SCOPE, STOP_SCOPE, TAKE_CONTROL, RELEASE_CONTROL,
             REVOKE_CAPABILITY, RESUME_SCOPE, CANCEL_ASSIGNMENT, ReassignWaits, ReassignReplaces,
             claim_assignment, Posts, PostResult, PostAnswerLost, PostFailure, WorkerDies

LEMMA WorkersStep ==
  ASSUME ControlType, row \in [Rows -> Row], WorkerType, claimed \in [Rows -> Epochs],
         ledger \in [Rows -> Epochs], parent \in [Rows -> 0..MaxRows], Next
  PROVE  /\ WorkerType' /\ claimed' \in [Rows -> Epochs] /\ ledger' \in [Rows -> Epochs]
         /\ parent' \in [Rows -> 0..MaxRows]
  <1>0. control.epoch \in Epochs /\ 0 \in Generations
    BY ControlFields, Bounds DEF Generations
  <1>1. CASE UNCHANGED workers
    <2>1. \/ UNCHANGED parent
          \/ \E a, b \in Rows : parent' = [parent EXCEPT ![b] = a]
      BY DEF Next, Command, PAUSE_SCOPE, STOP_SCOPE, TAKE_CONTROL, RELEASE_CONTROL,
             REVOKE_CAPABILITY, RESUME_SCOPE, CANCEL_ASSIGNMENT, ReassignWaits, ReassignReplaces,
             claim_assignment, Posts, PostResult, PostAnswerLost, PostFailure, WorkerDies,
             MissionControl, PauseDriver, Resume, next_dispatch, drive_generic_once, CreateChecks,
             _generic_wait, RebindReads, rebind_ready_assignments, SelectReads, SelectNextPhase,
             Restart, ActivateReads,
             ActivateWrites, snapshot, CreateInserts, _generic_execute_read_plan,
             record_generic_action_receipt, PhasePasses
    <2>2. parent' \in [Rows -> 0..MaxRows]
      BY <2>1, Bounds DEF Rows
    <2> QED BY <1>1, <2>2 DEF workers, WorkerType
  <1>2. ASSUME NEW a \in Rows, claim_assignment(a) \/ Posts(a) \/ WorkerDies(a)
        PROVE  /\ WorkerType' /\ claimed' \in [Rows -> Epochs] /\ ledger' \in [Rows -> Epochs]
               /\ parent' \in [Rows -> 0..MaxRows]
    <2>1. /\ UNCHANGED parent
          /\ claimed' \in [Rows -> Epochs] /\ ledger' \in [Rows -> Epochs]
      BY <1>0, <1>2 DEF claim_assignment, Posts, PostResult, PostAnswerLost, PostFailure, WorkerDies,
                        record_receipt
    <2>2. row[a].generation \in Generations
      BY RowRecord
    <2>3. \/ worker' = [worker EXCEPT ![a] = [at |-> "busy", generation |-> row[a].generation]]
          \/ worker' = [worker EXCEPT ![a] = Gone("done")]
          \/ worker' = [worker EXCEPT ![a] = Gone("dead")]
          \/ worker' = [worker EXCEPT ![a].at = "again"]
      BY <1>2 DEF claim_assignment, Posts, PostResult, PostAnswerLost, PostFailure, WorkerDies
    <2>4. WorkerType'
      BY <1>0, <2>2, <2>3 DEF WorkerType, Gone
    <2> QED BY <2>1, <2>4
  <1> QED BY <1>1, <1>2 DEF Next, Command, PAUSE_SCOPE, STOP_SCOPE, TAKE_CONTROL, RELEASE_CONTROL,
             REVOKE_CAPABILITY, RESUME_SCOPE, CANCEL_ASSIGNMENT, ReassignWaits, ReassignReplaces,
             MissionControl, PauseDriver, Resume, next_dispatch, drive_generic_once, CreateChecks,
             _generic_wait, RebindReads, rebind_ready_assignments, SelectReads, SelectNextPhase,
             Restart, ActivateReads,
             ActivateWrites, snapshot, CreateInserts, _generic_execute_read_plan,
             record_generic_action_receipt, PhasePasses

SameWork(a) ==
    /\ row'[a].epoch = row[a].epoch /\ row'[a].authority = row[a].authority
    /\ row'[a].phase = row[a].phase

\* What a step may make of a row.
RowMoves(a) ==
    \/ row'[a] = row[a]
    \/ row[a].state = "FREE" /\ row'[a].state = "READY"
    \/ /\ row[a].state = "READY" /\ row'[a].state \in {"READY", "CANCELLED"}
       /\ row'[a].phase = row[a].phase
    \/ /\ row[a].state = "READY" /\ row'[a].state = "CLAIMED" /\ SameWork(a)
       /\ claim_assignment(a)
    \/ row[a].state = "CLAIMED" /\ row'[a].state = "CANCEL_REQUESTED" /\ SameWork(a)
    \/ row[a].state \in {"CANCELLED", "STALE_RESULT"} /\ row'[a].state = "CANCELLED" /\ SameWork(a)
    \/ row'[a].state = "STALE_RESULT" /\ SameWork(a) /\ Posts(a) /\ Stale(a)
    \/ /\ row[a].state = "CLAIMED" /\ row'[a].state \in {"PASS", "FAIL"} /\ SameWork(a)
       /\ Posts(a) /\ Accepts(a)

RowOK == row' \in [Rows -> Row] /\ \A a \in Rows : RowMoves(a)

LEMMA SetState ==
  ASSUME NEW r \in Row, NEW s \in RowStates
  PROVE  /\ [r EXCEPT !.state = s] \in Row
         /\ [r EXCEPT !.state = s].state = s
         /\ [r EXCEPT !.state = s].epoch = r.epoch
         /\ [r EXCEPT !.state = s].authority = r.authority
         /\ [r EXCEPT !.state = s].phase = r.phase
  BY DEF Row

LEMMA BindGeneration ==
  ASSUME NEW r \in Row, NEW g \in Generations
  PROVE  LET b == [r EXCEPT !.generation = g]
         IN  b \in Row /\ b.state = r.state /\ b.phase = r.phase
  BY DEF Row

LEMMA FenceRows ==
  ASSUME row \in [Rows -> Row], _fence_assignments
  PROVE  RowOK
  <1>1. ASSUME NEW a \in Rows PROVE row'[a] \in Row /\ RowMoves(a)
    <2>1. row[a] \in Row
      OBVIOUS
    <2>2. CASE row[a].state = "READY"
      BY <2>1, <2>2, SetState DEF _fence_assignments, RowStates, Fenced, RowMoves
    <2>3. CASE row[a].state = "CLAIMED"
      BY <2>1, <2>3, SetState DEF _fence_assignments, RowStates, Fenced, RowMoves, SameWork
    <2>4. CASE row[a].state \notin {"READY", "CLAIMED"}
      BY <2>1, <2>4 DEF _fence_assignments, RowMoves
    <2> QED BY <2>2, <2>3, <2>4
  <1>2. row' = [a \in Rows |-> row'[a]]
    BY DEF _fence_assignments
  <1> QED BY <1>1, <1>2 DEF RowOK

LEMMA HandoffRows ==
  ASSUME row \in [Rows -> Row], ControlType', DriverType', _release_assignment_handoff
  PROVE  RowOK
  <1>0. control'.epoch \in Epochs /\ driver'.generation \in Generations /\ AUTONOMOUS \in Owners
    BY Bounds DEF ControlType, DriverType, Epochs, Generations, Owners
  <1>1. ASSUME NEW a \in Rows PROVE row'[a] \in Row /\ RowMoves(a)
    <2>1. row[a] \in Row
      OBVIOUS
    <2>2. CASE row[a].state = "READY" /\ row[a].authority = PRIMARY_OPERATOR
      <3>1. row'[a] = [row[a] EXCEPT !.generation = driver'.generation, !.epoch = control'.epoch,
                                     !.authority = AUTONOMOUS]
        BY <2>2 DEF _release_assignment_handoff
      <3>2. row'[a] \in Row /\ row'[a].state = row[a].state /\ row'[a].phase = row[a].phase
        BY <1>0, <2>1, <3>1 DEF Row
      <3> QED BY <2>2, <3>2 DEF RowMoves
    <2>3. CASE row[a].state = "READY" /\ row[a].authority # PRIMARY_OPERATOR
      <3>1. row'[a] = [row[a] EXCEPT !.state = "CANCELLED"]
        BY <2>3 DEF _release_assignment_handoff
      <3>2. row'[a] \in Row /\ row'[a].state = "CANCELLED" /\ SameWork(a)
        BY <2>1, <3>1 DEF Row, RowStates, Fenced, SameWork
      <3> QED BY <2>3, <3>2 DEF RowMoves, SameWork
    <2>4. CASE row[a].state = "CLAIMED"
      <3>1. row'[a] = [row[a] EXCEPT !.state = "CANCEL_REQUESTED"]
        BY <2>4 DEF _release_assignment_handoff
      <3>2. row'[a] \in Row /\ row'[a].state = "CANCEL_REQUESTED" /\ SameWork(a)
        BY <2>1, <3>1 DEF Row, RowStates, Fenced, SameWork
      <3> QED BY <2>4, <3>2 DEF RowMoves
    <2>5. CASE row[a].state \notin {"READY", "CLAIMED"}
      <3>1. row'[a] = row[a]
        BY <2>5 DEF _release_assignment_handoff
      <3> QED BY <2>1, <3>1 DEF RowMoves
    <2> QED BY <2>2, <2>3, <2>4, <2>5
  <1>2. row' = [a \in Rows |-> row'[a]]
    BY DEF _release_assignment_handoff
  <1> QED BY <1>1, <1>2 DEF RowOK

\* A step that sets the state of one row.
LEMMA OneRow ==
  ASSUME row \in [Rows -> Row], NEW a \in Rows, NEW s \in RowStates,
         row' = [row EXCEPT ![a].state = s],
         SameWork(a) /\ row'[a].state = s => RowMoves(a)
  PROVE  RowOK
  <1>1. row'[a] = [row[a] EXCEPT !.state = s]
    OBVIOUS
  <1>2. row'[a] \in Row /\ row'[a].state = s /\ SameWork(a)
    BY <1>1, SetState DEF SameWork
  <1>3. ASSUME NEW b \in Rows \ {a} PROVE row'[b] \in Row /\ RowMoves(b)
    BY DEF RowMoves
  <1>4. row' = [b \in Rows |-> row'[b]]
    OBVIOUS
  <1> QED BY <1>2, <1>3, <1>4 DEF RowOK

LEMMA RowStep ==
  ASSUME TypeOK, Next
  PROVE  RowOK
  <1>0. row \in [Rows -> Row] /\ ControlType /\ DriverType /\ SeenType
    BY DEF TypeOK, ControlType, DriverType, SeenType
  <1>1. CASE UNCHANGED row
    BY <1>0, <1>1 DEF RowOK, RowMoves
  <1>2. CASE PAUSE_SCOPE \/ STOP_SCOPE \/ TAKE_CONTROL
    BY <1>0, <1>2, FenceRows DEF PAUSE_SCOPE, STOP_SCOPE, TAKE_CONTROL
  <1>3. CASE RELEASE_CONTROL
    <2>1. ControlType' /\ DriverType'
      BY <1>0, <1>3, ControlStep, DriverStep
    <2> QED BY <1>0, <1>3, <2>1, HandoffRows DEF RELEASE_CONTROL
  <1>4. ASSUME NEW a \in Rows, CANCEL_ASSIGNMENT(a) PROVE RowOK
    <2>1. CASE row[a].state = "CLAIMED"
      <3>1. row' = [row EXCEPT ![a].state = "CANCEL_REQUESTED"]
        BY <1>4, <2>1 DEF CANCEL_ASSIGNMENT
      <3> QED BY <1>0, <2>1, <3>1, OneRow DEF RowStates, Fenced, RowMoves
    <2>2. CASE row[a].state = "READY"
      <3>1. row' = [row EXCEPT ![a].state = "CANCELLED"]
        BY <1>4, <2>2 DEF CANCEL_ASSIGNMENT
      <3> QED BY <1>0, <2>2, <3>1, OneRow DEF RowStates, Fenced, RowMoves, SameWork
    <2> QED BY <1>4, <2>1, <2>2 DEF CANCEL_ASSIGNMENT
  <1>5. ASSUME NEW a \in Rows, ReassignWaits(a) PROVE RowOK
    <2>1. row[a] \in Row
      BY <1>0
    <2>2. CASE row[a].state = "CLAIMED"
      BY <1>0, <1>5, <2>2, OneRow DEF ReassignWaits, RowStates, Fenced, RowMoves
    <2>3. CASE row[a].state = "CANCEL_REQUESTED"
      <3>1. row' = [row EXCEPT ![a] = [row[a] EXCEPT !.state = "CANCEL_REQUESTED"]]
        BY <1>5 DEF ReassignWaits
      <3>2. [row[a] EXCEPT !.state = "CANCEL_REQUESTED"] = row[a]
        BY <2>1, <2>3 DEF Row
      <3>3. row' = row
        BY <1>0, <3>1, <3>2
      <3> QED BY <1>1, <3>3
    <2> QED BY <1>5, <2>2, <2>3 DEF ReassignWaits, AwaitsCheckpoint
  <1>6. ASSUME NEW a \in Rows, NEW b \in Rows, ReassignReplaces(a, b) PROVE RowOK
    <2>0. driver'.generation \in Generations /\ control.epoch \in Epochs /\ PRIMARY_OPERATOR \in Owners
      BY <1>0, <1>6, FenceTyped, DriverFields, ControlFields DEF ReassignReplaces, Owners
    <2>1. /\ row[b].state = "FREE" /\ a # b
          /\ row[a].state \in {"READY", "CANCELLED", "STALE_RESULT"}
          /\ row[a] \in Row /\ row[b] \in Row
      BY <1>0, <1>6 DEF ReassignReplaces, IsNext, Fenced, AwaitsCheckpoint
    <2>2. row'[a] \in Row /\ RowMoves(a)
      <3>1. row'[a] = [row[a] EXCEPT !.state = "CANCELLED"]
        BY <1>6, <2>1 DEF ReassignReplaces
      <3>2. row'[a] \in Row /\ row'[a].state = "CANCELLED" /\ SameWork(a)
        BY <2>1, <3>1 DEF Row, RowStates, Fenced, SameWork
      <3> QED BY <2>1, <3>2 DEF RowMoves, SameWork
    <2>3. row'[b] \in Row /\ RowMoves(b)
      <3>1. row'[b] = [state |-> "READY", generation |-> driver'.generation, epoch |-> control.epoch,
                       authority |-> PRIMARY_OPERATOR, phase |-> row[a].phase]
        BY <1>6, <2>1 DEF ReassignReplaces
      <3>2. row'[b] \in Row
        BY <2>0, <2>1, <3>1, RowRecord DEF Row, RowStates
      <3> QED BY <2>1, <3>1, <3>2 DEF RowMoves
    <2>4. ASSUME NEW c \in Rows \ {a, b} PROVE row'[c] \in Row /\ RowMoves(c)
      <3>1. CASE row[c].state = "READY"
        <4>1. row'[c] = [row[c] EXCEPT !.generation = driver'.generation]
          BY <1>6, <3>1 DEF ReassignReplaces
        <4>2. row'[c] \in Row /\ row'[c].state = row[c].state /\ row'[c].phase = row[c].phase
          BY <1>0, <2>0, <4>1, BindGeneration
        <4> QED BY <3>1, <4>2 DEF RowMoves
      <3>2. CASE row[c].state # "READY"
        <4>1. row'[c] = row[c]
          BY <1>6, <3>2 DEF ReassignReplaces
        <4> QED BY <1>0, <4>1 DEF RowMoves
      <3> QED BY <3>1, <3>2
    <2>5. row' = [c \in Rows |-> row'[c]]
      BY <1>6 DEF ReassignReplaces
    <2> QED BY <2>2, <2>3, <2>4, <2>5 DEF RowOK
  <1>7. ASSUME NEW a \in Rows, CreateInserts(a) PROVE RowOK
    <2>1. /\ row[a].state = "FREE"
          /\ row' = [row EXCEPT ![a] = [state |-> "READY", generation |-> seen["driver"].generation,
                                  epoch |-> seen["driver"].epoch, authority |-> AUTONOMOUS,
                                  phase |-> phase]]
      BY <1>7 DEF CreateInserts, IsNext
    <2>2. /\ seen["driver"].generation \in Generations /\ seen["driver"].epoch \in Epochs
      BY <1>0 DEF SeenType, Threads
    <2>3. phase \in 0..MaxRows + 1
      BY Bounds DEF TypeOK
    <2>4. row'[a] \in Row /\ row'[a].state = "READY"
      BY <1>0, <2>1, <2>2, <2>3 DEF Row, RowStates, Owners
    <2> QED BY <1>0, <2>1, <2>4 DEF RowOK, RowMoves
  <1>8. CASE rebind_ready_assignments
    <2>1. seen["resume"].generation \in Generations /\ seen["resume"].epoch \in Epochs
          /\ AUTONOMOUS \in Owners
      BY <1>0 DEF SeenType, Threads, Owners
    <2>2. ASSUME NEW a \in Rows PROVE row'[a] \in Row /\ RowMoves(a)
      <3>1. CASE row[a].state = "READY"
        <4>1. row'[a] = [row[a] EXCEPT !.generation = seen["resume"].generation,
                                       !.epoch = seen["resume"].epoch, !.authority = AUTONOMOUS]
          BY <1>8, <3>1 DEF rebind_ready_assignments, In
        <4>2. row'[a] \in Row /\ row'[a].state = row[a].state /\ row'[a].phase = row[a].phase
          BY <1>0, <2>1, <4>1 DEF Row
        <4> QED BY <3>1, <4>2 DEF RowMoves
      <3>2. CASE row[a].state # "READY"
        BY <1>0, <1>8, <3>2 DEF rebind_ready_assignments, In, RowMoves
      <3> QED BY <3>1, <3>2
    <2>3. row' = [a \in Rows |-> row'[a]]
      BY <1>8 DEF rebind_ready_assignments
    <2> QED BY <2>2, <2>3 DEF RowOK
  <1>9. ASSUME NEW a \in Rows, claim_assignment(a) PROVE RowOK
    <2>1. row[a].state = "READY" /\ row' = [row EXCEPT ![a].state = "CLAIMED"]
      BY <1>9 DEF claim_assignment, assignment_claim_eligibility
    <2> QED BY <1>0, <1>9, <2>1, OneRow DEF RowStates, RowMoves
  <1>10. ASSUME NEW a \in Rows, Posts(a) PROVE RowOK
    <2>1. PICK s \in {"PASS", "FAIL"} : record_receipt(a, s)
      BY <1>10 DEF Posts, PostResult, PostAnswerLost, PostFailure
    <2>2. CASE Stale(a) /\ row' = [row EXCEPT ![a].state = "STALE_RESULT"]
      BY <1>0, <1>10, <2>2, OneRow DEF RowStates, Fenced, RowMoves
    <2>3. CASE Accepts(a) /\ row' = [row EXCEPT ![a].state = s]
      <3>1. row[a].state = "CLAIMED"
        BY <2>3 DEF Accepts, Acceptable
      <3> QED BY <1>0, <1>10, <2>3, <3>1, OneRow DEF RowStates, RowMoves
    <2> QED BY <1>1, <2>1, <2>2, <2>3 DEF record_receipt, _store_stale_result
  <1> QED
    <2>1. CASE Command
      BY <2>1, <1>1, <1>2, <1>3, <1>4, <1>5, <1>6 DEF Command, REVOKE_CAPABILITY, RESUME_SCOPE
    <2>2. CASE MissionControl
      BY <2>2, <1>1, <1>7, <1>8 DEF MissionControl, PauseDriver, Resume, next_dispatch,
         drive_generic_once, CreateChecks, _generic_wait, RebindReads, SelectReads, SelectNextPhase,
         Restart,
         ActivateReads, ActivateWrites, snapshot, _generic_execute_read_plan,
             record_generic_action_receipt, PhasePasses
    <2> QED BY <2>1, <2>2, <1>1, <1>9, <1>10 DEF Next, WorkerDies

\* A phase passes on the strength of a row, and no row is of two phases: there are
\* at most as many phases as rows.
LEMMA PhaseBound ==
  ASSUME row \in [Rows -> Row], NEW p \in Nat,
         \A k \in 1..p : \E a \in Rows : row[a].phase = k
  PROVE  p <= MaxRows
  <1> DEFINE f == [a \in Rows |-> row[a].phase]
             S == {f[a] : a \in Rows}
  <1>1. IsFiniteSet(Rows) /\ Cardinality(Rows) = MaxRows
    BY Bounds, FS_Interval DEF Rows
  <1>2. IsFiniteSet(S) /\ Cardinality(S) <= MaxRows
    <2>1. IsFiniteSet({f[a] : a \in Rows}) /\ Cardinality({f[a] : a \in Rows}) <= Cardinality(Rows)
      <3>1. f \in Surjection(Rows, S)
        BY DEF Surjection
      <3> HIDE DEF f
      <3> QED BY <1>1, <3>1, FS_Surjection
    <2> QED BY <1>1, <2>1
  <1>3. 1..p \subseteq S
    OBVIOUS
  <1>4. Cardinality(1..p) = p
    BY FS_Interval
  <1>5. Cardinality(1..p) <= Cardinality(S)
    <2> HIDE DEF S
    <2> QED BY <1>2, <1>3, FS_Subset
  <1>6. Cardinality(S) \in Nat
    <2> HIDE DEF S
    <2> QED BY <1>2, FS_CardinalityType
  <1> QED BY <1>2, <1>4, <1>5, <1>6, Bounds

\* A row that exists keeps its phase, and a row is made with its own.
LEMMA RowPhases ==
  ASSUME Typed, Next, NEW a \in Rows
  PROVE  /\ row[a].state # "FREE" => row'[a].phase = row[a].phase
         /\ row'[a].state = "FREE" => row'[a] = row[a]
  <1>1. RowMoves(a)
    BY RowStep DEF Typed, RowOK
  <1> QED BY <1>1 DEF RowMoves, SameWork

LEMMA RowsKeepPhase ==
  ASSUME Typed, Next, NEW k \in Nat \ {0}, \E a \in Rows : row[a].phase = k
  PROVE  \E a \in Rows : row'[a].phase = k
  <1>1. PICK a \in Rows : row[a].phase = k
    OBVIOUS
  <1>2. row[a].state # "FREE"
    BY <1>1 DEF Typed, PhasesHaveRows, In
  <1> QED BY <1>1, <1>2, RowPhases

LEMMA PhaseStep ==
  ASSUME Typed, Next
  PROVE  PhasesHaveRows' /\ phase' \in 1..MaxRows + 1
  <1>0. row \in [Rows -> Row] /\ phase \in 1..MaxRows + 1
    BY DEF Typed, TypeOK
  <1>3. \A a \in Rows : row'[a].state = "FREE" => row'[a].phase = 0
    BY RowPhases DEF Typed, PhasesHaveRows, In
  <1>4. ASSUME NEW k \in Nat \ {0}, \E a \in Rows : row[a].phase = k
        PROVE  \E a \in Rows : row'[a].phase = k
    BY <1>4, RowsKeepPhase
  <1>5. CASE UNCHANGED phase
    <2>1. ASSUME NEW k \in 1..phase - 1 PROVE \E a \in Rows : row'[a].phase = k
      BY <1>0, <1>4, Bounds DEF Typed, PhasesHaveRows
    <2> QED BY <1>0, <1>3, <1>5, <2>1 DEF PhasesHaveRows, In
  <1>6. CASE PhasePasses
    <2>1. phase' = phase + 1 /\ \E a \in Rows : row[a].phase = phase
      BY <1>6 DEF PhasePasses, Typed, PlanHasRow, Planned
    <2>2. ASSUME NEW k \in 1..phase PROVE \E b \in Rows : row[b].phase = k
      <3>1. CASE k = phase
        BY <2>1, <3>1
      <3>2. CASE k # phase
        BY <1>0, <3>2, Bounds DEF Typed, PhasesHaveRows
      <3> QED BY <3>1, <3>2
    <2>3. phase <= MaxRows
      BY <1>0, <2>2, PhaseBound, Bounds
    <2>4. phase' \in 1..MaxRows + 1
      BY <1>0, <2>1, <2>3, Bounds
    <2>5. ASSUME NEW k \in 1..phase' - 1 PROVE \E b \in Rows : row'[b].phase = k
      <3>1. k \in 1..phase /\ k \in Nat \ {0}
        BY <1>0, <2>1, Bounds
      <3> QED BY <1>4, <2>2, <3>1
    <2> QED BY <1>3, <2>4, <2>5 DEF PhasesHaveRows, In
  <1> QED BY <1>5, <1>6 DEF Next, Command, PAUSE_SCOPE, STOP_SCOPE, TAKE_CONTROL, RELEASE_CONTROL,
             REVOKE_CAPABILITY, RESUME_SCOPE, CANCEL_ASSIGNMENT, ReassignWaits, ReassignReplaces,
             MissionControl, PauseDriver, Resume, next_dispatch, drive_generic_once, CreateChecks,
             _generic_wait, RebindReads, rebind_ready_assignments, SelectReads, SelectNextPhase,
             Restart, ActivateReads,
             ActivateWrites, snapshot, CreateInserts, _generic_execute_read_plan,
             record_generic_action_receipt,
             claim_assignment, Posts, PostResult, PostAnswerLost, PostFailure, WorkerDies

\* A plan is of the latest assignment of its phase, and rows keep their phases.
LEMMA PlanStep ==
  ASSUME Typed, Next
  PROVE  PlanHasRow'
  <1>1. SUFFICES ASSUME pc'["driver"] \in Planned PROVE \E a \in Rows : row'[a].phase = phase'
    BY DEF PlanHasRow
  <1>2. phase \in Nat \ {0}
    BY Bounds DEF Typed, TypeOK
  <1>a. "driver" \in Threads /\ DOMAIN pc = Threads /\ pc = [t \in Threads |-> pc[t]]
    BY DEF Typed, TypeOK, Threads
  <1>3. CASE pc["driver"] \in Planned /\ UNCHANGED phase
    <2>1. \E a \in Rows : row[a].phase = phase
      BY <1>3 DEF Typed, PlanHasRow
    <2> QED BY <1>2, <1>3, <2>1, RowsKeepPhase
  <1>4. CASE drive_generic_once /\ UNCHANGED <<row, phase>>
    BY <1>1, <1>a, <1>4 DEF drive_generic_once, heartbeat, Go, Planned, IsLatest
  <1> QED BY <1>1, <1>a, <1>3, <1>4 DEF Next, Command, PAUSE_SCOPE, STOP_SCOPE, TAKE_CONTROL,
             RELEASE_CONTROL, REVOKE_CAPABILITY, RESUME_SCOPE, CANCEL_ASSIGNMENT, ReassignWaits,
             ReassignReplaces, MissionControl, PauseDriver, Resume, next_dispatch, drive_generic_once,
             CreateChecks, _generic_wait, RebindReads, rebind_ready_assignments, SelectReads,
             SelectNextPhase, Restart, ActivateReads, ActivateWrites, snapshot, CreateInserts,
             _generic_execute_read_plan, record_generic_action_receipt, PhasePasses, Go, Leave,
             heartbeat, threads, Planned, Threads,
             claim_assignment, Posts, PostResult, PostAnswerLost, PostFailure, WorkerDies

LEMMA ActedStep == ASSUME acted \in BOOLEAN, Next PROVE acted' \in BOOLEAN
  BY DEF Next, Command, PAUSE_SCOPE, STOP_SCOPE, TAKE_CONTROL,
         RELEASE_CONTROL, REVOKE_CAPABILITY, RESUME_SCOPE, CANCEL_ASSIGNMENT, ReassignWaits,
         ReassignReplaces, MissionControl, PauseDriver, Resume, next_dispatch, drive_generic_once,
         CreateChecks, _generic_wait, RebindReads, rebind_ready_assignments, SelectReads,
         SelectNextPhase, Restart, ActivateReads, ActivateWrites, snapshot, CreateInserts,
         _generic_execute_read_plan, record_generic_action_receipt, PhasePasses,
         claim_assignment, Posts, PostResult, PostAnswerLost, PostFailure, WorkerDies

LEMMA TypedStep == ASSUME Typed, Next PROVE Typed'
  <1>0. /\ ControlType /\ DriverType /\ PcType /\ SeenType /\ WorkerType /\ row \in [Rows -> Row]
        /\ claimed \in [Rows -> Epochs] /\ ledger \in [Rows -> Epochs]
        /\ parent \in [Rows -> 0..MaxRows]
    BY DEF Typed, TypeOK, ControlType, DriverType, PcType, SeenType, WorkerType
  <1>1. ControlType' /\ DriverType'
    BY <1>0, ControlStep, DriverStep
  <1>2. PcType' /\ SeenType'
    BY <1>0, ThreadStep
  <1>3. /\ WorkerType' /\ claimed' \in [Rows -> Epochs] /\ ledger' \in [Rows -> Epochs]
        /\ parent' \in [Rows -> 0..MaxRows]
    BY <1>0, WorkersStep
  <1>4. row' \in [Rows -> Row]
    BY RowStep DEF RowOK, Typed
  <1>5. PhasesHaveRows' /\ phase' \in 1..MaxRows + 1
    BY PhaseStep
  <1>6. PlanHasRow' /\ acted' \in BOOLEAN
    BY PlanStep, ActedStep DEF Typed, TypeOK
  <1> QED BY <1>1, <1>2, <1>3, <1>4, <1>5, <1>6
          DEF Typed, TypeOK, ControlType, DriverType, PcType, SeenType, WorkerType
------------------------------------------------------------------------------
(* Commands, claims and results.                                           *)

\* A command changes the owner, sets a latch or begins an epoch only together with the
\* fence, or leaves owner and latches as they are.
ControlMoves ==
    \/ UNCHANGED control
    \/ /\ control'.owner = control.owner
       /\ control'.pause => control.pause
       /\ control'.stop => control.stop
    \/ _fence_assignments
    \/ _release_assignment_handoff

LEMMA ControlMovesStep == ASSUME TypeOK, Next PROVE ControlMoves
  <1>1. ASSUME NEW latches, RESUME_SCOPE(latches) PROVE ControlMoves
    <2>1. /\ control'.owner = control.owner
          /\ control'.pause = (control.pause /\ "pause" \notin latches)
          /\ control'.stop = (control.stop /\ "stop" \notin latches)
      BY <1>1, Zenon DEF RESUME_SCOPE, _bump_control
    <2> QED BY <2>1, Zenon DEF ControlMoves
  <1>2. CASE REVOKE_CAPABILITY
    BY <1>2 DEF REVOKE_CAPABILITY, _bump_control, ControlMoves
  <1>3. CASE PAUSE_SCOPE \/ STOP_SCOPE \/ TAKE_CONTROL \/ RELEASE_CONTROL
    BY <1>3 DEF PAUSE_SCOPE, STOP_SCOPE, TAKE_CONTROL, RELEASE_CONTROL, ControlMoves
  <1>4. CASE UNCHANGED control
    BY <1>4 DEF ControlMoves
  <1> QED BY <1>1, <1>2, <1>3, <1>4 DEF Next, Command, CANCEL_ASSIGNMENT, ReassignWaits, ReassignReplaces,
             MissionControl, PauseDriver, Resume, next_dispatch, drive_generic_once, CreateChecks,
             _generic_wait, RebindReads, rebind_ready_assignments, SelectReads, SelectNextPhase,
             Restart, ActivateReads,
             ActivateWrites, snapshot, CreateInserts, _generic_execute_read_plan,
             record_generic_action_receipt, PhasePasses,
             claim_assignment, Posts, PostResult, PostAnswerLost, PostFailure, WorkerDies

\* After a fence no row is claimed.
LEMMA FenceLeavesNone ==
  ASSUME row \in [Rows -> Row], _fence_assignments \/ _release_assignment_handoff, NEW a \in Rows
  PROVE  row'[a].state # "CLAIMED"
  <1>0. row[a] \in Row
    OBVIOUS
  <1>1. CASE _fence_assignments
    BY <1>0, <1>1, SetState DEF _fence_assignments, RowStates, Fenced
  <1>2. CASE _release_assignment_handoff
    <2>1. CASE row[a].state = "READY" /\ row[a].authority = PRIMARY_OPERATOR
      BY <1>0, <1>2, <2>1 DEF _release_assignment_handoff, Row
    <2>2. CASE row[a].state = "READY" /\ row[a].authority # PRIMARY_OPERATOR
      BY <1>0, <1>2, <2>2 DEF _release_assignment_handoff, Row
    <2>3. CASE row[a].state = "CLAIMED"
      BY <1>0, <1>2, <2>3 DEF _release_assignment_handoff, Row
    <2>4. CASE row[a].state \notin {"READY", "CLAIMED"}
      BY <1>0, <1>2, <2>4 DEF _release_assignment_handoff, Row
    <2> QED BY <2>1, <2>2, <2>3, <2>4
  <1> QED BY <1>1, <1>2

LEMMA ContainedStep == ASSUME TypeOK, Contained, Next PROVE Contained'
  <1>1. ASSUME NEW a \in Rows, row'[a].state = "CLAIMED"
        PROVE  ~control'.pause /\ ~control'.stop /\ row'[a].authority = control'.owner
    <2>1. row \in [Rows -> Row] /\ RowMoves(a) /\ ControlMoves
      BY RowStep, ControlMovesStep DEF RowOK, TypeOK
    <2>2. CASE row'[a] = row[a]
      <3>1. ~control.pause /\ ~control.stop /\ row[a].authority = control.owner
        BY <1>1, <2>2 DEF Contained, In
      <3>2. ~_fence_assignments /\ ~_release_assignment_handoff
        BY <1>1, <2>1, FenceLeavesNone
      <3> QED BY <2>1, <2>2, <3>1, <3>2 DEF ControlMoves
    <2>3. CASE claim_assignment(a) /\ SameWork(a)
      BY <2>3 DEF claim_assignment, assignment_claim_eligibility, assignment_allowed, SameWork
    <2> QED BY <1>1, <2>1, <2>2, <2>3 DEF RowMoves
  <1> QED BY <1>1 DEF Contained, In

\* What a step may make of the worker of a row and of the row's ledger entry.
WorkMoves(a) ==
    \/ worker'[a] = worker[a] /\ claimed'[a] = claimed[a] /\ ledger'[a] = ledger[a]
    \/ /\ row[a].state = "READY" /\ row'[a].state = "CLAIMED" /\ row[a].epoch = control.epoch
       /\ claimed'[a] = control.epoch /\ ledger'[a] = ledger[a]
    \/ /\ worker'[a].at # "busy" /\ claimed'[a] = claimed[a]
       /\ ledger'[a] = ledger[a] \/ (Accepts(a) /\ ledger'[a] = control.epoch)

LEMMA PostMoves ==
  ASSUME TypeOK, NEW a \in Rows, Posts(a)
  PROVE  /\ worker'[a].at # "busy"
         /\ worker' = [worker EXCEPT ![a] = worker'[a]]
         /\ UNCHANGED claimed
         /\ ledger' = ledger \/ (Accepts(a) /\ ledger' = [ledger EXCEPT ![a] = control.epoch])
  <1>0. WorkerType
    BY DEF TypeOK, WorkerType
  <1>1. \/ worker' = [worker EXCEPT ![a] = Gone("done")]
        \/ worker' = [worker EXCEPT ![a].at = "again"]
    BY DEF Posts, PostResult, PostAnswerLost, PostFailure
  <1>2. worker'[a].at # "busy" /\ worker' = [worker EXCEPT ![a] = worker'[a]]
    BY <1>0, <1>1 DEF WorkerType, Gone
  <1>3. /\ UNCHANGED claimed
        /\ ledger' = ledger \/ (Accepts(a) /\ ledger' = [ledger EXCEPT ![a] = control.epoch])
    BY DEF Posts, PostResult, PostAnswerLost, PostFailure, record_receipt
  <1> QED BY <1>2, <1>3

LEMMA WorkStep ==
  ASSUME TypeOK, Next, NEW a \in Rows
  PROVE  WorkMoves(a)
  <1>0. /\ WorkerType /\ row \in [Rows -> Row] /\ claimed \in [Rows -> Epochs]
        /\ ledger \in [Rows -> Epochs]
    BY DEF TypeOK, WorkerType
  <1>1. CASE UNCHANGED workers
    BY <1>1 DEF workers, WorkMoves
  <1>2. ASSUME NEW b \in Rows, claim_assignment(b) PROVE WorkMoves(a)
    <2>1. CASE a = b
      <3>1. /\ row[a].state = "READY" /\ row[a].epoch = control.epoch
            /\ row' = [row EXCEPT ![a].state = "CLAIMED"]
            /\ claimed' = [claimed EXCEPT ![a] = control.epoch] /\ UNCHANGED ledger
        BY <1>2, <2>1 DEF claim_assignment, assignment_claim_eligibility, assignment_allowed
      <3>2. row'[a].state = "CLAIMED"
        BY <1>0, <3>1 DEF Row
      <3> QED BY <1>0, <3>1, <3>2 DEF WorkMoves
    <2>2. CASE a # b
      BY <1>0, <1>2, <2>2 DEF claim_assignment, WorkMoves, WorkerType
    <2> QED BY <2>1, <2>2
  <1>3. ASSUME NEW b \in Rows, Posts(b) PROVE WorkMoves(a)
    <2>1. CASE a = b
      BY <1>0, <1>3, <2>1, PostMoves DEF WorkMoves
    <2>2. CASE a # b
      BY <1>0, <1>3, <2>2, PostMoves DEF WorkMoves, WorkerType
    <2> QED BY <2>1, <2>2
  <1>4. ASSUME NEW b \in Rows, WorkerDies(b) PROVE WorkMoves(a)
    BY <1>0, <1>4 DEF WorkerDies, WorkMoves, WorkerType, Gone
  <1> QED BY <1>1, <1>2, <1>3, <1>4 DEF Next, Command, PAUSE_SCOPE, STOP_SCOPE, TAKE_CONTROL,
             RELEASE_CONTROL, REVOKE_CAPABILITY, RESUME_SCOPE, CANCEL_ASSIGNMENT, ReassignWaits,
             ReassignReplaces, MissionControl, PauseDriver, Resume, next_dispatch, drive_generic_once,
             CreateChecks, _generic_wait, RebindReads, rebind_ready_assignments, SelectReads,
             SelectNextPhase, Restart,
             ActivateReads, ActivateWrites, snapshot, CreateInserts, _generic_execute_read_plan,
             record_generic_action_receipt, PhasePasses

LEMMA ParentStep ==
  ASSUME TypeOK, Custody, Next, NEW b \in Rows, parent'[b] # 0
  PROVE  row'[parent'[b]].state \in {"CANCELLED", "STALE_RESULT"}
  <1>0. row \in [Rows -> Row] /\ parent \in [Rows -> 0..MaxRows]
    BY DEF TypeOK
  <1>1. CASE parent'[b] = parent[b]
    <2>1. PICK p \in Rows : p = parent[b]
      BY <1>0, <1>1, Bounds DEF Rows
    <2>2. row[p].state \in {"CANCELLED", "STALE_RESULT"} /\ RowMoves(p)
      BY <1>1, <2>1, RowStep DEF Custody, RowOK
    <2>3. row'[p].state \in {"CANCELLED", "STALE_RESULT"}
      BY <2>2 DEF RowMoves
    <2> QED BY <1>1, <2>1, <2>3
  <1>2. ASSUME NEW a \in Rows, NEW c \in Rows, ReassignReplaces(a, c), parent'[b] # parent[b]
        PROVE  row'[parent'[b]].state \in {"CANCELLED", "STALE_RESULT"}
    <2>1. parent'[b] = a
      BY <1>0, <1>2 DEF ReassignReplaces
    <2>2. a # c
      BY <1>2 DEF ReassignReplaces, IsNext, Fenced
    <2>3. row'[a] = [row[a] EXCEPT !.state = "CANCELLED"]
      BY <1>2, <2>2 DEF ReassignReplaces
    <2>4. row'[a].state = "CANCELLED"
      BY <1>0, <2>3 DEF Row
    <2> QED BY <2>1, <2>4
  <1> QED BY <1>1, <1>2 DEF Next, Command, PAUSE_SCOPE, STOP_SCOPE, TAKE_CONTROL,
             RELEASE_CONTROL, REVOKE_CAPABILITY, RESUME_SCOPE, CANCEL_ASSIGNMENT, ReassignWaits,
             MissionControl, PauseDriver, Resume, next_dispatch, drive_generic_once,
             CreateChecks, _generic_wait, RebindReads, rebind_ready_assignments, SelectReads,
             SelectNextPhase, Restart,
             ActivateReads, ActivateWrites, snapshot, CreateInserts, _generic_execute_read_plan,
             record_generic_action_receipt, PhasePasses,
             claim_assignment, Posts, PostResult, PostAnswerLost, PostFailure, WorkerDies

LEMMA CustodyStep ==
  ASSUME Typed, Custody, AcceptedUnderOneEpoch, Next
  PROVE  Custody' /\ AcceptedUnderOneEpoch'
  <1>0. TypeOK /\ TypeOK'
    BY TypedStep DEF Typed
  <1>1. ASSUME NEW a \in Rows
        PROVE  /\ row'[a].state \in {"FREE", "READY"} => ledger'[a] = 0
               /\ row'[a].state = "CLAIMED" => claimed'[a] = row'[a].epoch
               /\ worker'[a].at = "busy" => row'[a].state \in {"CLAIMED", "CANCEL_REQUESTED"}
               /\ ledger'[a] # 0 => ledger'[a] = claimed'[a]
    <2>1. RowMoves(a) /\ WorkMoves(a)
      BY <1>0, RowStep, WorkStep DEF RowOK
    <2>2. /\ row[a].state \in {"FREE", "READY"} => ledger[a] = 0
          /\ row[a].state = "CLAIMED" => claimed[a] = row[a].epoch
          /\ worker[a].at = "busy" => row[a].state \in {"CLAIMED", "CANCEL_REQUESTED"}
          /\ ledger[a] # 0 => ledger[a] = claimed[a]
      BY DEF Custody, In, AcceptedUnderOneEpoch
    <2>3. Posts(a) => worker'[a].at # "busy"
      BY <1>0, PostMoves
    <2>4. Accepts(a) => row[a].state = "CLAIMED" /\ row[a].epoch = control.epoch
      BY DEF Accepts, Acceptable, Stale, assignment_allowed
    <2>5. claim_assignment(a) => row[a].epoch = control.epoch /\ claimed'[a] = control.epoch
      BY <1>0 DEF claim_assignment, assignment_claim_eligibility, assignment_allowed, TypeOK
    <2>6. row'[a].state \in {"FREE", "READY"} => ledger'[a] = 0
      BY <2>1, <2>2, <2>4 DEF RowMoves, WorkMoves
    <2>7. row'[a].state = "CLAIMED" => claimed'[a] = row'[a].epoch
      BY <2>1, <2>2, <2>5 DEF RowMoves, WorkMoves, SameWork
    <2>8. worker'[a].at = "busy" => row'[a].state \in {"CLAIMED", "CANCEL_REQUESTED"}
      BY <2>1, <2>2, <2>3 DEF RowMoves, WorkMoves
    <2>9. ledger'[a] # 0 => ledger'[a] = claimed'[a]
      BY <2>1, <2>2, <2>4 DEF WorkMoves
    <2> QED BY <2>6, <2>7, <2>8, <2>9
  <1>2. \A b \in Rows : parent'[b] # 0 => row'[parent'[b]].state \in {"CANCELLED", "STALE_RESULT"}
    BY <1>0, ParentStep
  <1> QED BY <1>1, <1>2 DEF Custody, In, AcceptedUnderOneEpoch

LEMMA ControlInvariant == Spec => []ControlInv
  <1>1. Init => ControlInv
    <2> SUFFICES ASSUME Init PROVE ControlInv
      OBVIOUS
    <2>1. Custody /\ Contained /\ AcceptedUnderOneEpoch
      BY DEF Init, Custody, Contained, AcceptedUnderOneEpoch, In, Free, Gone
    <2> QED BY <2>1, TypedInit DEF ControlInv
  <1>2. ControlInv /\ [Next]_vars => ControlInv'
    <2> SUFFICES ASSUME ControlInv, [Next]_vars PROVE ControlInv'
      OBVIOUS
    <2>1. CASE Next
      BY <2>1, TypedStep, CustodyStep, ContainedStep DEF ControlInv, Typed
    <2>2. CASE UNCHANGED vars
      BY <2>2 DEF ControlInv, Typed, TypeOK, PhasesHaveRows, PlanHasRow, Custody, Contained,
                  AcceptedUnderOneEpoch, In, vars
    <2> QED BY <2>1, <2>2
  <1> QED BY <1>1, <1>2, PTL DEF Spec

\* Control latches, driver, assignments, threads, workers and receipts have their
\* types in every state; the phase counter never leaves the assignments behind.
THEOREM ControlTyped == Spec => []TypeOK
  <1>1. ControlInv => TypeOK
    BY DEF ControlInv, Typed
  <1> QED BY <1>1, ControlInvariant, PTL

\* No assignment is in a worker's hands behind a pause or a stop, or for another owner
\* than the current one: every command that sets a latch or changes the owner fences
\* the claimed rows in its own transaction, and the threads that write back what they
\* read earlier never claim a row.
THEOREM ControlContains == Spec => []Contained
  <1>1. ControlInv => Contained
    BY DEF ControlInv
  <1> QED BY <1>1, ControlInvariant, PTL

\* record_receipt accepts a result only under the control epoch in which its
\* assignment was claimed: any command in between makes it stale.
THEOREM ControlAccepts == Spec => []AcceptedUnderOneEpoch
  <1>1. ControlInv => AcceptedUnderOneEpoch
    BY DEF ControlInv
  <1> QED BY <1>1, ControlInvariant, PTL

\* REASSIGN waits for the worker: while a row has a replacement nobody works on it.
THEOREM ControlReplaces == Spec => []ReplacedWhenIdle
  <1>1. ControlInv => ReplacedWhenIdle
    <2> SUFFICES ASSUME ControlInv, NEW b \in Rows, parent[b] # 0
                 PROVE  worker[parent[b]].at # "busy"
      BY DEF ReplacedWhenIdle
    <2>1. parent[b] \in Rows
      BY Bounds DEF ControlInv, Typed, TypeOK, Rows
    <2> QED BY <2>1 DEF ControlInv, Custody
  <1> QED BY <1>1, ControlInvariant, PTL

\* No step of any process takes a row out of CANCELLED, CANCEL_REQUESTED and
\* STALE_RESULT.
THEOREM ControlCancels == Spec => CancelIsFinal
  <1> DEFINE Kept == \A a \in Rows : row[a].state \in Fenced => row'[a].state \in Fenced
  <1>1. ControlInv /\ [Next]_vars => [Kept]_vars
    <2> SUFFICES ASSUME ControlInv, Next PROVE Kept
      OBVIOUS
    <2>1. ASSUME NEW a \in Rows, row[a].state \in Fenced PROVE row'[a].state \in Fenced
      <3>1. RowMoves(a)
        BY RowStep DEF RowOK, ControlInv, Typed
      <3> QED BY <2>1, <3>1 DEF RowMoves, Fenced
    <2> QED BY <2>1
  <1> QED BY <1>1, ControlInvariant, PTL DEF Spec, CancelIsFinal

\* A worker that a command has overtaken leaves its row with its result stored as
\* stale, unless it dies first.
THEOREM ControlKeepsLate == Spec => LateResultIsKept
  <1> DEFINE Kept == \A a \in Rows : Overtaken(a) /\ worker[a] # worker'[a] =>
                        row'[a].state = "STALE_RESULT" \/ worker'[a].at = "dead"
  <1>1. ControlInv /\ [Next]_vars => [Kept]_vars
    <2> SUFFICES ASSUME ControlInv, Next, NEW a \in Rows, Overtaken(a), worker[a] # worker'[a]
                 PROVE  row'[a].state = "STALE_RESULT" \/ worker'[a].at = "dead"
      OBVIOUS
    <2>0. TypeOK /\ WorkerType /\ row \in [Rows -> Row]
      BY DEF ControlInv, Typed, TypeOK, WorkerType
    <2>1. ASSUME NEW b \in Rows, claim_assignment(b) PROVE FALSE
      <3>1. b = a
        BY <2>0, <2>1 DEF claim_assignment, WorkerType
      <3> QED BY <2>1, <3>1 DEF claim_assignment, assignment_claim_eligibility, Overtaken
    <2>2. ASSUME NEW b \in Rows, Posts(b) PROVE row'[a].state = "STALE_RESULT"
      <3>1. b = a
        BY <2>0, <2>2, PostMoves DEF WorkerType
      <3>2. Stale(a)
        BY DEF Overtaken, Stale, assignment_allowed
      <3>3. row' = [row EXCEPT ![a].state = "STALE_RESULT"]
        BY <2>2, <3>1, <3>2 DEF Posts, PostResult, PostAnswerLost, PostFailure, record_receipt,
                                Accepts, _store_stale_result
      <3> QED BY <2>0, <3>3 DEF Row
    <2>3. ASSUME NEW b \in Rows, WorkerDies(b) PROVE worker'[a].at = "dead"
      BY <2>0, <2>3 DEF WorkerDies, WorkerType, Gone
    <2>4. UNCHANGED worker \/ \E b \in Rows : claim_assignment(b) \/ Posts(b) \/ WorkerDies(b)
      BY DEF Next, Command, PAUSE_SCOPE, STOP_SCOPE, TAKE_CONTROL,
             RELEASE_CONTROL, REVOKE_CAPABILITY, RESUME_SCOPE, CANCEL_ASSIGNMENT, ReassignWaits,
             ReassignReplaces, MissionControl, PauseDriver, Resume, next_dispatch, drive_generic_once,
             CreateChecks, _generic_wait, RebindReads, rebind_ready_assignments, SelectReads,
             SelectNextPhase, Restart,
             ActivateReads, ActivateWrites, snapshot, CreateInserts, _generic_execute_read_plan,
             record_generic_action_receipt, PhasePasses, workers
    <2> QED BY <2>1, <2>2, <2>3, <2>4
  <1> QED BY <1>1, ControlInvariant, PTL DEF Spec, LateResultIsKept
==============================================================================
