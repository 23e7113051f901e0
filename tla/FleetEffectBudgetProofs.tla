----------------------- MODULE FleetEffectBudgetProofs -----------------------
(***************************************************************************)
(* For any callers, requests, envelopes and clock bound: the store is      *)
(* well typed, keeps to one envelope, never gives out more slots than the  *)
(* envelope has, never reserves for one effect or key twice, and never     *)
(* reopens a closed reservation.                                           *)
(***************************************************************************)
EXTENDS FleetEffectBudget, BudgetTableLemmas

\* A caller inside an operation has a store, and all but snapshot have a request.
InOperation ==
    \A c \in Callers : op[c] # "idle" =>
        /\ store[c] # None
        /\ op[c] # "snapshot" => arg[c] \in Requests

\* The inductive invariant: WithinLimits alone is not preserved by Open, which
\* needs that no row exists before an envelope is recorded (OneEnvelope), nor by
\* reserve_exact, which needs that the caller's envelope is the recorded one.
IInv == TypeOK /\ InOperation /\ OneEnvelope /\ WithinLimits /\ NoReplay

------------------------------------------------------------------------------
(* Preservation.                                                           *)

\* get, snapshot, release and finalize leave a table that OnlyCloses relates
\* to the one they found.
LEMMA ClosingSteps ==
    ASSUME IInv, NEW c \in Callers, get(c) \/ snapshot(c) \/ release(c) \/ finalize(c)
    PROVE  rows' \in Table /\ OnlyCloses(rows, rows')
<1>0. rows \in Table /\ seen[c] \in Time
  BY DEF IInv, TypeOK, Table
<1> DEFINE T == _expire_locked(rows, seen[c])
<1>1. T \in Table /\ OnlyCloses(rows, T)
  BY <1>0, ExpireTable DEF OnlyCloses
<1>2. CASE get(c) \/ snapshot(c)
  BY <1>1, <1>2 DEF get, snapshot
<1>3. ASSUME NEW name \in {"release", "finalize"}, NEW to \in {"RELEASED", "FINALIZED"},
             _terminal(c, name, to)
      PROVE  rows' \in Table /\ OnlyCloses(rows, rows')
  <2>1. CASE rows' = rows
    BY <1>0, <2>1 DEF OnlyCloses
  <2>2. CASE rows' # rows
    <3> DEFINE i == arg[c].id
    <3>1. i \in Active(T, seen[c]) /\ rows' = [T EXCEPT ![i] = Close(T[i], to, seen[c])]
      BY <1>3, <2>2 DEF _terminal
    <3>2. i \in Ids /\ HasState(T, i, "RESERVED")
      BY <3>1 DEF Active
    <3>3. T[i] \in Row
      BY <1>1, <3>2 DEF Table, HasState
    <3>4. /\ Close(T[i], to, seen[c]) \in Row
          /\ Close(T[i], to, seen[c]).state = to
          /\ Close(T[i], to, seen[c]).req = T[i].req
          /\ Close(T[i], to, seen[c]).envelope = T[i].envelope
          /\ Close(T[i], to, seen[c]).expires_at = T[i].expires_at
      <4>1. to \in Terminal
        BY DEF Terminal
      <4> HIDE DEF T, i
      <4> QED BY <3>3, <1>0, <4>1, ClosedRow
    <3>5. rows' \in Table
      BY <1>1, <3>1, <3>4 DEF Table
    <3>6. rows'[i] = Close(T[i], to, seen[c]) /\ \A j \in Ids \ {i} : rows'[j] = T[j]
      BY <1>1, <3>1, <3>2 DEF Table
    <3>7. HasState(rows, i, "RESERVED")
      BY <1>1, <3>2 DEF OnlyCloses
    <3>8. rows'[i] # None /\ rows[i] # None /\ T[i] # None /\ ~HasState(rows', i, "RESERVED")
      BY <3>2, <3>4, <3>6, <3>7, NoneNotRow DEF HasState
    <3>9. ASSUME NEW j \in Ids, j # i
          PROVE  rows'[j] = T[j] /\ (HasState(rows', j, "RESERVED") <=> HasState(T, j, "RESERVED"))
      BY <3>6, <3>9 DEF HasState
    <3>10. /\ rows'[i].req = rows[i].req /\ rows'[i].envelope = rows[i].envelope
           /\ rows'[i].expires_at = rows[i].expires_at
      BY <1>1, <3>2, <3>4, <3>6, <3>8 DEF OnlyCloses
    <3> QED BY <1>1, <3>5, <3>7, <3>8, <3>9, <3>10 DEF OnlyCloses
  <2> QED BY <2>1, <2>2
<1>4. CASE release(c) \/ finalize(c)
  BY <1>3, <1>4 DEF release, finalize
<1> QED BY <1>2, <1>4

\* A successful reserve_exact closes expired rows and adds the caller's row
\* under an id that had none; an unsuccessful one leaves the table alone.
LEMMA ReserveStep ==
    ASSUME IInv, NEW c \in Callers, reserve_exact(c), rows' # rows
    PROVE  /\ arg[c] \in Requests /\ arg[c].id \in Ids /\ store[c] = meta /\ meta \in Envelopes
           /\ NewRow(c) \in Row
           /\ rows' = [_expire_locked(rows, seen[c]) EXCEPT ![arg[c].id] = NewRow(c)]
           /\ ~Replayed(_expire_locked(rows, seen[c]), arg[c])
           /\ SlotsFree(_expire_locked(rows, seen[c]), meta, arg[c], seen[c])
<1>1. /\ op[c] = "reserve" /\ meta = store[c]
      /\ rows' = [_expire_locked(rows, seen[c]) EXCEPT ![arg[c].id] = NewRow(c)]
      /\ ~Replayed(_expire_locked(rows, seen[c]), arg[c])
      /\ SlotsFree(_expire_locked(rows, seen[c]), store[c], arg[c], seen[c])
  BY DEF reserve_exact
<1>2. arg[c] \in Requests /\ store[c] # None /\ store[c] \in Envelopes
  BY <1>1 DEF IInv, InOperation, TypeOK
<1>3. arg[c].id \in Ids
  BY <1>2, IdsOfRequests
<1>4. arg[c].expires_text \in Time
  BY <1>2, TableAssumption
<1>5. NewRow(c) \in Row
  BY <1>2, <1>4 DEF NewRow, Row, States
<1> QED BY <1>1, <1>2, <1>3, <1>5

\* A step that only closes rows and leaves the envelopes alone keeps the part
\* of the invariant that is about the table.
LEMMA ClosingKeeps ==
    ASSUME IInv, rows' \in Table, OnlyCloses(rows, rows'), meta' = meta
    PROVE  /\ \A i \in Ids : rows'[i] # None => rows'[i].envelope = meta'
           /\ WithinLimits' /\ NoReplay'
<1>0. rows \in Table
  BY DEF IInv, TypeOK, Table
<1>1. \A i \in Ids : rows'[i] # None => rows'[i].envelope = meta'
  BY DEF IInv, OneEnvelope, OnlyCloses
<1>2. WithinLimits'
  <2>1. SUFFICES ASSUME meta # None PROVE Limits(rows', meta)
    BY DEF WithinLimits, Limits, Reserved, InRepo, InBranch, OnPath, HasState
  <2>2. meta \in Envelopes /\ Limits(rows, meta)
    BY <2>1 DEF IInv, TypeOK, WithinLimits
  <2>3. \A i \in Ids : HasState(rows', i, "RESERVED")
            => HasState(rows, i, "RESERVED") /\ rows'[i].req = rows[i].req
    BY DEF OnlyCloses, HasState
  <2> QED BY <1>0, <2>2, <2>3, LimitsShrink
<1>3. NoReplay'
  BY DEF IInv, NoReplay, OnlyCloses
<1> QED BY <1>1, <1>2, <1>3

\* A successful reserve_exact keeps it too: the new row belongs to the recorded
\* envelope, SlotsFree found room for it, and its effect and key are new.
LEMMA ReserveKeeps ==
    ASSUME IInv, NEW c \in Callers, reserve_exact(c), rows' # rows
    PROVE  /\ rows' \in Table
           /\ \A i \in Ids : rows'[i] # None => rows'[i].envelope = meta'
           /\ WithinLimits' /\ NoReplay'
<1> DEFINE T == _expire_locked(rows, seen[c])
           r == arg[c]
           row == NewRow(c)
<1>0. rows \in Table /\ seen[c] \in Time
  BY DEF IInv, TypeOK, Table
<1>1. /\ r \in Requests /\ r.id \in Ids /\ store[c] = meta /\ meta \in Envelopes
      /\ row \in Row /\ rows' = [T EXCEPT ![r.id] = row]
      /\ ~Replayed(T, r) /\ SlotsFree(T, meta, r, seen[c])
  BY ReserveStep
<1>2. T \in Table /\ OnlyCloses(rows, T) /\ Active(T, seen[c]) = Reserved(T)
  BY <1>0, ExpireTable DEF OnlyCloses
<1>3. meta' = meta
  BY DEF reserve_exact
<1>4. row.req = r /\ row.envelope = meta
  BY <1>1 DEF NewRow
<1> HIDE DEF T, r, row
<1>5. rows' \in Table
  BY <1>1, <1>2 DEF Table
<1>6. rows'[r.id] = row /\ \A i \in Ids \ {r.id} : rows'[i] = T[i]
  BY <1>1, <1>2 DEF Table
<1>7. ASSUME NEW i \in Ids, rows'[i] # None PROVE rows'[i].envelope = meta'
  <2>1. CASE i = r.id
    BY <1>3, <1>4, <1>6, <2>1
  <2>2. CASE i # r.id
    <3>1. rows'[i] = T[i] /\ T[i] # None
      BY <1>6, <1>7, <2>2
    <3>2. rows[i] # None /\ T[i].envelope = rows[i].envelope
      BY <1>2, <3>1 DEF OnlyCloses
    <3> QED BY <1>3, <3>1, <3>2 DEF IInv, OneEnvelope
  <2> QED BY <2>1, <2>2
<1>8. WithinLimits'
  <2>1. SUFFICES Limits(rows', meta)
    BY <1>3 DEF WithinLimits, Limits, Reserved, InRepo, InBranch, OnPath, HasState
  <2>2. meta # None
    BY <1>1, TableAssumption
  <2>3. Limits(rows, meta)
    BY <2>2 DEF IInv, WithinLimits
  <2>4. \A i \in Ids : HasState(T, i, "RESERVED")
            => HasState(rows, i, "RESERVED") /\ T[i].req = rows[i].req
    BY <1>2 DEF OnlyCloses, HasState
  <2>5. Limits(T, meta)
    BY <1>0, <1>1, <1>2, <2>3, <2>4, LimitsShrink
  <2>6. /\ T \in Table /\ meta \in Envelopes /\ r \in Requests /\ seen[c] \in Time
        /\ row \in Row /\ row.req = r /\ rows' \in Table
        /\ rows'[r.id] = row /\ \A i \in Ids \ {r.id} : rows'[i] = T[i]
        /\ Limits(T, meta) /\ SlotsFree(T, meta, r, seen[c])
        /\ Active(T, seen[c]) = Reserved(T)
    BY <1>0, <1>1, <1>2, <1>4, <1>5, <1>6, <2>5
  <2> QED BY <2>6, LimitsInsert
<1>9. NoReplay'
  <2>1. \A i \in Ids : T[i] # None => T[i].req.effect # r.effect /\ T[i].req.key # r.key
    BY <1>1 DEF Replayed
  <2>2. \A i \in Ids : T[i] # None => rows[i] # None /\ T[i].req = rows[i].req
    BY <1>2 DEF OnlyCloses
  <2>3. ASSUME NEW i \in Ids, NEW j \in Ids, rows'[i] # None, rows'[j] # None, i # j
        PROVE  rows'[i].req.effect # rows'[j].req.effect /\ rows'[i].req.key # rows'[j].req.key
    <3>1. CASE i = r.id
      BY <1>4, <1>6, <2>1, <2>3, <3>1
    <3>2. CASE j = r.id
      BY <1>4, <1>6, <2>1, <2>3, <3>2
    <3>3. CASE i # r.id /\ j # r.id
      <4>1. rows'[i] = T[i] /\ rows'[j] = T[j]
        BY <1>6, <3>3
      <4>2. rows[i] # None /\ rows[j] # None /\ T[i].req = rows[i].req /\ T[j].req = rows[j].req
        BY <2>2, <2>3, <4>1
      <4>3. rows[i].req.effect # rows[j].req.effect /\ rows[i].req.key # rows[j].req.key
        BY <2>3, <4>2 DEF IInv, NoReplay
      <4> QED BY <4>1, <4>2, <4>3
    <3> QED BY <3>1, <3>2, <3>3
  <2> QED BY <2>3 DEF NoReplay
<1> QED BY <1>5, <1>7, <1>8, <1>9

\* A transaction step: the caller's store object and the envelope stay, and the
\* caller returns to idle.
LEMMA FinishKeeps ==
    ASSUME IInv, NEW c \in Callers, Finish(c), UNCHANGED <<now, meta, store>>, rows' \in Table
    PROVE  TypeOK' /\ InOperation' /\ \A d \in Callers : store'[d] # None => store'[d] = meta'
<1>1. TypeOK'
  BY DEF IInv, TypeOK, Finish, Table, Ops, Time
<1>2. InOperation'
  BY DEF IInv, InOperation, TypeOK, Finish
<1> QED BY <1>1, <1>2 DEF IInv, OneEnvelope

------------------------------------------------------------------------------
\* A fresh database, without an envelope and without rows, satisfies the invariant.
LEMMA InitIInv == Init => IInv
<1> SUFFICES ASSUME Init PROVE IInv
  OBVIOUS
<1>1. TypeOK
  BY DEF Init, TypeOK, Ops, Time
<1>2. InOperation
  BY DEF Init, InOperation
<1>3. OneEnvelope /\ NoReplay /\ WithinLimits
  BY DEF Init, OneEnvelope, NoReplay, WithinLimits
<1> QED BY <1>1, <1>2, <1>3 DEF IInv

\* Every operation, tick and crash keeps the invariant.
LEMMA NextIInv == IInv /\ [Next]_vars => IInv'
<1> SUFFICES ASSUME IInv, [Next]_vars PROVE IInv'
  OBVIOUS
<1>0. rows \in Table /\ TypeOK /\ InOperation /\ OneEnvelope /\ WithinLimits /\ NoReplay
  BY DEF IInv, TypeOK, Table
<1>1. ASSUME UNCHANGED <<meta, rows>>
      PROVE  /\ WithinLimits' /\ NoReplay'
             /\ \A i \in Ids : rows'[i] # None => rows'[i].envelope = meta'
  BY <1>0, <1>1 DEF WithinLimits, NoReplay, OneEnvelope, Limits, Reserved, InRepo, InBranch,
                    OnPath, HasState
<1>2. CASE UNCHANGED vars
  <2>1. TypeOK' /\ InOperation' /\ OneEnvelope'
    BY <1>0, <1>2 DEF vars, TypeOK, InOperation, OneEnvelope
  <2> QED BY <1>1, <1>2, <2>1 DEF vars, IInv
<1>3. CASE Tick
  <2>1. TypeOK' /\ InOperation' /\ OneEnvelope'
    BY <1>0, <1>3 DEF Tick, TypeOK, InOperation, OneEnvelope, Time
  <2> QED BY <1>1, <1>3, <2>1 DEF Tick, IInv
<1>4. ASSUME NEW c \in Callers, NEW e \in Envelopes, Open(c, e) PROVE IInv'
  <2>1. TypeOK'
    BY <1>0, <1>4 DEF Open, TypeOK
  <2>2. InOperation'
    BY <1>0, <1>4, TableAssumption DEF Open, InOperation, TypeOK
  <2>3. CASE meta = e
    <3>1. UNCHANGED <<meta, rows>>
      BY <1>4, <2>3 DEF Open
    <3>2. \A d \in Callers : store'[d] # None => store'[d] = meta'
      BY <1>0, <1>4, <2>3 DEF Open, OneEnvelope, TypeOK
    <3> QED BY <1>1, <2>1, <2>2, <3>1, <3>2 DEF IInv, OneEnvelope
  <2>4. CASE meta = None
    <3>1. ASSUME NEW i \in Ids PROVE rows[i] = None
      <4>1. rows[i] \in Row => rows[i].envelope \in Envelopes
        BY DEF Row
      <4>2. rows[i] # None => rows[i].envelope = None
        BY <1>0, <2>4 DEF OneEnvelope
      <4> QED BY <1>0, <4>1, <4>2, TableAssumption DEF Table
    <3>2. rows' = rows /\ meta' = e
      BY <1>4 DEF Open
    <3>3. Limits(rows, e)
      BY <1>0, <3>1, LimitsEmpty
    <3>4. WithinLimits'
      BY <3>2, <3>3 DEF WithinLimits, Limits, Reserved, InRepo, InBranch, OnPath, HasState
    <3>5. NoReplay'
      BY <3>1, <3>2 DEF NoReplay
    <3>6. OneEnvelope'
      BY <1>0, <1>4, <2>4, <3>1, <3>2 DEF Open, OneEnvelope, TypeOK
    <3> QED BY <2>1, <2>2, <3>4, <3>5, <3>6 DEF IInv
  <2> QED BY <1>4, <2>3, <2>4 DEF Open
<1>5. ASSUME NEW c \in Callers, NEW r \in Requests, StampRequest(c, r) PROVE IInv'
  <2>1. TypeOK'
    BY <1>0, <1>5 DEF StampRequest, TypeOK, Ops
  <2>2. InOperation' /\ OneEnvelope'
    BY <1>0, <1>5 DEF StampRequest, InOperation, OneEnvelope, TypeOK, Idle
  <2> QED BY <1>1, <1>5, <2>1, <2>2 DEF StampRequest, IInv
<1>6. ASSUME NEW c \in Callers, NEW r \in Requests \cup {None},
             NEW name \in {"get", "release", "finalize", "snapshot"},
             name # "snapshot" => r \in Requests, StartCall(c, name, r)
      PROVE IInv'
  <2>1. TypeOK'
    BY <1>0, <1>6 DEF StartCall, TypeOK, Ops
  <2>2. InOperation' /\ OneEnvelope'
    BY <1>0, <1>6 DEF StartCall, InOperation, OneEnvelope, TypeOK, Idle
  <2> QED BY <1>1, <1>6, <2>1, <2>2 DEF StartCall, IInv
<1>7. ASSUME NEW c \in Callers, ReserveClock(c) PROVE IInv'
  <2>1. CASE Finish(c)
    <3>1. TypeOK' /\ InOperation' /\ \A d \in Callers : store'[d] # None => store'[d] = meta'
      BY <1>0, <1>7, <2>1, FinishKeeps DEF ReserveClock
    <3> QED BY <1>1, <1>7, <3>1 DEF ReserveClock, IInv, OneEnvelope
  <2>2. CASE ~Finish(c)
    <3>1. op' = [op EXCEPT ![c] = "reserve"] /\ UNCHANGED <<arg, seen, now, meta, rows, store>>
      BY <1>7, <2>2 DEF ReserveClock
    <3>2. TypeOK'
      BY <1>0, <3>1 DEF TypeOK, Ops
    <3>3. InOperation' /\ OneEnvelope'
      BY <1>0, <1>7, <3>1 DEF InOperation, OneEnvelope, TypeOK, ReserveClock
    <3> QED BY <1>1, <3>1, <3>2, <3>3 DEF IInv
  <2> QED BY <2>1, <2>2
<1>8. ASSUME NEW c \in Callers, reserve_exact(c) PROVE IInv'
  <2>0. Finish(c) /\ UNCHANGED <<now, meta, store>>
    BY <1>8 DEF reserve_exact
  <2>1. rows' \in Table /\ (\A i \in Ids : rows'[i] # None => rows'[i].envelope = meta')
        /\ WithinLimits' /\ NoReplay'
    <3>1. CASE rows' = rows
      BY <1>0, <1>1, <2>0, <3>1
    <3>2. CASE rows' # rows
      BY <1>8, <3>2, ReserveKeeps
    <3> QED BY <3>1, <3>2
  <2> QED BY <2>0, <2>1, FinishKeeps DEF IInv, OneEnvelope
<1>9. ASSUME NEW c \in Callers, get(c) \/ snapshot(c) \/ release(c) \/ finalize(c) PROVE IInv'
  <2>0. Finish(c) /\ UNCHANGED <<now, meta, store>>
    BY <1>9 DEF get, snapshot, release, finalize, _terminal
  <2>1. rows' \in Table /\ OnlyCloses(rows, rows')
    BY <1>9, ClosingSteps
  <2>2. (\A i \in Ids : rows'[i] # None => rows'[i].envelope = meta') /\ WithinLimits' /\ NoReplay'
    BY <2>0, <2>1, ClosingKeeps
  <2> QED BY <2>0, <2>1, <2>2, FinishKeeps DEF IInv, OneEnvelope
<1>10. ASSUME NEW c \in Callers, Crash(c) PROVE IInv'
  <2>1. TypeOK'
    BY <1>0, <1>10 DEF Crash, Finish, TypeOK, Ops, Time
  <2>2. InOperation' /\ \A d \in Callers : store'[d] # None => store'[d] = meta'
    BY <1>0, <1>10 DEF Crash, Finish, InOperation, OneEnvelope, TypeOK
  <2> QED BY <1>1, <1>10, <2>1, <2>2 DEF Crash, IInv, OneEnvelope
<1> QED BY <1>2, <1>3, <1>4, <1>5, <1>6, <1>7, <1>8, <1>9, <1>10 DEF Next

\* The state of the store is well typed and the limits of the envelope are never
\* exceeded, for every number of callers, requests and clock readings.
THEOREM BudgetSafety == Spec => [](TypeOK /\ OneEnvelope /\ WithinLimits /\ NoReplay)
<1>1. IInv => TypeOK /\ OneEnvelope /\ WithinLimits /\ NoReplay
  BY DEF IInv
<1> QED BY <1>1, InitIInv, NextIInv, PTL DEF Spec

\* No step reopens or rewrites a closed reservation or loses a row: the lemmas
\* above say so of every transaction, and other steps leave the table alone.
THEOREM BudgetDurable == Spec => Durable
<1>1. ASSUME IInv, [Next]_vars PROVE [KeepsClosedRows]_vars
  <2>1. ASSUME OnlyCloses(rows, rows') PROVE KeepsClosedRows
    BY <2>1 DEF OnlyCloses, KeepsClosedRows, HasState, Terminal
  <2>2. ASSUME NEW c \in Callers, reserve_exact(c), rows' # rows PROVE KeepsClosedRows
    <3> DEFINE T == _expire_locked(rows, seen[c])
               r == arg[c]
    <3>1. rows \in Table /\ seen[c] \in Time
      BY <1>1 DEF IInv, TypeOK, Table
    <3>2. T \in Table /\ OnlyCloses(rows, T)
      BY <3>1, ExpireTable DEF OnlyCloses
    <3>3. r.id \in Ids /\ rows' = [T EXCEPT ![r.id] = NewRow(c)] /\ ~Replayed(T, r)
      BY <1>1, <2>2, ReserveStep
    <3> HIDE DEF T, r
    <3>4. \A i \in Ids \ {r.id} : rows'[i] = T[i]
      BY <3>2, <3>3 DEF Table
    <3>5. rows[r.id] = None
      BY <3>2, <3>3 DEF Replayed, OnlyCloses
    <3> QED BY <3>2, <3>4, <3>5 DEF OnlyCloses, KeepsClosedRows, HasState, Terminal
  <2>3. ASSUME NEW c \in Callers, get(c) \/ snapshot(c) \/ release(c) \/ finalize(c)
        PROVE  KeepsClosedRows
    BY <1>1, <2>1, <2>3, ClosingSteps
  <2>4. ASSUME rows' = rows PROVE KeepsClosedRows
    BY <2>1, <2>4 DEF OnlyCloses
  <2> QED BY <1>1, <2>2, <2>3, <2>4
          DEF Next, vars, Tick, Open, StampRequest, StartCall, ReserveClock, Crash
<1> QED BY <1>1, InitIInv, NextIInv, PTL DEF Spec, Durable

\* An effect and an authority_effect_key get one reservation ever, whatever became of
\* it, also from callers that ran concurrently, crashed and retried.
THEOREM BudgetNoReplay == Spec => []NoReplay
  BY BudgetSafety, PTL
==============================================================================
