-------------------------- MODULE FleetEffectBudget --------------------------
(***************************************************************************)
(* FleetEffectBudgetStore (src/cyber_lion/enterprise/fleet_effect_budget.py):*)
(* a durable table of effect reservations shared by every caller of a      *)
(* fleet.  A reservation is RESERVED until it is released, finalized or    *)
(* found to be past its expiry; while RESERVED it occupies a slot of the   *)
(* envelope's writer, repository, branch and path limits.                  *)
(*                                                                         *)
(* Every public operation reads the trusted clock first and only then      *)
(* takes the lock and opens its BEGIN IMMEDIATE transaction, so a caller   *)
(* is modelled by two steps: one that reads `now` into seen[c], and one    *)
(* that runs the transaction with that possibly outdated reading.          *)
(***************************************************************************)
EXTENDS BudgetTable

CONSTANTS
    Callers,    \* threads or processes holding a store object
    MaxTime     \* bound on the trusted clock

ASSUME BudgetAssumption == MaxTime \in Nat

VARIABLES
    now,    \* the trusted clock
    meta,   \* fleet_effect_budget_meta: the one envelope of the database
    rows,   \* fleet_effect_reservation, by reservation_id
    store,  \* the envelope of the store object each caller holds
    op,     \* the operation each caller is inside
    arg,    \* the request (or the reservation_id) that operation is about
    seen    \* requested_at, then the clock reading of that operation

vars == <<now, meta, rows, store, op, arg, seen>>
------------------------------------------------------------------------------
Ops == {"idle", "requested", "reserve", "get", "release", "finalize", "snapshot"}

TypeOK ==
    /\ now \in Time
    /\ meta \in Envelopes \cup {None}
    /\ rows \in [Ids -> Row \cup {None}]
    /\ store \in [Callers -> Envelopes \cup {None}]
    /\ op \in [Callers -> Ops]
    /\ arg \in [Callers -> Requests \cup {None}]
    /\ seen \in [Callers -> Time]

Init ==
    /\ now = 0
    /\ meta = None
    /\ rows = [i \in Ids |-> None]
    /\ store = [c \in Callers |-> None]
    /\ op = [c \in Callers |-> "idle"]
    /\ arg = [c \in Callers |-> None]
    /\ seen = [c \in Callers |-> 0]
------------------------------------------------------------------------------
Idle(c) == op[c] = "idle" /\ store[c] # None

Finish(c) ==
    /\ op' = [op EXCEPT ![c] = "idle"]
    /\ arg' = [arg EXCEPT ![c] = None]
    /\ seen' = [seen EXCEPT ![c] = 0]

\* __init__ and _bind_envelope: the first envelope is recorded, any other is
\* refused and the caller is left without a store.
Open(c, e) ==
    /\ store[c] = None
    /\ meta \in {None, e}
    /\ meta' = e
    /\ store' = [store EXCEPT ![c] = e]
    /\ UNCHANGED <<now, rows, op, arg, seen>>

\* The caller stamps a request with its own reading of the clock
\* (RepositoryMutationPEP._reserve_budget).
StampRequest(c, r) ==
    /\ Idle(c)
    /\ now < r.expires_at
    /\ op' = [op EXCEPT ![c] = "requested"]
    /\ arg' = [arg EXCEPT ![c] = r]
    /\ seen' = [seen EXCEPT ![c] = now]
    /\ UNCHANGED <<now, meta, rows, store>>

\* reserve_exact up to the lock: the clock must not have moved since the stamp.
ReserveClock(c) ==
    /\ op[c] = "requested"
    /\ IF Presentable(store[c], arg[c], now) /\ seen[c] = now
       THEN op' = [op EXCEPT ![c] = "reserve"] /\ UNCHANGED <<arg, seen>>
       ELSE Finish(c)
    /\ UNCHANGED <<now, meta, rows, store>>

NewRow(c) ==
    [req |-> arg[c], envelope |-> store[c], state |-> "RESERVED",
     expires_at |-> arg[c].expires_text, finalized_at |-> None]

\* reserve_exact's transaction.  A denial rolls the expiries back as well.
reserve_exact(c) ==
    /\ op[c] = "reserve"
    /\ LET table == _expire_locked(rows, seen[c]) IN
       IF /\ meta = store[c]
          /\ ~Replayed(table, arg[c])
          /\ SlotsFree(table, store[c], arg[c], seen[c])
       THEN rows' = [table EXCEPT ![arg[c].id] = NewRow(c)]
       ELSE UNCHANGED rows
    /\ Finish(c)
    /\ UNCHANGED <<now, meta, store>>

\* The other operations read the clock and wait for the lock.
StartCall(c, name, r) ==
    /\ Idle(c)
    /\ op' = [op EXCEPT ![c] = name]
    /\ arg' = [arg EXCEPT ![c] = r]
    /\ seen' = [seen EXCEPT ![c] = now]
    /\ UNCHANGED <<now, meta, rows, store>>

\* get: expire, then return the row (or raise when there is none).
\* validate_for_effect is a get whose answer the caller's copy is compared with.
get(c) ==
    /\ op[c] = "get"
    /\ rows' = _expire_locked(rows, seen[c])
    /\ Finish(c)
    /\ UNCHANGED <<now, meta, store>>

\* release and finalize: _terminal closes a row that is RESERVED and unexpired
\* at the clock reading; otherwise everything, expiries included, rolls back.
_terminal(c, name, to) ==
    /\ op[c] = name
    /\ LET table == _expire_locked(rows, seen[c])
           i == arg[c].id IN
       IF i \in Active(table, seen[c])
       THEN rows' = [table EXCEPT ![i] = Close(table[i], to, seen[c])]
       ELSE UNCHANGED rows
    /\ Finish(c)
    /\ UNCHANGED <<now, meta, store>>

release(c) == _terminal(c, "release", "RELEASED")
finalize(c) == _terminal(c, "finalize", "FINALIZED")

\* snapshot: expire, then count; only the expiry changes state.
snapshot(c) ==
    /\ op[c] = "snapshot"
    /\ rows' = _expire_locked(rows, seen[c])
    /\ Finish(c)
    /\ UNCHANGED <<now, meta, store>>

\* The process of c dies: its store object and all it remembered are gone.
Crash(c) ==
    /\ store[c] # None
    /\ store' = [store EXCEPT ![c] = None]
    /\ Finish(c)
    /\ UNCHANGED <<now, meta, rows>>

Tick ==
    /\ now < MaxTime
    /\ now' = now + 1
    /\ UNCHANGED <<meta, rows, store, op, arg, seen>>

Next ==
    \/ Tick
    \/ \E c \in Callers :
        \/ \E e \in Envelopes : Open(c, e)
        \/ \E r \in Requests :
            \/ StampRequest(c, r)
            \/ \E name \in {"get", "release", "finalize"} : StartCall(c, name, r)
        \/ StartCall(c, "snapshot", None)
        \/ ReserveClock(c)
        \/ reserve_exact(c)
        \/ get(c)
        \/ release(c)
        \/ finalize(c)
        \/ snapshot(c)
        \/ Crash(c)

Spec == Init /\ [][Next]_vars
------------------------------------------------------------------------------
(* Properties.                                                             *)

\* The four limits of the envelope hold for every interleaving of clock
\* readings and transactions, even counting rows that are past their expiry
\* but that no transaction has marked EXPIRED yet (reserve_exact counts only
\* rows active at its own, possibly outdated, reading).
WithinLimits == meta # None => Limits(rows, meta)

\* An effect and an authority_effect_key get one reservation ever, whatever
\* became of it: releasing or expiring a reservation does not free its key.
NoReplay ==
    \A i, j \in Ids :
        rows[i] # None /\ rows[j] # None /\ i # j =>
            rows[i].req.effect # rows[j].req.effect /\ rows[i].req.key # rows[j].req.key

\* reserve_exact promises that a "reservation cannot outlive envelope": none is
\* released or finalized at or after the envelope's expiry.
CannotOutliveEnvelope ==
    \A i \in Ids : rows[i] # None /\ rows[i].state \in {"RELEASED", "FINALIZED"} =>
        rows[i].finalized_at < rows[i].envelope.expires_at

\* Every store object and every row of one database belongs to the envelope
\* recorded first (_bind_envelope's "envelope substitution/generation drift
\* denied"), across restarts of every caller.
OneEnvelope ==
    /\ \A c \in Callers : store[c] # None => store[c] = meta
    /\ \A i \in Ids : rows[i] # None => rows[i].envelope = meta

KeepsClosedRows ==
    \A i \in Ids : rows[i] # None =>
        /\ rows'[i] # None
        /\ rows[i].state \in Terminal => rows'[i] = rows[i]
        /\ rows'[i].req = rows[i].req /\ rows'[i].expires_at = rows[i].expires_at

\* The table is append-only and a closed reservation is closed for good: no
\* late release, finalize or expiry changes it again.
Durable == [][KeepsClosedRows]_vars
==============================================================================
