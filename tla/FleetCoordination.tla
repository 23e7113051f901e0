--------------------------- MODULE FleetCoordination ---------------------------
(***************************************************************************)
(* FleetCoordinationStore (src/cyber_lion/enterprise/fleet_coordination_-  *)
(* state.py): missions, their dispatch generations and fencing tokens,     *)
(* branch and path leases, committed plans, and the event chain from which *)
(* a process that opens the store reconstructs what it finds.              *)
(*                                                                         *)
(* Writes are BEGIN IMMEDIATE transactions and atomic.  Opening is not: it *)
(* verifies the chain and the tables with separate reads.  A dispatch is   *)
(* identified (dispatch_id, fencing_token) by what its seed hashes; an     *)
(* event digest stands for the prefix of the chain it closes, so that the  *)
(* head is the number of events.  Paths are sequences of parts, and there  *)
(* is one repository: leases of different repositories never meet.         *)
(***************************************************************************)
EXTENDS Naturals, Sequences, FiniteSets

CONSTANTS
    Specs,           \* [mission, drone, baseline, branch, scope, dependencies]
    Order,           \* the mission ids in the order of ORDER BY mission_id
    Requests,        \* [id, head, max]; head None when the request names no head
    Evidence,
    Processes,
    MaxGeneration, MaxTime,
    None

Missions == {s.mission : s \in Specs}
Terminal == {"DONE", "FAILED", "TERMINATED"}


VARIABLES
    mission,     \* fleet_coordination_mission: by id, a row or None
    leases,      \* fleet_coordination_active_lease
    plans,       \* fleet_coordination_plan: by request id, [request, result] or None
    events, head,
    clock,
    proc,        \* each process: closed, opening or open
    got,         \* the number of events each opening process has read
    accepted     \* dispatches whose terminal report was accepted

tables == <<mission, leases, plans, events, head>>
vars == <<mission, leases, plans, events, head, clock, proc, got, accepted>>

RequestIds == {q.id : q \in Requests}
Dispatches == [mission : Missions, generation : 1..MaxGeneration, request : Requests, time : 0..MaxTime]
Blank == [state |-> "STARTING", generation |-> 0, dispatch |-> None, evidence |-> None, requeue |-> None]
Row(s) == [spec |-> s, state |-> "STARTING", generation |-> 0, dispatch |-> None,
           evidence |-> None, requeue |-> None]
MissionRow == [spec : Specs, state : {"STARTING", "WAITING", "RUNNING"} \cup Terminal,
               generation : 0..MaxGeneration, dispatch : Dispatches \cup {None},
               evidence : Evidence \cup {None}, requeue : Evidence \cup {None}]

ASSUME CoordinationAssumption ==
    /\ MaxGeneration \in Nat /\ MaxTime \in Nat
    /\ Order \in Seq(Missions)
    /\ \A i, j \in DOMAIN Order : Order[i] = Order[j] => i = j
    /\ Missions = {Order[i] : i \in DOMAIN Order}
    /\ \A s \in Specs : s.mission \notin s.dependencies /\ \A a \in s.scope : Len(a) \in Nat
    /\ \A q \in Requests : q.max \in Nat \ {0}
    /\ None \notin MissionRow
    /\ None \notin [request : Requests, result : SUBSET Dispatches]

Registered == {m \in Missions : mission[m] # None}
SpecOf(m) == mission[m].spec
Running == {m \in Registered : mission[m].state = "RUNNING"}

TypeOK ==
    /\ mission \in [Missions -> MissionRow \cup {None}]
    /\ \A l \in leases : l.kind \in {"BRANCH", "PATH"} /\ l.mission \in Registered
                         /\ l.dispatch \in Dispatches
    /\ plans \in [RequestIds -> [request : Requests, result : SUBSET Dispatches] \cup {None}]
    /\ head \in Nat /\ clock \in 0..MaxTime
    /\ proc \in [Processes -> {"closed", "head", "consistency", "open"}]
    /\ got \in [Processes -> Nat]
    /\ accepted \subseteq Dispatches

Init ==
    /\ mission = [m \in Missions |-> None]
    /\ leases = {}
    /\ plans = [r \in RequestIds |-> None]
    /\ events = <<>> /\ head = 0
    /\ clock = 0
    /\ proc = [p \in Processes |-> "closed"]
    /\ got = [p \in Processes |-> 0]
    /\ accepted = {}
-------------------------------------------------------------------------------
(* Helpers of the store.                                                   *)

\* _now: the clock may have been set back, and then nothing is written.
ClockOK == events # <<>> => clock >= events[Len(events)].time

\* _append_event for each of the events of one transaction.
AppendEvents(evs) ==
    /\ events' = events \o evs
    /\ head' = head + Len(evs)
Event(type, m, d, e) == [type |-> type, mission |-> m, dispatch |-> d, evidence |-> e, time |-> clock]

_path_overlap(a, b) ==
    LET n == IF Len(a) < Len(b) THEN Len(a) ELSE Len(b)
    IN  SubSeq(a, 1, n) = SubSeq(b, 1, n)

\* A dependency that is not registered yet is not done either.
_dependencies_done(m) ==
    \A d \in SpecOf(m).dependencies : mission[d] # None /\ mission[d].state = "DONE"

\* Wrong variant: only a mission and its direct dependency are compared.
MutualDependency(g) ==
    \E m, d \in DOMAIN g : d \in g[m] /\ m \in g[d] /\ d # m /\ DOMAIN g = {m, d}

\* The depth-first search finds a cycle iff some missions all depend on each other.
_has_cycle(g) ==
    \E S \in (SUBSET DOMAIN g) \ {{}} : \A m \in S : g[m] \cap S # {}

\* Wrong variant: only equal paths conflict.
ResourcesAvailable(held, s) ==
    \A l \in held : IF l.kind = "BRANCH" THEN l.resource # s.branch ELSE l.resource \notin s.scope

_leases_available(held, s) ==
    /\ \A l \in held : l.kind = "BRANCH" => l.resource # s.branch
    /\ \A l \in held : l.kind = "PATH" => \A a \in s.scope : ~_path_overlap(a, l.resource)

_claim_leases(d, s) ==
    {[kind |-> "BRANCH", resource |-> s.branch, mission |-> s.mission, dispatch |-> d]}
    \cup {[kind |-> "PATH", resource |-> a, mission |-> s.mission, dispatch |-> d] : a \in s.scope}

_release(m, d) == {l \in leases : ~(l.mission = m /\ l.dispatch = d)}
-------------------------------------------------------------------------------
(* Opening the store.  It may be closed, or its process die, at any time.  *)

Tick(t) ==
    /\ clock # t /\ clock' = t
    /\ UNCHANGED <<tables, proc, got, accepted>>

\* verify_event_chain reads the events and then, in another statement, the head.
Open(p) ==
    /\ proc[p] = "closed"
    /\ proc' = [proc EXCEPT ![p] = "head"]
    /\ got' = [got EXCEPT ![p] = Len(events)]
    /\ UNCHANGED <<tables, clock, accepted>>

Opens(p, ok, next) ==
    /\ proc' = [proc EXCEPT ![p] = IF ok THEN next ELSE "closed"]
    /\ got' = [got EXCEPT ![p] = 0]
    /\ UNCHANGED <<tables, clock, accepted>>

\* What one event makes of the missions, and the missions after each of the events.
ReplayEvent(rows, e) ==
    CASE e.type = "MISSION_REGISTERED" -> [rows EXCEPT ![e.mission] = Blank]
      [] e.type = "MISSION_DISPATCHED" -> [rows EXCEPT ![e.mission] =
             [Blank EXCEPT !.state = "RUNNING", !.generation = e.dispatch.generation,
                           !.dispatch = e.dispatch]]
      [] e.type = "MISSION_REQUEUED" -> [rows EXCEPT ![e.mission] =
             [@ EXCEPT !.state = "WAITING", !.evidence = None, !.requeue = e.evidence]]
      [] e.type \in Terminal -> [rows EXCEPT ![e.mission] =
             [@ EXCEPT !.state = e.type, !.evidence = e.evidence, !.requeue = None]]
      [] e.type = "PLAN_COMMITTED" -> rows

Replay(evs) ==
    LET after[i \in 0..Len(evs)] ==
          IF i = 0 THEN [m \in Missions |-> None] ELSE ReplayEvent(after[i-1], evs[i])
    IN  after

Replayed == Replay(events)[Len(events)]

Issued == UNION {plans[r].result : r \in {r \in RequestIds : plans[r] # None}}
LeasesOf(m) == {l \in leases : l.mission = m}

Materialized(row) ==
    IF row = None THEN None
    ELSE [state |-> row.state, generation |-> row.generation, dispatch |-> row.dispatch,
          evidence |-> row.evidence, requeue |-> row.requeue]

_verify_materialized_state_from_events ==
    \A m \in Missions : Replayed[m] = Materialized(mission[m])

_verify_consistency ==
    /\ \A r \in RequestIds : plans[r] # None =>
        \A d \in plans[r].result : d.mission \in Registered /\ d.request = plans[r].request
    /\ _verify_materialized_state_from_events
    /\ \A m \in Registered :
        /\ mission[m].generation > 0 =>
            mission[m].dispatch \in Issued /\ mission[m].dispatch.generation = mission[m].generation
        /\ LeasesOf(m) = IF m \in Running THEN _claim_leases(mission[m].dispatch, SpecOf(m)) ELSE {}

EventsOrdered == \A i \in 1..Len(events) - 1 : events[i].time <= events[i + 1].time
verify_event_chain == head = Len(events) /\ EventsOrdered

OpenHead(p) == proc[p] = "head" /\ Opens(p, head = got[p] /\ EventsOrdered, "consistency")
\* The statements of _verify_consistency are taken together.
OpenConsistency(p) == proc[p] = "consistency" /\ Opens(p, _verify_consistency, "open")

Close(p) ==
    /\ proc[p] = "open"
    /\ proc' = [proc EXCEPT ![p] = "closed"]
    /\ UNCHANGED <<tables, clock, got, accepted>>
-------------------------------------------------------------------------------
(* The four operations, each in an open process and one transaction.       *)

register_mission(p, s) ==
    /\ proc[p] = "open" /\ ClockOK
    /\ mission[s.mission] = None
    /\ \A m \in Registered : SpecOf(m).drone # s.drone
    /\ ~_has_cycle([m \in Registered \cup {s.mission} |->
                        IF m = s.mission THEN s.dependencies ELSE SpecOf(m).dependencies])
    /\ mission' = [mission EXCEPT ![s.mission] = Row(s)]
    /\ AppendEvents(<<Event("MISSION_REGISTERED", s.mission, None, None)>>)
    /\ UNCHANGED <<leases, plans, clock, proc, got, accepted>>

Pending(m) == m \in Registered /\ mission[m].state \in {"STARTING", "WAITING"}

\* The dispatch of a mission in a plan, and the scan of plan() over the missions.
DispatchOf(m, q) ==
    [mission |-> m, generation |-> mission[m].generation + 1, request |-> q, time |-> clock]
ClaimsOf(ms, q) ==
    leases \cup UNION {_claim_leases(DispatchOf(ms[i], q), SpecOf(ms[i])) : i \in DOMAIN ms}

\* The mission is dispatched too if the plan has room and the leases are free.
ScanMission(ms, m, q) ==
    IF /\ Len(ms) < q.max /\ Pending(m) /\ _dependencies_done(m)
       /\ _leases_available(ClaimsOf(ms, q), SpecOf(m))
    THEN Append(ms, m) ELSE ms

Scan(q) ==
    LET chosen[i \in 0..Len(Order)] ==
          IF i = 0 THEN <<>> ELSE ScanMission(chosen[i-1], Order[i], q)
    IN  chosen

\* The scan raises at the first mission it considers whose baseline is not the
\* head, and nothing of the plan is kept.
StaleBaseline(q) ==
    \E i \in DOMAIN Order :
        /\ Len(Scan(q)[i-1]) < q.max /\ Pending(Order[i]) /\ _dependencies_done(Order[i])
        /\ q.head # SpecOf(Order[i]).baseline

\* Wrong variant: a dispatch leaves the evidence of the last requeue in its row.
DispatchKeepingRequeue(row, d) ==
    [row EXCEPT !.state = "RUNNING", !.generation = d.generation, !.dispatch = d, !.evidence = None]

Dispatched(row, d) ==
    [row EXCEPT !.state = "RUNNING", !.generation = d.generation, !.dispatch = d,
                !.evidence = None, !.requeue = None]

plan(p, q) ==
    /\ proc[p] = "open" /\ plans[q.id] = None /\ ClockOK
    /\ ~StaleBaseline(q)
    /\ LET ms == Scan(q)[Len(Order)]
           chosen == {ms[i] : i \in DOMAIN ms}
       IN  /\ \A m \in chosen : mission[m].generation < MaxGeneration
           /\ leases' = ClaimsOf(ms, q)
           /\ mission' = [m \in Missions |-> IF m \in chosen THEN Dispatched(mission[m], DispatchOf(m, q))
                                             ELSE mission[m]]
           /\ plans' = [plans EXCEPT ![q.id] = [request |-> q, result |-> {DispatchOf(m, q) : m \in chosen}]]
           /\ AppendEvents([i \in DOMAIN ms |-> Event("MISSION_DISPATCHED", ms[i], DispatchOf(ms[i], q), None)]
                           \o <<Event("PLAN_COMMITTED", None, None, None)>>)
    /\ UNCHANGED <<clock, proc, got, accepted>>

\* A drone speaks with the dispatch it was handed, by a plan or by its replay.
_require_active(d) == mission[d.mission].state = "RUNNING" /\ mission[d.mission].dispatch = d

\* Wrong variant: a mission that has ended may be queued again.
RequeueEnded(p, d, e) ==
    /\ proc[p] = "open" /\ ClockOK
    /\ mission[d.mission].dispatch = d /\ mission[d.mission].state # "WAITING"
    /\ leases' = _release(d.mission, d)
    /\ mission' = [mission EXCEPT ![d.mission] =
                        [@ EXCEPT !.state = "WAITING", !.evidence = None, !.requeue = e]]
    /\ AppendEvents(<<Event("MISSION_REQUEUED", d.mission, d, e)>>)
    /\ UNCHANGED <<plans, clock, proc, got, accepted>>

requeue(p, d, e) ==
    /\ proc[p] = "open" /\ ClockOK
    /\ _require_active(d)
    /\ leases' = _release(d.mission, d)
    /\ mission' = [mission EXCEPT ![d.mission] =
                        [@ EXCEPT !.state = "WAITING", !.evidence = None, !.requeue = e]]
    /\ AppendEvents(<<Event("MISSION_REQUEUED", d.mission, d, e)>>)
    /\ UNCHANGED <<plans, clock, proc, got, accepted>>

record_terminal(p, d, t, e) ==
    /\ proc[p] = "open" /\ ClockOK
    /\ _require_active(d)
    /\ leases' = _release(d.mission, d)
    /\ mission' = [mission EXCEPT ![d.mission] =
                        [@ EXCEPT !.state = t, !.evidence = e, !.requeue = None]]
    /\ AppendEvents(<<Event(t, d.mission, d, e)>>)
    /\ accepted' = accepted \cup {d}
    /\ UNCHANGED <<plans, clock, proc, got>>
-------------------------------------------------------------------------------
Next ==
    \/ \E t \in 0..MaxTime : Tick(t)
    \/ \E p \in Processes :
        \/ Open(p) \/ OpenHead(p) \/ OpenConsistency(p) \/ Close(p)
        \/ \E s \in Specs : register_mission(p, s)
        \/ \E q \in Requests : plan(p, q)
        \/ \E d \in Issued, e \in Evidence :
            \/ requeue(p, d, e)
            \/ \E t \in Terminal : record_terminal(p, d, t, e)

Spec == Init /\ [][Next]_vars
-------------------------------------------------------------------------------
(* Properties.                                                             *)

\* Two running missions never write to the same branch or to overlapping paths,
\* across plans, requeues, late reports and restarts.
NoSharedWrites ==
    \A m, n \in Running : m # n =>
        /\ SpecOf(m).branch # SpecOf(n).branch
        /\ \A a \in SpecOf(m).scope, b \in SpecOf(n).scope : ~_path_overlap(a, b)

\* "requeue fences stale generation": the terminal report that is accepted, one per
\* mission, is that of the latest dispatch ever issued, although a replayed plan hands
\* out earlier ones again.
LatestDispatchReports ==
    \A d \in accepted : \A c \in Issued : c.mission = d.mission => c.generation <= d.generation
                                                                  /\ (c # d => c \notin accepted)

\* Whatever was committed can be opened again: chain, events, plans, missions and
\* leases agree in every state, so that a restart never refuses the store's own work.
RestartAccepts == verify_event_chain /\ _verify_consistency

\* Missions never wait for each other: when nothing runs, no dependency is missing
\* and none has failed, some pending mission is ready.
SomeMissionIsReady ==
    LET pending == {m \in Missions : Pending(m)} IN
    /\ pending # {} /\ Running = {}
    /\ \A m \in pending : \A d \in SpecOf(m).dependencies :
            d \in Registered /\ mission[d].state \notin {"FAILED", "TERMINATED"}
    => \E m \in pending : _dependencies_done(m)
===============================================================================
