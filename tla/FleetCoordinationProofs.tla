----------------------- MODULE FleetCoordinationProofs -----------------------
(***************************************************************************)
(* Proofs about FleetCoordination, for every set of missions, requests and *)
(* processes and every length of the event chain.                          *)
(*                                                                         *)
(* The scan of plan() and the replay of the events are recursive           *)
(* functions.  SetInduction (every set of naturals that holds 0 and the    *)
(* successors of its members holds them all, from the well-foundedness of  *)
(* < ) shows that they satisfy their equations and then, by induction on   *)
(* the position, what they compute: ScanPicks says that the missions of a  *)
(* plan are pending, distinct, and apart from each other and from all that *)
(* run; ReplayPrefix, ReplayOne and ReplayMany say what appended events do *)
(* to the replayed rows.  CoordinationInv ties the tables together: the    *)
(* leases are exactly the running missions', the dispatches that plans     *)
(* issued are never later than the rows', an accepted report has ended its *)
(* mission, the replayed chain is the mission table, and the dependencies  *)
(* of the registered missions have no cycle.                               *)
(***************************************************************************)
EXTENDS FleetCoordination, WellFoundedInduction, TLAPS

(* Induction on the naturals, for a set.                                   *)

Less == {p \in Nat \X Nat : p[1] < p[2]}

LEMMA LessIsWellFounded == IsWellFoundedOn(Less, Nat)
  <1>1. Less = OpToRel(<, Nat)
    BY Zenon DEF OpToRel, Less
  <1> QED BY <1>1, NatLessThanWellFounded, Zenon

\* The least number that is not in P has a predecessor that is.
LEMMA SetInduction ==
  ASSUME NEW P, 0 \in P, \A n \in Nat : n \in P => n + 1 \in P
  PROVE  Nat \subseteq P
  <1> SUFFICES ASSUME Nat \ P # {} PROVE FALSE
    OBVIOUS
  <1>1. PICK x \in Nat \ P : \A y \in Nat \ P : <<y, x>> \notin Less
    BY LessIsWellFounded, WFMin
  <1>2. x - 1 \in Nat /\ x - 1 \notin P
    BY <1>1
  <1>3. <<x - 1, x>> \in Less
    BY <1>2 DEF Less
  <1> QED BY <1>1, <1>2, <1>3

\* The recursive functions of the module are what their equations say.
LEMMA ReplayDef ==
  ASSUME NEW evs, Len(evs) \in Nat
  PROVE  Replay(evs) = [i \in 0..Len(evs) |-> IF i = 0 THEN [m \in Missions |-> None]
                                               ELSE ReplayEvent(Replay(evs)[i-1], evs[i])]
  <1> DEFINE P == {k \in Nat : \E g : g = [i \in 0..k |-> IF i = 0 THEN [m \in Missions |-> None]
                                                        ELSE ReplayEvent(g[i-1], evs[i])]}
  <1>1. 0 \in P
    <2> DEFINE h == [i \in 0..0 |-> [m \in Missions |-> None]]
    <2>1. h = [i \in 0..0 |-> IF i = 0 THEN [m \in Missions |-> None] ELSE ReplayEvent(h[i-1], evs[i])]
      OBVIOUS
    <2> HIDE DEF h
    <2> QED BY <2>1
  <1>2. ASSUME NEW k \in Nat, k \in P PROVE k + 1 \in P
    <2>1. PICK g : g = [i \in 0..k |-> IF i = 0 THEN [m \in Missions |-> None]
                                       ELSE ReplayEvent(g[i-1], evs[i])]
      BY <1>2
    <2> DEFINE h == [i \in 0..k+1 |-> IF i = k+1 THEN ReplayEvent(g[k], evs[k+1]) ELSE g[i]]
    <2>2. ASSUME NEW i \in 0..k+1
          PROVE  h[i] = IF i = 0 THEN [m \in Missions |-> None] ELSE ReplayEvent(h[i-1], evs[i])
      <3>1. CASE i = 0
        BY <2>1, <3>1
      <3>2. CASE i \in 1..k
        <4>1. i \in 0..k /\ i - 1 \in 0..k+1 /\ i # k+1 /\ i - 1 # k + 1 /\ i # 0
          BY <3>2
        <4>2. h[i] = g[i] /\ h[i-1] = g[i-1]
          BY <4>1
        <4> HIDE DEF h
        <4> QED BY <2>1, <4>1, <4>2
      <3>3. CASE i = k + 1
        BY <3>3
      <3> QED BY <3>1, <3>2, <3>3
    <2>3. h = [i \in 0..k+1 |-> IF i = 0 THEN [m \in Missions |-> None]
                                ELSE ReplayEvent(h[i-1], evs[i])]
      BY <2>2
    <2> HIDE DEF h
    <2> QED BY <2>3
  <1>3. Nat \subseteq P
    <2> HIDE DEF P
    <2> QED BY <1>1, <1>2, SetInduction
  <1>4. PICK g : g = [i \in 0..Len(evs) |-> IF i = 0 THEN [m \in Missions |-> None]
                                            ELSE ReplayEvent(g[i-1], evs[i])]
    BY <1>3
  <1> QED BY <1>4, Zenon DEF Replay

LEMMA ScanDef ==
  ASSUME NEW q
  PROVE  Scan(q) = [i \in 0..Len(Order) |-> IF i = 0 THEN <<>>
                                            ELSE ScanMission(Scan(q)[i-1], Order[i], q)]
  <1> DEFINE P == {k \in Nat : \E g : g = [i \in 0..k |-> IF i = 0 THEN <<>>
                                                          ELSE ScanMission(g[i-1], Order[i], q)]}
  <1>1. 0 \in P
    <2> DEFINE h == [i \in 0..0 |-> <<>>]
    <2>1. h = [i \in 0..0 |-> IF i = 0 THEN <<>> ELSE ScanMission(h[i-1], Order[i], q)]
      OBVIOUS
    <2> HIDE DEF h
    <2> QED BY <2>1
  <1>2. ASSUME NEW k \in Nat, k \in P PROVE k + 1 \in P
    <2>1. PICK g : g = [i \in 0..k |-> IF i = 0 THEN <<>> ELSE ScanMission(g[i-1], Order[i], q)]
      BY <1>2
    <2> DEFINE h == [i \in 0..k+1 |-> IF i = k+1 THEN ScanMission(g[k], Order[k+1], q) ELSE g[i]]
    <2>2. ASSUME NEW i \in 0..k+1
          PROVE  h[i] = IF i = 0 THEN <<>> ELSE ScanMission(h[i-1], Order[i], q)
      <3>1. CASE i = 0
        BY <2>1, <3>1
      <3>2. CASE i \in 1..k
        <4>1. i \in 0..k /\ i - 1 \in 0..k+1 /\ i # k+1 /\ i - 1 # k + 1 /\ i # 0
          BY <3>2
        <4>2. h[i] = g[i] /\ h[i-1] = g[i-1]
          BY <4>1
        <4> HIDE DEF h
        <4> QED BY <2>1, <4>1, <4>2
      <3>3. CASE i = k + 1
        BY <3>3
      <3> QED BY <3>1, <3>2, <3>3
    <2>3. h = [i \in 0..k+1 |-> IF i = 0 THEN <<>> ELSE ScanMission(h[i-1], Order[i], q)]
      BY <2>2
    <2> HIDE DEF h
    <2> QED BY <2>3
  <1>3. Nat \subseteq P
    <2> HIDE DEF P
    <2> QED BY <1>1, <1>2, SetInduction
  <1>4. PICK g : g = [i \in 0..Len(Order) |-> IF i = 0 THEN <<>>
                                              ELSE ScanMission(g[i-1], Order[i], q)]
    <2>1. Len(Order) \in Nat
      BY CoordinationAssumption
    <2> QED BY <1>3, <2>1
  <1> QED BY <1>4, Zenon DEF Scan
------------------------------------------------------------------------------
(* The inductive invariant.                                                *)

EventRows == [type : {"MISSION_REGISTERED", "MISSION_DISPATCHED", "MISSION_REQUEUED", "PLAN_COMMITTED"}
                     \cup Terminal,
              mission : Missions \cup {None}, dispatch : Dispatches \cup {None},
              evidence : Evidence \cup {None}, time : 0..MaxTime]

Typed ==
    /\ TypeOK
    /\ events \in Seq(EventRows)
    /\ \A m \in Registered : SpecOf(m).mission = m

Apart(S) ==
    \A m, n \in S : m # n =>
        /\ SpecOf(m).branch # SpecOf(n).branch
        /\ \A a \in SpecOf(m).scope, b \in SpecOf(n).scope : ~_path_overlap(a, b)

\* The leases are those of the running missions' dispatches, no more and no less.
Leased == leases = UNION {_claim_leases(mission[m].dispatch, SpecOf(m)) : m \in Running}

\* A plan's dispatches are of registered missions, and of no later generation than
\* the mission's own; the dispatch in a row was issued.
Planned ==
    /\ \A r \in RequestIds : plans[r] # None => \A d \in plans[r].result :
          /\ d.mission \in Registered /\ d.request = plans[r].request
          /\ d.generation <= mission[d.mission].generation
    /\ \A m \in Registered :
          /\ mission[m].generation > 0 => /\ mission[m].dispatch \in Issued
                                          /\ mission[m].dispatch.generation = mission[m].generation
          /\ mission[m].state = "RUNNING" => mission[m].generation > 0

\* An accepted report has ended its mission for good.
Ended ==
    \A d \in accepted :
        /\ d.mission \in Registered
        /\ mission[d.mission].state \in Terminal
        /\ mission[d.mission].dispatch = d
        /\ mission[d.mission].generation = d.generation

Graph == [m \in Registered |-> SpecOf(m).dependencies]

View == [m \in Missions |-> Materialized(mission[m])]

CoordinationInv ==
    /\ Typed /\ Leased /\ NoSharedWrites /\ Planned /\ Ended
    /\ verify_event_chain /\ Replayed = View
    /\ ~_has_cycle(Graph)
------------------------------------------------------------------------------
LEMMA Bounds ==
    /\ MaxGeneration \in Nat /\ MaxTime \in Nat /\ Len(Order) \in Nat
    /\ Order \in Seq(Missions) /\ DOMAIN Order = 1..Len(Order)
  BY CoordinationAssumption

LEMMA RowRecord ==
  ASSUME NEW r \in MissionRow
  PROVE  /\ r # None /\ r.spec \in Specs
         /\ r.state \in {"STARTING", "WAITING", "RUNNING"} \cup Terminal
         /\ r.generation \in 0..MaxGeneration /\ r.generation \in Nat
         /\ r.dispatch \in Dispatches \cup {None}
         /\ r.evidence \in Evidence \cup {None} /\ r.requeue \in Evidence \cup {None}
  <1>1. r # None
    BY CoordinationAssumption
  <1>2. r.generation \in Nat
    BY Bounds DEF MissionRow
  <1> QED BY <1>1, <1>2 DEF MissionRow

LEMMA RegisteredRow ==
  ASSUME TypeOK, NEW m \in Registered
  PROVE  m \in Missions /\ mission[m] \in MissionRow /\ SpecOf(m) \in Specs
  BY RowRecord DEF TypeOK, Registered, SpecOf

LEMMA OverlapSymmetric ==
  ASSUME NEW a, NEW b, Len(a) \in Nat, Len(b) \in Nat, _path_overlap(a, b)
  PROVE  _path_overlap(b, a)
  <1>1. CASE Len(a) < Len(b)
    BY <1>1 DEF _path_overlap
  <1>2. CASE Len(b) < Len(a)
    BY <1>2 DEF _path_overlap
  <1>3. CASE Len(a) = Len(b)
    BY <1>3 DEF _path_overlap
  <1> QED BY <1>1, <1>2, <1>3
------------------------------------------------------------------------------
(* The scan of a plan.                                                     *)

Picked(ms) == {ms[i] : i \in DOMAIN ms}

\* A mission whose leases are available is apart from all that hold leases already.
LEMMA AvailableApart ==
  ASSUME Typed, Leased, NEW ms, NEW q, NEW m \in Registered,
         \A i \in DOMAIN ms : ms[i] \in Registered,
         _leases_available(ClaimsOf(ms, q), SpecOf(m)),
         NEW n \in Running \cup Picked(ms)
  PROVE  /\ SpecOf(m).branch # SpecOf(n).branch
         /\ \A a \in SpecOf(m).scope, b \in SpecOf(n).scope :
               ~_path_overlap(a, b) /\ ~_path_overlap(b, a)
  <1>1. PICK d : _claim_leases(d, SpecOf(n)) \subseteq ClaimsOf(ms, q)
    <2>1. CASE n \in Running
      BY <2>1 DEF Leased, ClaimsOf
    <2>2. CASE n \in Picked(ms)
      BY <2>2 DEF Picked, ClaimsOf
    <2> QED BY <2>1, <2>2
  <1>2. n \in Registered
    BY DEF Running, Picked
  <1>3. SpecOf(m) \in Specs /\ SpecOf(n) \in Specs
    BY <1>2, RegisteredRow DEF Typed
  <1>4. SpecOf(m).branch # SpecOf(n).branch
    <2> DEFINE l == [kind |-> "BRANCH", resource |-> SpecOf(n).branch, mission |-> SpecOf(n).mission,
                     dispatch |-> d]
    <2>1. l \in ClaimsOf(ms, q)
      BY <1>1 DEF _claim_leases
    <2>2. l.kind = "BRANCH" /\ l.resource = SpecOf(n).branch
      OBVIOUS
    <2> HIDE DEF l
    <2> QED BY <2>1, <2>2 DEF _leases_available
  <1>5. ASSUME NEW a \in SpecOf(m).scope, NEW b \in SpecOf(n).scope
        PROVE  ~_path_overlap(a, b) /\ ~_path_overlap(b, a)
    <2> DEFINE l == [kind |-> "PATH", resource |-> b, mission |-> SpecOf(n).mission, dispatch |-> d]
    <2>1. l \in ClaimsOf(ms, q)
      BY <1>1 DEF _claim_leases
    <2>2. l.kind = "PATH" /\ l.resource = b
      OBVIOUS
    <2>3. ~_path_overlap(a, b)
      <3> HIDE DEF l
      <3> QED BY <2>1, <2>2 DEF _leases_available
    <2>4. Len(a) \in Nat /\ Len(b) \in Nat
      BY <1>3, CoordinationAssumption
    <2> QED BY <2>3, <2>4, OverlapSymmetric
  <1> QED BY <1>4, <1>5

\* What the scan has picked among the first k missions.
ScanOK(ms, k) ==
    /\ ms \in Seq(Missions)
    /\ \A j \in DOMAIN ms : Pending(ms[j]) /\ \E i \in 1..k : ms[j] = Order[i]
    /\ \A i, j \in DOMAIN ms : ms[i] = ms[j] => i = j
    /\ Apart(Running \cup Picked(ms))

LEMMA ScanStep ==
  ASSUME Typed, Leased, NEW q, NEW k \in Nat, k + 1 \in 1..Len(Order), NEW ms, ScanOK(ms, k)
  PROVE  ScanOK(ScanMission(ms, Order[k + 1], q), k + 1)
  <1>0. PICK m \in Missions : m = Order[k + 1]
    BY Bounds
  <1>1. CASE ScanMission(ms, m, q) = ms
    BY <1>0, <1>1 DEF ScanOK
  <1>2. CASE ScanMission(ms, m, q) = Append(ms, m) /\ Pending(m)
             /\ _leases_available(ClaimsOf(ms, q), SpecOf(m))
    <2> DEFINE t == Append(ms, m)
    <2>0. ms \in Seq(Missions) /\ m \in Registered
      BY <1>2 DEF ScanOK, Pending
    <2>1. /\ t \in Seq(Missions) /\ Len(t) = Len(ms) + 1 /\ t[Len(ms) + 1] = m
          /\ \A i \in 1..Len(ms) : t[i] = ms[i]
          /\ DOMAIN t = 1..Len(ms) + 1 /\ DOMAIN ms = 1..Len(ms) /\ Len(ms) \in Nat
      BY <2>0
    <2> HIDE DEF t
    <2>2. ASSUME NEW i \in DOMAIN t PROVE i \in DOMAIN ms \/ i = Len(ms) + 1
      BY <2>1
    <2>3. \A j \in DOMAIN t : Pending(t[j]) /\ \E i \in 1..k + 1 : t[j] = Order[i]
      <3>1. ASSUME NEW j \in DOMAIN ms PROVE Pending(t[j]) /\ \E i \in 1..k + 1 : t[j] = Order[i]
        <4>1. t[j] = ms[j]
          BY <2>1
        <4>2. PICK i \in 1..k : ms[j] = Order[i]
          BY DEF ScanOK
        <4>3. i \in 1..k + 1
          OBVIOUS
        <4> QED BY <4>1, <4>2, <4>3 DEF ScanOK
      <3>2. Pending(t[Len(ms) + 1]) /\ \E i \in 1..k + 1 : t[Len(ms) + 1] = Order[i]
        BY <1>0, <1>2, <2>1
      <3> QED BY <2>2, <3>1, <3>2
    <2>4. \A j \in DOMAIN ms : ms[j] # m
      <3> SUFFICES ASSUME NEW j \in DOMAIN ms, ms[j] = m PROVE FALSE
        OBVIOUS
      <3>1. PICK i \in 1..k : Order[i] = m
        BY DEF ScanOK
      <3>2. i \in DOMAIN Order /\ k + 1 \in DOMAIN Order /\ i # k + 1
        BY Bounds
      <3> QED BY <1>0, <3>1, <3>2, CoordinationAssumption
    <2>5. \A i, j \in DOMAIN t : t[i] = t[j] => i = j
      <3>1. \A i, j \in DOMAIN ms : ms[i] = ms[j] => i = j
        BY DEF ScanOK
      <3> QED BY <2>1, <2>2, <2>4, <3>1
    <2>6. Picked(t) = Picked(ms) \cup {m}
      BY <2>1, <2>2 DEF Picked
    <2>7. Apart(Running \cup Picked(t))
      <3>1. \A i \in DOMAIN ms : ms[i] \in Registered
        BY DEF ScanOK, Pending
      <3>2. \A n \in Running \cup Picked(ms) :
              /\ SpecOf(m).branch # SpecOf(n).branch
              /\ \A a \in SpecOf(m).scope, b \in SpecOf(n).scope :
                    ~_path_overlap(a, b) /\ ~_path_overlap(b, a)
        BY <1>2, <2>0, <3>1, AvailableApart
      <3>3. Apart(Running \cup Picked(ms))
        BY DEF ScanOK
      <3> QED BY <2>6, <3>2, <3>3 DEF Apart
    <2>8. ScanOK(t, k + 1)
      BY <2>1, <2>3, <2>5, <2>7 DEF ScanOK
    <2> QED BY <1>0, <1>2, <2>8 DEF t
  <1> QED BY <1>0, <1>1, <1>2 DEF ScanMission

LEMMA ScanPicks ==
  ASSUME Typed, Leased, NoSharedWrites, NEW q
  PROVE  ScanOK(Scan(q)[Len(Order)], Len(Order))
  <1> DEFINE P == {k \in Nat : k <= Len(Order) => ScanOK(Scan(q)[k], k)}
  <1>1. 0 \in P
    <2>1. Scan(q)[0] = <<>>
      BY ScanDef, Bounds
    <2>2. ScanOK(<<>>, 0)
      BY DEF ScanOK, Apart, Picked, NoSharedWrites
    <2> QED BY <2>1, <2>2
  <1>2. ASSUME NEW k \in Nat, k \in P PROVE k + 1 \in P
    <2> SUFFICES ASSUME k + 1 <= Len(Order) PROVE ScanOK(Scan(q)[k + 1], k + 1)
      OBVIOUS
    <2>1. Scan(q)[k + 1] = ScanMission(Scan(q)[k], Order[k + 1], q)
      <3>1. k + 1 \in 0..Len(Order) /\ k + 1 # 0 /\ (k + 1) - 1 = k
        BY Bounds
      <3> QED BY <3>1, ScanDef
    <2>2. ScanOK(Scan(q)[k], k)
      BY <1>2, Bounds
    <2>3. k + 1 \in 1..Len(Order)
      BY Bounds
    <2> QED BY <2>1, <2>2, <2>3, ScanStep
  <1>3. Nat \subseteq P
    <2> HIDE DEF P
    <2> QED BY <1>1, <1>2, SetInduction
  <1> QED BY <1>3, Bounds
------------------------------------------------------------------------------
(* The replay of the events.                                               *)

LEMMA ReplayAt ==
  ASSUME NEW S, NEW evs \in Seq(S)
  PROVE  /\ Replay(evs)[0] = [m \in Missions |-> None]
         /\ \A i \in 1..Len(evs) : Replay(evs)[i] = ReplayEvent(Replay(evs)[i-1], evs[i])
  <1>1. Len(evs) \in Nat
    OBVIOUS
  <1>2. 0 \in 0..Len(evs) /\ \A i \in 1..Len(evs) : i \in 0..Len(evs) /\ i # 0
    BY <1>1
  <1> QED BY <1>1, <1>2, ReplayDef

LEMMA AppendAt ==
  ASSUME NEW S, NEW evs \in Seq(S), NEW more \in Seq(S)
  PROVE  /\ evs \o more \in Seq(S) /\ Len(evs \o more) = Len(evs) + Len(more)
         /\ Len(evs) \in Nat /\ Len(more) \in Nat
         /\ \A i \in 1..Len(evs) : (evs \o more)[i] = evs[i]
         /\ \A i \in 1..Len(more) : (evs \o more)[Len(evs) + i] = more[i]
  OBVIOUS

\* Appending events does not change what the earlier ones tell.
LEMMA ReplayPrefix ==
  ASSUME NEW S, NEW evs \in Seq(S), NEW more \in Seq(S)
  PROVE  Replay(evs \o more)[Len(evs)] = Replay(evs)[Len(evs)]
  <1> DEFINE all == evs \o more
             P == {k \in Nat : k <= Len(evs) => Replay(all)[k] = Replay(evs)[k]}
  <1>0. /\ all \in Seq(S) /\ Len(all) = Len(evs) + Len(more) /\ Len(evs) \in Nat /\ Len(more) \in Nat
        /\ \A i \in 1..Len(evs) : all[i] = evs[i]
    BY AppendAt
  <1> HIDE DEF all
  <1>1. 0 \in P
    BY <1>0, ReplayAt
  <1>2. ASSUME NEW k \in Nat, k \in P PROVE k + 1 \in P
    <2> SUFFICES ASSUME k + 1 <= Len(evs) PROVE Replay(all)[k + 1] = Replay(evs)[k + 1]
      OBVIOUS
    <2>1. k + 1 \in 1..Len(evs) /\ k + 1 \in 1..Len(all) /\ (k + 1) - 1 = k /\ k <= Len(evs)
      BY <1>0
    <2>2. Replay(all)[k + 1] = ReplayEvent(Replay(all)[k], all[k + 1])
      BY <1>0, <2>1, ReplayAt
    <2>3. Replay(evs)[k + 1] = ReplayEvent(Replay(evs)[k], evs[k + 1])
      BY <1>0, <2>1, ReplayAt
    <2> QED BY <1>0, <1>2, <2>1, <2>2, <2>3
  <1>3. Nat \subseteq P
    <2> HIDE DEF P
    <2> QED BY <1>1, <1>2, SetInduction
  <1> QED BY <1>0, <1>3 DEF all

LEMMA ReplayOne ==
  ASSUME NEW S, NEW evs \in Seq(S), NEW e \in S
  PROVE  Replay(evs \o <<e>>)[Len(evs) + 1] = ReplayEvent(Replay(evs)[Len(evs)], e)
  <1> DEFINE more == <<e>>
             all == evs \o more
  <1>0. more \in Seq(S) /\ Len(more) = 1 /\ more[1] = e
    OBVIOUS
  <1> HIDE DEF more
  <1>1. /\ all \in Seq(S) /\ Len(all) = Len(evs) + 1 /\ Len(evs) \in Nat
        /\ all[Len(evs) + 1] = e
    <2>0. more \in Seq(S)
      BY <1>0
    <2>1. /\ all \in Seq(S) /\ Len(all) = Len(evs) + Len(more) /\ Len(evs) \in Nat
          /\ \A i \in 1..Len(more) : all[Len(evs) + i] = more[i]
      BY ONLY <2>0, evs \in Seq(S)
    <2>2. 1 \in 1..Len(more)
      BY <1>0
    <2> HIDE DEF all
    <2> QED BY <1>0, <2>1, <2>2
  <1>2. Replay(all)[Len(evs)] = Replay(evs)[Len(evs)]
    BY <1>0, ReplayPrefix
  <1> HIDE DEF all
  <1>3. Len(evs) + 1 \in 1..Len(all) /\ (Len(evs) + 1) - 1 = Len(evs)
    BY <1>1
  <1>4. Replay(all)[Len(evs) + 1] = ReplayEvent(Replay(all)[Len(evs)], all[Len(evs) + 1])
    BY <1>1, <1>3, ReplayAt
  <1> QED BY <1>1, <1>2, <1>4 DEF all, more

\* The events of a plan set the rows of its missions ms, and only these, to the new ones.
SetsRows(ds, last, rows, new, ms) ==
    /\ \A j \in 1..Len(ds) : ms[j] \in Missions
    /\ \A j \in 1..Len(ds) : \A x : ReplayEvent(x, ds[j]) = [x EXCEPT ![ms[j]] = new[ms[j]]]
    /\ \A x : ReplayEvent(x, last) = x
    /\ \A m \in Missions : (\A j \in 1..Len(ds) : ms[j] # m) => new[m] = rows[m]

LEMMA ReplayMany ==
  ASSUME NEW S, NEW evs \in Seq(S), NEW ds \in Seq(S), NEW last \in S, NEW ms,
         NEW R, NEW rows \in [Missions -> R], NEW new \in [Missions -> R],
         Replay(evs)[Len(evs)] = rows, SetsRows(ds, last, rows, new, ms)
  PROVE  Replay(evs \o (ds \o <<last>>))[Len(evs) + Len(ds) + 1] = new
  <1> DEFINE more == ds \o <<last>>
             all == evs \o more
             After(k) == [m \in Missions |-> IF \E j \in 1..k : ms[j] = m THEN new[m] ELSE rows[m]]
             P == {k \in Nat : k <= Len(ds) => Replay(all)[Len(evs) + k] = After(k)}
  <1>0. /\ more \in Seq(S) /\ Len(more) = Len(ds) + 1 /\ Len(ds) \in Nat
        /\ (\A i \in 1..Len(ds) : more[i] = ds[i]) /\ more[Len(ds) + 1] = last
    <2> DEFINE one == <<last>>
    <2>1. one \in Seq(S) /\ Len(one) = 1 /\ one[1] = last
      OBVIOUS
    <2> HIDE DEF one
    <2>2. 1 \in 1..Len(one)
      BY <2>1
    <2> DEFINE both == ds \o one
    <2>0. one \in Seq(S)
      BY <2>1
    <2>3. both \in Seq(S) /\ Len(both) = Len(ds) + Len(one) /\ Len(ds) \in Nat
          /\ (\A i \in 1..Len(ds) : both[i] = ds[i])
          /\ (\A i \in 1..Len(one) : both[Len(ds) + i] = one[i])
      BY ONLY <2>0, ds \in Seq(S)
    <2> HIDE DEF both
    <2>4. Len(both) = Len(ds) + 1 /\ both[Len(ds) + 1] = last
      BY <2>1, <2>2, <2>3
    <2> QED BY <2>3, <2>4 DEF one, both
  <1> HIDE DEF more
  <1>1. /\ all \in Seq(S) /\ Len(all) = Len(evs) + Len(ds) + 1 /\ Len(evs) \in Nat
        /\ \A i \in 1..Len(more) : all[Len(evs) + i] = more[i]
    <2>0. more \in Seq(S)
      BY <1>0
    <2>1. /\ all \in Seq(S) /\ Len(all) = Len(evs) + Len(more) /\ Len(evs) \in Nat
          /\ \A i \in 1..Len(more) : all[Len(evs) + i] = more[i]
      BY <2>0, AppendAt
    <2> HIDE DEF all
    <2> QED BY <1>0, <2>1
  <1>2. Replay(all)[Len(evs)] = rows
    BY <1>0, ReplayPrefix
  <1> HIDE DEF all
  <1>3. ASSUME NEW k \in 1..Len(ds) + 1
        PROVE  Replay(all)[Len(evs) + k] = ReplayEvent(Replay(all)[Len(evs) + (k - 1)], more[k])
    <2>1. Len(evs) + k \in 1..Len(all) /\ (Len(evs) + k) - 1 = Len(evs) + (k - 1) /\ k \in 1..Len(more)
      BY <1>0, <1>1
    <2>2. Replay(all)[Len(evs) + k] = ReplayEvent(Replay(all)[(Len(evs) + k) - 1], all[Len(evs) + k])
      BY <1>1, <2>1, ReplayAt
    <2> QED BY <1>1, <2>1, <2>2
  <1>4. 0 \in P
    <2>1. After(0) = [m \in Missions |-> rows[m]]
      OBVIOUS
    <2>2. Len(evs) + 0 = Len(evs)
      BY <1>1
    <2> QED BY <1>2, <2>1, <2>2
  <1>5. ASSUME NEW k \in Nat, k \in P PROVE k + 1 \in P
    <2> HIDE DEF After
    <2> SUFFICES ASSUME k + 1 <= Len(ds) PROVE Replay(all)[Len(evs) + (k + 1)] = After(k + 1)
      OBVIOUS
    <2>1. k + 1 \in 1..Len(ds) /\ k + 1 \in 1..Len(ds) + 1 /\ (k + 1) - 1 = k /\ k <= Len(ds)
      BY <1>0
    <2>2. Replay(all)[Len(evs) + (k + 1)] = ReplayEvent(After(k), ds[k + 1])
      BY <1>0, <1>3, <1>5, <2>1
    <2>3. ReplayEvent(After(k), ds[k + 1]) = [After(k) EXCEPT ![ms[k + 1]] = new[ms[k + 1]]]
      BY <2>1 DEF SetsRows
    <2>4. \A m : (\E j \in 1..k + 1 : ms[j] = m) <=> (\E j \in 1..k : ms[j] = m) \/ ms[k + 1] = m
      BY ONLY k \in Nat
    <2>5. [After(k) EXCEPT ![ms[k + 1]] = new[ms[k + 1]]] = After(k + 1)
      <3>1. ms[k + 1] \in Missions
        BY <2>1 DEF SetsRows
      <3> QED BY ONLY <2>4, <3>1 DEF After
    <2> QED BY <2>2, <2>3, <2>5
  <1>6. Nat \subseteq P
    <2> HIDE DEF P
    <2> QED BY <1>4, <1>5, SetInduction
  <1>7. Replay(all)[Len(evs) + Len(ds)] = After(Len(ds))
    BY <1>0, <1>6
  <1>8. Replay(all)[Len(evs) + (Len(ds) + 1)] = ReplayEvent(Replay(all)[Len(evs) + Len(ds)], last)
    <2>1. Len(ds) + 1 \in 1..Len(ds) + 1 /\ (Len(ds) + 1) - 1 = Len(ds)
      BY <1>0
    <2> QED BY <1>0, <1>3, <2>1
  <1>9. Len(evs) + (Len(ds) + 1) = Len(evs) + Len(ds) + 1
    BY <1>0, <1>1
  <1> HIDE DEF After
  <1>10. Replay(all)[Len(evs) + Len(ds) + 1] = After(Len(ds))
    BY <1>7, <1>8, <1>9 DEF SetsRows
  <1>11. After(Len(ds)) = new
    BY DEF After, SetsRows
  <1> QED BY <1>10, <1>11 DEF all, more
------------------------------------------------------------------------------
(* The event chain.                                                        *)

LEMMA ChainStep ==
  ASSUME Typed, verify_event_chain, ClockOK, NEW evs \in Seq(EventRows),
         \A i \in 1..Len(evs) : evs[i].time = clock, AppendEvents(evs)
  PROVE  verify_event_chain' /\ events' \in Seq(EventRows)
  <1>0. events \in Seq(EventRows) /\ head = Len(events)
    BY DEF Typed, verify_event_chain
  <1>1. /\ events' \in Seq(EventRows) /\ Len(events') = Len(events) + Len(evs)
        /\ Len(events) \in Nat /\ Len(evs) \in Nat
        /\ \A i \in 1..Len(events) : events'[i] = events[i]
        /\ \A i \in 1..Len(evs) : events'[Len(events) + i] = evs[i]
    <2>1. events' = events \o evs
      BY DEF AppendEvents
    <2>2. events \in Seq(EventRows)
      BY <1>0
    <2> QED BY ONLY <2>1, <2>2, evs \in Seq(EventRows)
  <1>2. head' = Len(events')
    BY <1>0, <1>1 DEF AppendEvents
  <1>3. \A i \in 1..Len(events) : events[i].time \in Nat
    <2>1. \A e \in EventRows : e.time \in Nat
      BY Bounds DEF EventRows
    <2>2. \A i \in 1..Len(events) : events[i] \in EventRows
      BY <1>0
    <2> QED BY <2>1, <2>2
  <1>4. clock \in Nat
    BY Bounds DEF Typed, TypeOK
  <1>5. ASSUME NEW i \in 1..Len(events') - 1 PROVE events'[i].time <= events'[i + 1].time
    <2>1. CASE i < Len(events)
      <3>1. i \in 1..Len(events) /\ i + 1 \in 1..Len(events) /\ i \in 1..Len(events) - 1
        BY <1>1, <2>1
      <3>2. events[i].time <= events[i + 1].time
        BY <3>1 DEF verify_event_chain, EventsOrdered
      <3> QED BY <1>1, <3>1, <3>2
    <2>2. CASE i = Len(events)
      <3>1. events # <<>> /\ i \in 1..Len(events) /\ 1 \in 1..Len(evs)
        BY <1>1, <2>2
      <3>2. events'[i].time <= clock
        <4>1. events'[i] = events[i]
          BY <1>1, <3>1
        <4>2. clock >= events[i].time
          BY <3>1, <2>2 DEF ClockOK
        <4> QED BY <1>3, <1>4, <3>1, <4>1, <4>2
      <3>3. events'[i + 1].time = clock
        BY <1>1, <2>2, <3>1
      <3> QED BY <3>2, <3>3
    <2>3. CASE i > Len(events)
      <3>0. i - Len(events) \in 1..Len(evs)
        BY <1>1, <2>3
      <3>1. PICK j \in 1..Len(evs) : j = i - Len(events)
        BY <3>0
      <3>2. j + 1 \in 1..Len(evs) /\ i = Len(events) + j /\ i + 1 = Len(events) + (j + 1)
        BY <1>1, <3>1
      <3>3. events'[i].time = clock /\ events'[i + 1].time = clock
        BY <1>1, <3>2
      <3> QED BY <1>4, <3>3
    <2> QED BY <1>1, <2>1, <2>2, <2>3
  <1> QED BY <1>1, <1>2, <1>5 DEF verify_event_chain, EventsOrdered

LEMMA OneEvent ==
  ASSUME Typed, verify_event_chain, ClockOK, NEW e \in EventRows, e.time = clock,
         AppendEvents(<<e>>)
  PROVE  /\ verify_event_chain' /\ events' \in Seq(EventRows)
         /\ Replayed' = ReplayEvent(Replayed, e)
  <1>1. <<e>> \in Seq(EventRows) /\ Len(<<e>>) = 1 /\ <<e>>[1] = e
    OBVIOUS
  <1>2. \A i \in 1..Len(<<e>>) : <<e>>[i].time = clock
    BY <1>1
  <1>3. verify_event_chain' /\ events' \in Seq(EventRows)
    BY <1>1, <1>2, ChainStep
  <1>4. events \in Seq(EventRows) /\ events' = events \o <<e>>
    BY DEF Typed, AppendEvents
  <1>5. Len(events') = Len(events) + 1
    BY <1>4
  <1>6. Replay(events \o <<e>>)[Len(events) + 1] = ReplayEvent(Replay(events)[Len(events)], e)
    BY <1>4, ReplayOne
  <1> QED BY <1>3, <1>4, <1>5, <1>6 DEF Replayed
------------------------------------------------------------------------------
(* The steps.                                                              *)

LEMMA IssuedRow ==
  ASSUME Typed, Planned, NEW d \in Issued
  PROVE  /\ d \in Dispatches /\ d.mission \in Registered /\ d.generation \in Nat
         /\ d.generation <= mission[d.mission].generation
  <1>1. PICK r \in RequestIds : plans[r] # None /\ d \in plans[r].result
    BY DEF Issued
  <1>2. plans[r].result \subseteq Dispatches
    BY <1>1 DEF Typed, TypeOK
  <1>3. d \in Dispatches /\ d.mission \in Registered /\ d.generation <= mission[d.mission].generation
    BY <1>1, <1>2 DEF Planned
  <1> QED BY <1>3, Bounds DEF Dispatches

LEMMA ClaimMission ==
  ASSUME NEW d, NEW s, NEW l \in _claim_leases(d, s)
  PROVE  l.kind \in {"BRANCH", "PATH"} /\ l.mission = s.mission /\ l.dispatch = d
  BY DEF _claim_leases

\* requeue and record_terminal: a running mission gives its leases back.
LEMMA FinishStep ==
  ASSUME Typed, Leased, NoSharedWrites, Planned, Ended, ~_has_cycle(Graph),
         NEW d \in Issued, _require_active(d), NEW new \in MissionRow,
         new.spec = mission[d.mission].spec, new.generation = mission[d.mission].generation,
         new.dispatch = mission[d.mission].dispatch, new.state \in {"WAITING"} \cup Terminal,
         leases' = _release(d.mission, d),
         mission' = [mission EXCEPT ![d.mission] = new],
         accepted' = accepted \/ (accepted' = accepted \cup {d} /\ new.state \in Terminal),
         events' \in Seq(EventRows), head' \in Nat,
         UNCHANGED <<plans, clock, proc, got>>
  PROVE  Typed' /\ Leased' /\ NoSharedWrites' /\ Planned' /\ Ended' /\ ~_has_cycle(Graph)'
  <1>0. PICK k \in Registered : k = d.mission
    BY IssuedRow
  <1>1. /\ k \in Missions /\ mission \in [Missions -> MissionRow \cup {None}]
        /\ mission[k].state = "RUNNING" /\ mission[k].dispatch = d /\ k \in Running
        /\ new.state # "RUNNING" /\ new # None
    BY <1>0, RowRecord DEF Typed, TypeOK, Registered, _require_active, Running, Terminal
  <1>2. mission' \in [Missions -> MissionRow \cup {None}] /\ mission'[k] = new
        /\ \A m \in Missions \ {k} : mission'[m] = mission[m]
    BY <1>0, <1>1
  <1>3. Registered' = Registered /\ Running' = Running \ {k}
    BY <1>1, <1>2 DEF Registered, Running
  <1>4. \A m \in Registered : SpecOf(m)' = SpecOf(m) /\ mission'[m].generation = mission[m].generation
                              /\ mission'[m].dispatch = mission[m].dispatch
    BY <1>0, <1>1, <1>2 DEF SpecOf, Registered
  <1>5. Running \subseteq Registered /\ Registered \subseteq Missions
    BY DEF Running, Registered
  <1>6. Leased'
    <2>1. \A m \in Running : SpecOf(m).mission = m
      BY <1>5 DEF Typed
    <2>2. \A l \in leases : (l.mission = k /\ l.dispatch = d) <=>
                            l \in _claim_leases(mission[k].dispatch, SpecOf(k))
      <3>1. \A m \in Running : \A l \in _claim_leases(mission[m].dispatch, SpecOf(m)) :
               l.mission = m /\ l.dispatch = mission[m].dispatch
        BY <2>1, ClaimMission
      <3> QED BY <1>1, <3>1 DEF Leased
    <2>3. \A m \in Running \ {k} : \A l \in _claim_leases(mission[m].dispatch, SpecOf(m)) : l.mission # k
      BY <2>1, ClaimMission
    <2>4. leases' = UNION {_claim_leases(mission[m].dispatch, SpecOf(m)) : m \in Running \ {k}}
      <3>1. leases' = {l \in leases : ~(l.mission = k /\ l.dispatch = d)}
        BY <1>0 DEF _release
      <3> QED BY <1>1, <2>2, <2>3, <3>1 DEF Leased
    <2>5. \A m \in Running \ {k} : _claim_leases(mission'[m].dispatch, SpecOf(m)')
                                    = _claim_leases(mission[m].dispatch, SpecOf(m))
      BY <1>4, <1>5
    <2>6. leases' = UNION {_claim_leases(mission'[m].dispatch, SpecOf(m)') : m \in Running \ {k}}
      BY <2>4, <2>5
    <2> QED BY <1>3, <2>6 DEF Leased
  <1>7. NoSharedWrites'
    <2>1. \A m \in Running \ {k} : SpecOf(m)' = SpecOf(m)
      BY <1>4, <1>5
    <2> QED BY <1>3, <2>1 DEF NoSharedWrites
  <1>8. Planned'
    <2>1. Issued' = Issued
      BY DEF Issued
    <2>2. \A m \in Registered : mission'[m].state = "RUNNING" => mission[m].state = "RUNNING"
      BY <1>1, <1>2, <1>5
    <2> QED BY <1>3, <1>4, <2>1, <2>2 DEF Planned
  <1>9. Ended'
    <2>1. ASSUME NEW c \in accepted
          PROVE  c.mission \in Registered /\ c.mission # k /\ mission'[c.mission] = mission[c.mission]
      BY <1>1, <1>2, <1>5 DEF Ended, Terminal
    <2>2. mission[k].generation = d.generation
      BY <1>0, <1>1 DEF Planned
    <2>3. CASE accepted' = accepted
      BY <1>3, <2>1, <2>3 DEF Ended
    <2>4. CASE accepted' = accepted \cup {d} /\ new.state \in Terminal
      BY <1>0, <1>1, <1>2, <1>3, <1>4, <2>1, <2>2, <2>4 DEF Ended
    <2> QED BY <2>3, <2>4
  <1>10. ~_has_cycle(Graph)'
    <2>1. Graph' = Graph
      BY <1>3, <1>4 DEF Graph
    <2> QED BY <2>1 DEF _has_cycle
  <1>11. Typed'
    <2>1. \A l \in leases' : l \in leases
      BY DEF _release
    <2>2. accepted' \subseteq Dispatches
      BY IssuedRow DEF Typed, TypeOK
    <2>3. TypeOK'
      BY <1>2, <1>3, <2>1, <2>2 DEF Typed, TypeOK
    <2> QED BY <1>3, <1>4, <2>3 DEF Typed
  <1> QED BY <1>6, <1>7, <1>8, <1>9, <1>10, <1>11

LEMMA ReplayCases ==
  ASSUME NEW rows, NEW e
  PROVE  /\ e.type = "MISSION_REGISTERED" =>
               ReplayEvent(rows, e) = [rows EXCEPT ![e.mission] = Blank]
         /\ e.type = "MISSION_DISPATCHED" =>
               ReplayEvent(rows, e) = [rows EXCEPT ![e.mission] =
                  [Blank EXCEPT !.state = "RUNNING", !.generation = e.dispatch.generation,
                                !.dispatch = e.dispatch]]
         /\ e.type = "MISSION_REQUEUED" =>
               ReplayEvent(rows, e) = [rows EXCEPT ![e.mission] =
                  [rows[e.mission] EXCEPT !.state = "WAITING", !.evidence = None,
                                          !.requeue = e.evidence]]
         /\ e.type \in Terminal =>
               ReplayEvent(rows, e) = [rows EXCEPT ![e.mission] =
                  [rows[e.mission] EXCEPT !.state = e.type, !.evidence = e.evidence,
                                          !.requeue = None]]
         /\ e.type = "PLAN_COMMITTED" => ReplayEvent(rows, e) = rows
  <1>1. CASE e.type = "MISSION_REGISTERED"
    BY <1>1 DEF ReplayEvent, Terminal
  <1>2. CASE e.type = "MISSION_DISPATCHED"
    BY <1>2 DEF ReplayEvent, Terminal
  <1>3. CASE e.type = "MISSION_REQUEUED"
    BY <1>3 DEF ReplayEvent, Terminal
  <1>4. CASE e.type \in Terminal
    BY <1>4 DEF ReplayEvent, Terminal
  <1>5. CASE e.type = "PLAN_COMMITTED"
    BY <1>5 DEF ReplayEvent, Terminal
  <1> QED BY <1>1, <1>2, <1>3, <1>4, <1>5 DEF Terminal

Reports == [state : {"STARTING", "WAITING", "RUNNING"} \cup Terminal, generation : 0..MaxGeneration,
            dispatch : Dispatches \cup {None}, evidence : Evidence \cup {None},
            requeue : Evidence \cup {None}]

\* What a requeue or a terminal report makes of the row that the events tell.
LEMMA FinishedReport ==
  ASSUME NEW row \in MissionRow, NEW new \in MissionRow, new.generation = row.generation,
         new.dispatch = row.dispatch, new.state \in {"WAITING"} \cup Terminal
  PROVE  Materialized(new) = [Materialized(row) EXCEPT !.state = new.state, !.evidence = new.evidence,
                                                       !.requeue = new.requeue]
  <1>1. PICK r : r = Materialized(row)
    OBVIOUS
  <1>2. r = [state |-> row.state, generation |-> row.generation, dispatch |-> row.dispatch,
             evidence |-> row.evidence, requeue |-> row.requeue]
    BY <1>1, RowRecord DEF Materialized
  <1>3. r \in Reports /\ r.generation = new.generation /\ r.dispatch = new.dispatch
    BY <1>2, RowRecord DEF Reports
  <1>4. new.evidence \in Evidence \cup {None} /\ new.requeue \in Evidence \cup {None}
    BY RowRecord
  <1>5. PICK a : a = [r EXCEPT !.state = new.state, !.evidence = new.evidence,
                             !.requeue = new.requeue]
    OBVIOUS
  <1>6. a \in Reports
    BY <1>3, <1>4, <1>5 DEF Reports
  <1>7. /\ a.state = new.state /\ a.generation = new.generation /\ a.dispatch = new.dispatch
        /\ a.evidence = new.evidence /\ a.requeue = new.requeue
    BY <1>3, <1>5 DEF Reports
  <1>8. a = [state |-> a.state, generation |-> a.generation, dispatch |-> a.dispatch,
             evidence |-> a.evidence, requeue |-> a.requeue]
    BY ONLY <1>6 DEF Reports
  <1>9. Materialized(new) = [state |-> new.state, generation |-> new.generation,
                             dispatch |-> new.dispatch, evidence |-> new.evidence,
                             requeue |-> new.requeue]
    BY RowRecord DEF Materialized
  <1>10. Materialized(new) = a
    BY <1>7, <1>8, <1>9, Zenon
  <1> QED BY <1>1, <1>5, <1>10, Zenon

LEMMA EventTyped ==
  ASSUME Typed, NEW t \in {"MISSION_REGISTERED", "MISSION_DISPATCHED", "MISSION_REQUEUED",
                           "PLAN_COMMITTED"} \cup Terminal,
         NEW m \in Missions \cup {None}, NEW d \in Dispatches \cup {None},
         NEW v \in Evidence \cup {None}
  PROVE  /\ Event(t, m, d, v) \in EventRows /\ Event(t, m, d, v).time = clock
         /\ Event(t, m, d, v).type = t /\ Event(t, m, d, v).mission = m
         /\ Event(t, m, d, v).dispatch = d /\ Event(t, m, d, v).evidence = v
  BY DEF Event, EventRows, Typed, TypeOK

LEMMA RequeueStep ==
  ASSUME CoordinationInv, NEW p \in Processes, NEW d \in Issued, NEW v \in Evidence,
         requeue(p, d, v)
  PROVE  CoordinationInv'
  <1> USE DEF CoordinationInv
  <1>0. PICK k \in Registered : k = d.mission /\ d \in Dispatches
    BY IssuedRow
  <1>1. k \in Missions /\ mission[k] \in MissionRow
    BY RegisteredRow DEF Typed
  <1>2. PICK new : new = [mission[k] EXCEPT !.state = "WAITING", !.evidence = None, !.requeue = v]
    OBVIOUS
  <1>3. /\ new \in MissionRow /\ new.spec = mission[k].spec /\ new.generation = mission[k].generation
        /\ new.dispatch = mission[k].dispatch /\ new.state = "WAITING"
        /\ new.evidence = None /\ new.requeue = v
    BY <1>1, <1>2 DEF MissionRow
  <1>4. PICK e : e = Event("MISSION_REQUEUED", k, d, v)
    OBVIOUS
  <1>5. e \in EventRows /\ e.time = clock /\ e.type = "MISSION_REQUEUED" /\ e.mission = k /\ e.evidence = v
    BY <1>0, <1>1, <1>4, EventTyped
  <1>6. /\ ClockOK /\ _require_active(d) /\ leases' = _release(d.mission, d)
        /\ mission' = [mission EXCEPT ![k] = new] /\ AppendEvents(<<e>>)
        /\ UNCHANGED <<plans, clock, proc, got, accepted>>
    BY <1>0, <1>2, <1>4 DEF requeue
  <1>7. verify_event_chain' /\ events' \in Seq(EventRows) /\ Replayed' = ReplayEvent(View, e)
    BY <1>5, <1>6, OneEvent
  <1>8. head' \in Nat
    BY <1>7 DEF verify_event_chain
  <1>9. Typed' /\ Leased' /\ NoSharedWrites' /\ Planned' /\ Ended' /\ ~_has_cycle(Graph)'
    BY <1>0, <1>3, <1>6, <1>7, <1>8, FinishStep
  <1>10. Replayed' = View'
    <2>1. Replayed' = [View EXCEPT ![k] = [View[k] EXCEPT !.state = "WAITING", !.evidence = None, !.requeue = v]]
      <3>1. ReplayEvent(View, e) = [View EXCEPT ![e.mission] =
                  [View[e.mission] EXCEPT !.state = "WAITING", !.evidence = None, !.requeue = e.evidence]]
        BY <1>5, ReplayCases
      <3> QED BY <1>5, <1>7, <3>1
    <2>2. View[k] = Materialized(mission[k])
      BY <1>1 DEF View
    <2>3. Materialized(new) = [View[k] EXCEPT !.state = "WAITING", !.evidence = None, !.requeue = v]
      <3>1. new.state \in {"WAITING"} \cup Terminal
        BY <1>3
      <3>2. Materialized(new) = [Materialized(mission[k]) EXCEPT !.state = new.state,
                                    !.evidence = new.evidence, !.requeue = new.requeue]
        BY <1>1, <1>3, <3>1, FinishedReport
      <3> QED BY <1>3, <2>2, <3>2, Zenon
    <2>4. mission' = [m \in Missions |-> IF m = k THEN new ELSE mission[m]]
      BY <1>1, <1>6 DEF Typed, TypeOK
    <2> QED BY <1>1, <2>1, <2>3, <2>4 DEF View
  <1> QED BY <1>7, <1>9, <1>10

LEMMA TerminalStep ==
  ASSUME CoordinationInv, NEW p \in Processes, NEW d \in Issued, NEW v \in Evidence,
         NEW t \in Terminal, record_terminal(p, d, t, v)
  PROVE  CoordinationInv'
  <1> USE DEF CoordinationInv
  <1>0. PICK k \in Registered : k = d.mission /\ d \in Dispatches
    BY IssuedRow
  <1>1. k \in Missions /\ mission[k] \in MissionRow
    BY RegisteredRow DEF Typed
  <1>2. PICK new : new = [mission[k] EXCEPT !.state = t, !.evidence = v, !.requeue = None]
    OBVIOUS
  <1>3. /\ new \in MissionRow /\ new.spec = mission[k].spec /\ new.generation = mission[k].generation
        /\ new.dispatch = mission[k].dispatch /\ new.state = t
        /\ new.evidence = v /\ new.requeue = None
    BY <1>1, <1>2 DEF MissionRow
  <1>4. PICK e : e = Event(t, k, d, v)
    OBVIOUS
  <1>5. e \in EventRows /\ e.time = clock /\ e.type = t /\ e.mission = k /\ e.evidence = v
    BY <1>0, <1>1, <1>4, EventTyped
  <1>6. /\ ClockOK /\ _require_active(d) /\ leases' = _release(d.mission, d)
        /\ mission' = [mission EXCEPT ![k] = new] /\ AppendEvents(<<e>>)
        /\ accepted' = accepted \cup {d}
        /\ UNCHANGED <<plans, clock, proc, got>>
    BY <1>0, <1>2, <1>4 DEF record_terminal
  <1>7. verify_event_chain' /\ events' \in Seq(EventRows) /\ Replayed' = ReplayEvent(View, e)
    BY <1>5, <1>6, OneEvent
  <1>8. head' \in Nat
    BY <1>7 DEF verify_event_chain
  <1>9. Typed' /\ Leased' /\ NoSharedWrites' /\ Planned' /\ Ended' /\ ~_has_cycle(Graph)'
    BY <1>0, <1>3, <1>6, <1>7, <1>8, FinishStep
  <1>10. Replayed' = View'
    <2>1. Replayed' = [View EXCEPT ![k] = [View[k] EXCEPT !.state = t, !.evidence = v, !.requeue = None]]
      <3>1. ReplayEvent(View, e) = [View EXCEPT ![e.mission] =
                  [View[e.mission] EXCEPT !.state = e.type, !.evidence = e.evidence, !.requeue = None]]
        BY <1>5, ReplayCases
      <3> QED BY <1>5, <1>7, <3>1
    <2>2. View[k] = Materialized(mission[k])
      BY <1>1 DEF View
    <2>3. Materialized(new) = [View[k] EXCEPT !.state = t, !.evidence = v, !.requeue = None]
      <3>1. new.state \in {"WAITING"} \cup Terminal
        BY <1>3
      <3>2. Materialized(new) = [Materialized(mission[k]) EXCEPT !.state = new.state,
                                    !.evidence = new.evidence, !.requeue = new.requeue]
        BY <1>1, <1>3, <3>1, FinishedReport
      <3> QED BY <1>3, <2>2, <3>2, Zenon
    <2>4. mission' = [m \in Missions |-> IF m = k THEN new ELSE mission[m]]
      BY <1>1, <1>6 DEF Typed, TypeOK
    <2> QED BY <1>1, <2>1, <2>3, <2>4 DEF View
  <1> QED BY <1>7, <1>9, <1>10

LEMMA RegisterStep ==
  ASSUME CoordinationInv, NEW p \in Processes, NEW s \in Specs, register_mission(p, s)
  PROVE  CoordinationInv'
  <1> USE DEF CoordinationInv
  <1>0. PICK k \in Missions : k = s.mission
    BY DEF Missions
  <1>1. PICK new : new = Row(s)
    OBVIOUS
  <1>2. /\ new \in MissionRow /\ new # None /\ new.spec = s /\ new.state = "STARTING"
        /\ new.generation = 0 /\ Materialized(new) = Blank
    <2>1. new \in MissionRow /\ new.spec = s /\ new.state = "STARTING" /\ new.generation = 0
      BY <1>1, Bounds DEF Row, MissionRow
    <2>2. new # None
      BY <2>1, RowRecord
    <2>3. Materialized(new) = Blank
      BY <1>1, <2>2 DEF Materialized, Blank, Row
    <2> QED BY <2>1, <2>2, <2>3
  <1>3. PICK e : e = Event("MISSION_REGISTERED", k, None, None)
    OBVIOUS
  <1>4. e \in EventRows /\ e.time = clock /\ e.type = "MISSION_REGISTERED" /\ e.mission = k
    BY <1>0, <1>3, EventTyped
  <1>5. /\ ClockOK /\ mission[k] = None /\ mission' = [mission EXCEPT ![k] = new] /\ AppendEvents(<<e>>)
        /\ ~_has_cycle([m \in Registered \cup {k} |->
                          IF m = k THEN s.dependencies ELSE SpecOf(m).dependencies])
        /\ UNCHANGED <<leases, plans, clock, proc, got, accepted>>
    BY <1>0, <1>1, <1>3 DEF register_mission
  <1>6. verify_event_chain' /\ events' \in Seq(EventRows) /\ Replayed' = ReplayEvent(View, e)
    BY <1>4, <1>5, OneEvent
  <1>7. mission' = [m \in Missions |-> IF m = k THEN new ELSE mission[m]]
    BY <1>0, <1>5 DEF Typed, TypeOK
  <1>8. Replayed' = View'
    <2>1. Replayed' = [View EXCEPT ![k] = Blank]
      BY <1>4, <1>6, ReplayCases
    <2> QED BY <1>0, <1>2, <1>7, <2>1 DEF View
  <1>9. /\ Registered' = Registered \cup {k} /\ Running' = Running /\ k \notin Registered
        /\ Registered \subseteq Missions /\ Running \subseteq Registered
    BY <1>0, <1>2, <1>5, <1>7 DEF Registered, Running
  <1>10. \A m \in Registered : SpecOf(m)' = SpecOf(m) /\ mission'[m] = mission[m]
    BY <1>7, <1>9 DEF SpecOf
  <1>11. SpecOf(k)' = s /\ mission'[k] = new
    BY <1>0, <1>2, <1>7 DEF SpecOf
  <1>12. Typed'
    <2>1. mission' \in [Missions -> MissionRow \cup {None}]
      BY <1>2, <1>7 DEF Typed, TypeOK
    <2>2. head' \in Nat
      BY <1>6 DEF verify_event_chain
    <2>3. TypeOK'
      BY <1>5, <1>9, <2>1, <2>2 DEF Typed, TypeOK
    <2> QED BY <1>0, <1>6, <1>9, <1>10, <1>11, <2>3 DEF Typed
  <1>13. Leased'
    <2>1. \A m \in Running : _claim_leases(mission'[m].dispatch, SpecOf(m)')
                              = _claim_leases(mission[m].dispatch, SpecOf(m))
      BY <1>9, <1>10
    <2>2. leases' = UNION {_claim_leases(mission'[m].dispatch, SpecOf(m)') : m \in Running}
      BY <1>5, <2>1 DEF Leased
    <2> QED BY <1>9, <2>2 DEF Leased
  <1>14. NoSharedWrites'
    <2>1. \A m \in Running : SpecOf(m)' = SpecOf(m)
      BY <1>9, <1>10
    <2> QED BY <1>9, <2>1 DEF NoSharedWrites
  <1>15. Planned'
    <2>1. Issued' = Issued
      BY <1>5 DEF Issued
    <2> QED BY <1>2, <1>5, <1>9, <1>10, <1>11, <2>1 DEF Planned
  <1>16. Ended'
    BY <1>5, <1>9, <1>10 DEF Ended
  <1>17. ~_has_cycle(Graph)'
    <2>1. Graph' = [m \in Registered \cup {k} |->
                      IF m = k THEN s.dependencies ELSE SpecOf(m).dependencies]
      BY <1>9, <1>10, <1>11 DEF Graph
    <2> QED BY <1>5, <2>1 DEF _has_cycle
  <1> QED BY <1>6, <1>8, <1>12, <1>13, <1>14, <1>15, <1>16, <1>17
LEMMA DispatchTyped ==
  ASSUME Typed, NEW q \in Requests, NEW m \in Registered, mission[m].generation < MaxGeneration
  PROVE  /\ DispatchOf(m, q) \in Dispatches /\ DispatchOf(m, q).mission = m
         /\ DispatchOf(m, q).request = q
         /\ DispatchOf(m, q).generation = mission[m].generation + 1
         /\ DispatchOf(m, q).generation > 0 /\ mission[m].generation \in Nat
  <1>1. m \in Missions /\ mission[m] \in MissionRow
    BY RegisteredRow DEF Typed
  <1>2. mission[m].generation \in Nat
    BY <1>1, RowRecord
  <1>3. mission[m].generation + 1 \in 1..MaxGeneration /\ clock \in 0..MaxTime
    BY <1>2, Bounds DEF Typed, TypeOK
  <1> QED BY <1>1, <1>2, <1>3 DEF DispatchOf, Dispatches

\* The row of a dispatched mission, and what its event makes of the replayed one.
LEMMA DispatchedRow ==
  ASSUME NEW row \in MissionRow, NEW d \in Dispatches
  PROVE  /\ Dispatched(row, d) \in MissionRow /\ Dispatched(row, d) # None
         /\ Dispatched(row, d).spec = row.spec /\ Dispatched(row, d).state = "RUNNING"
         /\ Dispatched(row, d).generation = d.generation /\ Dispatched(row, d).dispatch = d
         /\ Materialized(Dispatched(row, d)) = [Blank EXCEPT !.state = "RUNNING",
                  !.generation = d.generation, !.dispatch = d]
  <1>0. d.generation \in 0..MaxGeneration
    BY Bounds DEF Dispatches
  <1>1. PICK new : new = Dispatched(row, d)
    OBVIOUS
  <1>2. new \in MissionRow
    BY <1>0, <1>1 DEF Dispatched, MissionRow
  <1>3. /\ new.spec = row.spec /\ new.state = "RUNNING" /\ new.generation = d.generation
        /\ new.dispatch = d /\ new.evidence = None /\ new.requeue = None
    BY <1>1 DEF Dispatched, MissionRow
  <1>4. new # None
    BY <1>2, RowRecord
  <1>5. Materialized(new) = [state |-> new.state, generation |-> new.generation,
                             dispatch |-> new.dispatch, evidence |-> new.evidence,
                             requeue |-> new.requeue]
    BY <1>4 DEF Materialized
  <1>6. Materialized(new) = [state |-> "RUNNING", generation |-> d.generation, dispatch |-> d,
                             evidence |-> None, requeue |-> None]
    BY <1>3, <1>5, Zenon
  <1>7. PICK a : a = [Blank EXCEPT !.state = "RUNNING", !.generation = d.generation, !.dispatch = d]
    OBVIOUS
  <1>8. Blank \in Reports
    BY Bounds DEF Blank, Reports
  <1>9. a \in Reports
    BY <1>0, <1>7, <1>8 DEF Reports
  <1>10. /\ a.state = "RUNNING" /\ a.generation = d.generation /\ a.dispatch = d
         /\ a.evidence = None /\ a.requeue = None
    BY <1>7 DEF Blank
  <1>11. a = [state |-> a.state, generation |-> a.generation, dispatch |-> a.dispatch,
              evidence |-> a.evidence, requeue |-> a.requeue]
    BY ONLY <1>9 DEF Reports
  <1>12. a = [state |-> "RUNNING", generation |-> d.generation, dispatch |-> d,
              evidence |-> None, requeue |-> None]
    BY <1>10, <1>11, Zenon
  <1>13. Materialized(new) = a
    BY <1>6, <1>12, Zenon
  <1>14. Materialized(new) = [Blank EXCEPT !.state = "RUNNING", !.generation = d.generation,
                                           !.dispatch = d]
    BY <1>7, <1>13, Zenon
  <1> QED BY <1>1, <1>2, <1>3, <1>4, <1>14, Zenon

\* The tables after a plan: its missions run, with the leases that it claimed.
LEMMA PlanTables ==
  ASSUME Typed, Leased, NoSharedWrites, Planned, Ended, ~_has_cycle(Graph),
         NEW q \in Requests, NEW ms, ScanOK(ms, Len(Order)), plans[q.id] = None,
         \A m \in Picked(ms) : mission[m].generation < MaxGeneration,
         leases' = ClaimsOf(ms, q),
         mission' = [m \in Missions |-> IF m \in Picked(ms) THEN Dispatched(mission[m], DispatchOf(m, q))
                                        ELSE mission[m]],
         plans' = [plans EXCEPT ![q.id] = [request |-> q, result |-> {DispatchOf(m, q) : m \in Picked(ms)}]],
         events' \in Seq(EventRows), head' \in Nat,
         UNCHANGED <<clock, proc, got, accepted>>
  PROVE  Typed' /\ Leased' /\ NoSharedWrites' /\ Planned' /\ Ended' /\ ~_has_cycle(Graph)'
  <1>1. PICK C : C = Picked(ms)
    OBVIOUS
  <1>2. \A m \in C : /\ m \in Registered /\ m \in Missions /\ mission[m] \in MissionRow
                     /\ m \notin Running /\ mission[m].state \notin Terminal
    <2>1. \A m \in C : Pending(m)
      BY <1>1 DEF ScanOK, Picked
    <2> QED BY <2>1, RegisteredRow DEF Pending, Running, Terminal, Typed
  <1>3. PICK dis : dis = [m \in C |-> DispatchOf(m, q)]
    OBVIOUS
  <1>4. \A m \in C : /\ dis[m] \in Dispatches /\ dis[m].mission = m /\ dis[m].request = q
                     /\ dis[m].generation = mission[m].generation + 1
                     /\ mission[m].generation \in Nat /\ dis[m] = DispatchOf(m, q)
    BY <1>1, <1>2, <1>3, DispatchTyped
  <1>5. \A m \in C : /\ mission'[m] \in MissionRow /\ mission'[m] # None
                     /\ mission'[m].spec = mission[m].spec /\ mission'[m].state = "RUNNING"
                     /\ mission'[m].generation = dis[m].generation /\ mission'[m].dispatch = dis[m]
    <2>1. \A m \in C : mission'[m] = Dispatched(mission[m], dis[m])
      BY <1>1, <1>2, <1>4
    <2>2. SUFFICES ASSUME NEW m \in C
          PROVE  /\ mission'[m] \in MissionRow /\ mission'[m] # None
                 /\ mission'[m].spec = mission[m].spec /\ mission'[m].state = "RUNNING"
                 /\ mission'[m].generation = dis[m].generation /\ mission'[m].dispatch = dis[m]
      BY Zenon
    <2>3. PICK row \in MissionRow : row = mission[m]
      BY <1>2
    <2>4. PICK d \in Dispatches : d = dis[m]
      BY <1>4
    <2>5. PICK new : new = mission'[m]
      OBVIOUS
    <2>6. new = Dispatched(row, d)
      BY <2>1, <2>3, <2>4, <2>5
    <2>7. /\ new \in MissionRow /\ new # None /\ new.spec = row.spec /\ new.state = "RUNNING"
          /\ new.generation = d.generation /\ new.dispatch = d
      BY ONLY <2>6, row \in MissionRow, d \in Dispatches, DispatchedRow
    <2> QED BY ONLY <2>3, <2>4, <2>5, <2>7
  <1>6. \A m \in Missions \ C : mission'[m] = mission[m]
    BY <1>1
  <1>7. mission' \in [Missions -> MissionRow \cup {None}]
    <2>1. mission \in [Missions -> MissionRow \cup {None}]
      BY DEF Typed, TypeOK
    <2>2. \A m \in Missions : mission'[m] \in MissionRow \cup {None}
      BY <1>5, <1>6, <2>1
    <2>3. mission' = [m \in Missions |-> mission'[m]]
      OBVIOUS
    <2> QED BY <2>2, <2>3
  <1>8. /\ Registered' = Registered /\ Running' = Running \cup C
        /\ Registered \subseteq Missions /\ Running \subseteq Registered /\ C \subseteq Registered
    <2>1. Registered \subseteq Missions /\ Running \subseteq Registered /\ C \subseteq Registered
      BY <1>2 DEF Registered, Running
    <2>2. Registered' = Registered
      BY ONLY <1>2, <1>5, <1>6 DEF Registered
    <2>3. Running' = Running \cup C
      BY ONLY <1>2, <1>5, <1>6, <2>1, <2>2 DEF Running
    <2> QED BY <2>1, <2>2, <2>3
  <1>9. \A m \in Registered : SpecOf(m)' = SpecOf(m)
    BY <1>5, <1>6, <1>8 DEF SpecOf
  <1>10. \A m \in Registered \ C : mission'[m] = mission[m]
    BY <1>6, <1>8
  <1>11. Leased'
    <2>1. leases' = leases \cup UNION {_claim_leases(DispatchOf(m, q), SpecOf(m)) : m \in C}
      BY <1>1 DEF ClaimsOf, Picked
    <2>2. \A m \in C : _claim_leases(mission'[m].dispatch, SpecOf(m)')
                        = _claim_leases(DispatchOf(m, q), SpecOf(m))
      BY <1>4, <1>5, <1>8, <1>9
    <2>3. \A m \in Running : _claim_leases(mission'[m].dispatch, SpecOf(m)')
                              = _claim_leases(mission[m].dispatch, SpecOf(m))
      BY <1>2, <1>8, <1>9, <1>10
    <2>4. leases' = UNION {_claim_leases(mission'[m].dispatch, SpecOf(m)') : m \in Running \cup C}
      <3>1. leases = UNION {_claim_leases(mission[m].dispatch, SpecOf(m)) : m \in Running}
        BY DEF Leased
      <3>2. \A l : l \in leases' <=>
               \/ \E m \in Running : l \in _claim_leases(mission[m].dispatch, SpecOf(m))
               \/ \E m \in C : l \in _claim_leases(DispatchOf(m, q), SpecOf(m))
        BY ONLY <2>1, <3>1
      <3>3. \A l : l \in leases' <=>
               \E m \in Running \cup C : l \in _claim_leases(mission'[m].dispatch, SpecOf(m)')
        BY ONLY <2>2, <2>3, <3>2
      <3> QED BY ONLY <3>3
    <2> QED BY <1>8, <2>4 DEF Leased
  <1>12. NoSharedWrites'
    <2>1. Apart(Running \cup C)
      BY <1>1 DEF ScanOK
    <2>2. \A m \in Running \cup C : SpecOf(m)' = SpecOf(m)
      BY <1>8, <1>9
    <2> QED BY <1>8, <2>1, <2>2 DEF NoSharedWrites, Apart
  <1>13. PICK res : res = {dis[m] : m \in C}
    OBVIOUS
  <1>14. /\ q.id \in RequestIds /\ plans \in [RequestIds -> [request : Requests, result : SUBSET Dispatches] \cup {None}]
         /\ plans' = [plans EXCEPT ![q.id] = [request |-> q, result |-> res]]
         /\ [request |-> q, result |-> res] \in [request : Requests, result : SUBSET Dispatches]
    <2>1. res = {DispatchOf(m, q) : m \in C}
      BY <1>4, <1>13
    <2>2. res \subseteq Dispatches
      BY <1>4, <1>13
    <2> QED BY <1>1, <2>1, <2>2 DEF RequestIds, Typed, TypeOK
  <1>15. /\ plans'[q.id] # None /\ plans'[q.id].request = q /\ plans'[q.id].result = res
         /\ \A r \in RequestIds \ {q.id} : plans'[r] = plans[r]
         /\ plans' \in [RequestIds -> [request : Requests, result : SUBSET Dispatches] \cup {None}]
    BY <1>14, CoordinationAssumption
  <1>16. Issued' = Issued \cup res
    BY <1>14, <1>15 DEF Issued
  <1>17. \A m \in Registered : /\ mission'[m].generation \in Nat /\ mission[m].generation \in Nat
                               /\ mission[m].generation <= mission'[m].generation
    <2>1. \A m \in Registered : mission[m].generation \in Nat
      BY RegisteredRow, RowRecord DEF Typed
    <2>2. \A m \in C : mission'[m].generation = mission[m].generation + 1
      BY ONLY <1>4, <1>5
    <2>3. \A m \in Registered \ C : mission'[m].generation = mission[m].generation
      BY ONLY <1>10
    <2> QED BY ONLY <2>1, <2>2, <2>3
  <1>18. Planned'
    <2>1. ASSUME NEW r \in RequestIds, plans'[r] # None, NEW d \in plans'[r].result
          PROVE  /\ d.mission \in Registered /\ d.request = plans'[r].request
                 /\ d.generation <= mission'[d.mission].generation
      <3>1. CASE r = q.id
        <4>1. PICK m \in C : d = dis[m]
          BY ONLY <1>13, <1>15, <2>1, <3>1
        <4>2. d.mission = m /\ d.request = q /\ d.generation = mission'[m].generation
          BY ONLY <1>4, <1>5, <4>1
        <4>3. m \in Registered /\ mission'[m].generation \in Nat
          BY ONLY <1>8, <1>17
        <4> QED BY ONLY <1>15, <3>1, <4>2, <4>3
      <3>2. CASE r # q.id
        <4>1. plans'[r] = plans[r]
          BY <1>15, <3>2
        <4>2. /\ d.mission \in Registered /\ d.request = plans[r].request
              /\ d.generation <= mission[d.mission].generation /\ d \in Issued
          BY <2>1, <4>1 DEF Planned, Issued
        <4>3. d.generation \in Nat
          BY <4>2, IssuedRow
        <4>4. d.generation \in Nat /\ mission[d.mission].generation \in Nat
              /\ mission'[d.mission].generation \in Nat
              /\ mission[d.mission].generation <= mission'[d.mission].generation
          BY ONLY <1>17, <4>2, <4>3
        <4> QED BY ONLY <4>1, <4>2, <4>4
      <3> QED BY <3>1, <3>2
    <2>2. ASSUME NEW m \in Registered
          PROVE  /\ mission'[m].generation > 0 =>
                      /\ mission'[m].dispatch \in Issued'
                      /\ mission'[m].dispatch.generation = mission'[m].generation
                 /\ mission'[m].state = "RUNNING" => mission'[m].generation > 0
      <3>1. CASE m \in C
        <4>1. mission'[m].dispatch = dis[m] /\ mission'[m].generation = dis[m].generation
              /\ dis[m].generation = mission[m].generation + 1 /\ mission[m].generation \in Nat
          BY ONLY <1>4, <1>5, <3>1
        <4>2. dis[m] \in Issued'
          BY ONLY <1>13, <1>16, <3>1
        <4> QED BY ONLY <4>1, <4>2
      <3>2. CASE m \notin C
        BY <1>10, <1>16, <3>2 DEF Planned
      <3> QED BY <3>1, <3>2
    <2> QED BY <1>8, <2>1, <2>2 DEF Planned
  <1>19. Ended'
    BY <1>2, <1>8, <1>10 DEF Ended
  <1>20. ~_has_cycle(Graph)'
    <2>1. Graph' = Graph
      BY <1>8, <1>9 DEF Graph
    <2> QED BY <2>1 DEF _has_cycle
  <1>21. Typed'
    <2>1. ASSUME NEW l \in leases'
          PROVE  l.kind \in {"BRANCH", "PATH"} /\ l.mission \in Registered /\ l.dispatch \in Dispatches
      <3>1. CASE l \in leases
        BY <3>1 DEF Typed, TypeOK
      <3>2. CASE l \notin leases
        <4>1. PICK m \in C : l \in _claim_leases(DispatchOf(m, q), SpecOf(m))
          BY <1>1, <3>2 DEF ClaimsOf, Picked
        <4>2. SpecOf(m).mission = m
          BY <1>8 DEF Typed
        <4> QED BY <1>4, <1>8, <4>1, <4>2, ClaimMission
      <3> QED BY <3>1, <3>2
    <2>2. TypeOK'
      BY <1>7, <1>8, <1>15, <2>1 DEF Typed, TypeOK
    <2> QED BY <1>8, <1>9, <2>2 DEF Typed
  <1> QED BY <1>11, <1>12, <1>18, <1>19, <1>20, <1>21

LEMMA PlanStep ==
  ASSUME CoordinationInv, NEW p \in Processes, NEW q \in Requests, plan(p, q)
  PROVE  CoordinationInv'
  <1> USE DEF CoordinationInv
  <1>0. PICK ms : ms = Scan(q)[Len(Order)]
    OBVIOUS
  <1>1. ScanOK(ms, Len(Order))
    BY <1>0, ScanPicks
  <1>2. /\ ms \in Seq(Missions) /\ Len(ms) \in Nat /\ DOMAIN ms = 1..Len(ms)
        /\ \A i \in 1..Len(ms) : ms[i] \in Missions /\ ms[i] \in Picked(ms) /\ Pending(ms[i])
    BY <1>1 DEF ScanOK, Picked
  <1>3. PICK ds : ds = [i \in DOMAIN ms |-> Event("MISSION_DISPATCHED", ms[i], DispatchOf(ms[i], q), None)]
    OBVIOUS
  <1>4. PICK last : last = Event("PLAN_COMMITTED", None, None, None)
    OBVIOUS
  <1>5. /\ ClockOK /\ plans[q.id] = None
        /\ \A m \in Picked(ms) : mission[m].generation < MaxGeneration
        /\ leases' = ClaimsOf(ms, q)
        /\ mission' = [m \in Missions |-> IF m \in Picked(ms) THEN Dispatched(mission[m], DispatchOf(m, q))
                                          ELSE mission[m]]
        /\ plans' = [plans EXCEPT ![q.id] = [request |-> q, result |-> {DispatchOf(m, q) : m \in Picked(ms)}]]
        /\ AppendEvents(ds \o <<last>>)
        /\ UNCHANGED <<clock, proc, got, accepted>>
    BY <1>0, <1>3, <1>4 DEF plan, Picked
  <1>6. \A i \in 1..Len(ms) : DispatchOf(ms[i], q) \in Dispatches
    BY <1>2, <1>5, DispatchTyped DEF Pending
  <1>7. /\ ds \in Seq(EventRows) /\ Len(ds) = Len(ms)
        /\ \A i \in 1..Len(ds) : /\ ds[i].time = clock /\ ds[i].type = "MISSION_DISPATCHED"
                                 /\ ds[i].mission = ms[i] /\ ds[i].dispatch = DispatchOf(ms[i], q)
    <2>1. ASSUME NEW i \in 1..Len(ms)
          PROVE  /\ ds[i] \in EventRows /\ ds[i].time = clock /\ ds[i].type = "MISSION_DISPATCHED"
                 /\ ds[i].mission = ms[i] /\ ds[i].dispatch = DispatchOf(ms[i], q)
      <3>1. PICK d \in Dispatches : d = DispatchOf(ms[i], q)
        BY <1>6
      <3>2. ds[i] = Event("MISSION_DISPATCHED", ms[i], d, None)
        BY <1>2, <1>3, <3>1
      <3>3. ms[i] \in Missions
        BY <1>2
      <3> QED BY <3>1, <3>2, <3>3, EventTyped
    <2>2. ds = [i \in 1..Len(ms) |-> ds[i]]
      BY <1>2, <1>3
    <2>3. ds \in Seq(EventRows) /\ Len(ds) = Len(ms)
      BY <1>2, <2>1, <2>2
    <2> QED BY <2>1, <2>3
  <1>8. last \in EventRows /\ last.time = clock /\ last.type = "PLAN_COMMITTED"
    BY <1>4, EventTyped
  <1>9. PICK evs : evs = ds \o <<last>>
    OBVIOUS
  <1>10. /\ evs \in Seq(EventRows) /\ Len(evs) = Len(ds) + 1 /\ Len(ds) \in Nat
         /\ \A i \in 1..Len(evs) : evs[i].time = clock
    <2>1. PICK one : one = <<last>>
      OBVIOUS
    <2>2. one \in Seq(EventRows) /\ Len(one) = 1 /\ one[1] = last
      BY <1>8, <2>1
    <2>3. evs = ds \o one /\ ds \in Seq(EventRows) /\ one \in Seq(EventRows)
      BY <1>7, <1>9, <2>1, <2>2
    <2>4. /\ evs \in Seq(EventRows) /\ Len(evs) = Len(ds) + Len(one) /\ Len(ds) \in Nat
          /\ \A i \in 1..Len(ds) : evs[i] = ds[i]
          /\ \A i \in 1..Len(one) : evs[Len(ds) + i] = one[i]
      BY ONLY <2>3
    <2>5. \A i \in 1..Len(ds) + 1 : i \in 1..Len(ds) \/ i = Len(ds) + 1
      BY ONLY <2>4
    <2>6. evs[Len(ds) + 1] = last
      BY ONLY <2>2, <2>4
    <2> QED BY ONLY <1>7, <1>8, <2>2, <2>4, <2>5, <2>6
  <1>11. AppendEvents(evs)
    BY <1>5, <1>9
  <1>12. verify_event_chain' /\ events' \in Seq(EventRows)
    BY <1>5, <1>10, <1>11, ChainStep
  <1>13. head' \in Nat
    BY <1>12 DEF verify_event_chain
  <1>14. Typed' /\ Leased' /\ NoSharedWrites' /\ Planned' /\ Ended' /\ ~_has_cycle(Graph)'
    BY <1>1, <1>5, <1>12, <1>13, PlanTables
  <1>15. Replayed' = View'
    <2>1. PICK new : new = [m \in Missions |-> Materialized(mission'[m])]
      OBVIOUS
    <2>2. \A j \in 1..Len(ds) : \A x : ReplayEvent(x, ds[j]) = [x EXCEPT ![ms[j]] = new[ms[j]]]
      <3> SUFFICES ASSUME NEW j \in 1..Len(ds), NEW x
                   PROVE  ReplayEvent(x, ds[j]) = [x EXCEPT ![ms[j]] = new[ms[j]]]
        OBVIOUS
      <3>1. PICK d \in Dispatches : d = DispatchOf(ms[j], q)
        BY <1>6, <1>7
      <3>2. PICK m \in Picked(ms) : m = ms[j]
        BY <1>2, <1>7
      <3>3. PICK row \in MissionRow : row = mission[m]
        BY <1>2, <1>7, <3>2, RegisteredRow DEF Pending, Typed
      <3>4. new[m] = [Blank EXCEPT !.state = "RUNNING", !.generation = d.generation, !.dispatch = d]
        <4>1. new[m] = Materialized(Dispatched(row, d))
          <5>1. m \in Missions
            BY <1>2, <1>7, <3>2
          <5>2. mission'[m] = Dispatched(row, d)
            BY <1>5, <3>1, <3>2, <3>3, <5>1
          <5> QED BY <2>1, <5>1, <5>2
        <4> QED BY <4>1, DispatchedRow
      <3>5. PICK e : e = ds[j]
        OBVIOUS
      <3>6. e.type = "MISSION_DISPATCHED" /\ e.mission = m /\ e.dispatch = d
        BY <1>7, <3>1, <3>2, <3>5
      <3>7. ReplayEvent(x, e) = [x EXCEPT ![e.mission] =
                  [Blank EXCEPT !.state = "RUNNING", !.generation = e.dispatch.generation,
                                !.dispatch = e.dispatch]]
        BY <3>6, ReplayCases
      <3>8. ReplayEvent(x, e) = [x EXCEPT ![m] =
                  [Blank EXCEPT !.state = "RUNNING", !.generation = d.generation, !.dispatch = d]]
        BY <3>6, <3>7, Zenon
      <3> QED BY <3>2, <3>4, <3>5, <3>8, Zenon
    <2>3. \A x : ReplayEvent(x, last) = x
      BY <1>8, ReplayCases
    <2>4. PICK old : old = View
      OBVIOUS
    <2>5. /\ Replay(events)[Len(events)] = old /\ events \in Seq(EventRows)
      BY <2>4 DEF Replayed, Typed
    <2>6. PICK R : old \in [Missions -> R] /\ new \in [Missions -> R]
      <3> DEFINE Rows == {old[m] : m \in Missions} \cup {new[m] : m \in Missions}
      <3>1. old \in [Missions -> Rows] /\ new \in [Missions -> Rows]
        BY <2>1, <2>4 DEF View
      <3> HIDE DEF Rows
      <3> QED BY <3>1
    <2>7. \A j \in 1..Len(ds) : ms[j] \in Missions
      BY <1>2, <1>7
    <2>8. \A m \in Missions : (\A j \in 1..Len(ds) : ms[j] # m) => new[m] = old[m]
      <3>1. \A m \in Missions : (\A j \in 1..Len(ds) : ms[j] # m) => m \notin Picked(ms)
        BY <1>2, <1>7 DEF Picked
      <3> QED BY <1>5, <2>1, <2>4, <3>1 DEF View
    <2>9. ds \in Seq(EventRows) /\ last \in EventRows
      BY <1>7, <1>8
    <2>10. SetsRows(ds, last, old, new, ms)
      BY ONLY <2>2, <2>3, <2>7, <2>8, Zenon DEF SetsRows
    <2>11. Replay(events \o (ds \o <<last>>))[Len(events) + Len(ds) + 1] = new
      BY ONLY <2>5, <2>9, <2>6, <2>10, ReplayMany
    <2>12. Len(events') = Len(events) + Len(ds) + 1 /\ events' = events \o (ds \o <<last>>)
      <3>1. events \in Seq(EventRows) /\ events' = events \o evs
        BY <1>11, <2>5 DEF AppendEvents
      <3>2. Len(events') = Len(events) + Len(evs) /\ Len(events) \in Nat
        BY <1>10, <3>1, AppendAt
      <3> QED BY <1>9, <1>10, <3>1, <3>2
    <2>13. Replayed' = new
      BY <2>11, <2>12 DEF Replayed
    <2> QED BY <2>1, <2>13 DEF View, Materialized
  <1> QED BY <1>12, <1>14, <1>15

\* Time, and opening or closing the store: the tables stay as they are.
LEMMA QuietStep ==
  ASSUME CoordinationInv, UNCHANGED <<mission, leases, plans, events, head, accepted>>, TypeOK'
  PROVE  CoordinationInv'
  <1> USE DEF CoordinationInv
  <1>1. Registered' = Registered /\ Running' = Running /\ Issued' = Issued
    BY DEF Registered, Running, Issued
  <1>2. \A m : SpecOf(m)' = SpecOf(m)
    BY DEF SpecOf
  <1>3. Typed'
    BY <1>1, <1>2 DEF Typed
  <1>4. Leased' /\ NoSharedWrites'
    BY <1>1, <1>2 DEF Leased, NoSharedWrites
  <1>5. Planned' /\ Ended'
    BY <1>1 DEF Planned, Ended
  <1>6. verify_event_chain' /\ Replayed' = Replayed
    BY DEF verify_event_chain, EventsOrdered, Replayed
  <1>7. View' = View
    BY DEF View, Materialized
  <1>8. ~_has_cycle(Graph)'
    <2>1. Graph' = Graph
      BY <1>1, <1>2 DEF Graph
    <2> QED BY <2>1 DEF _has_cycle
  <1> QED BY <1>3, <1>4, <1>5, <1>6, <1>7, <1>8

LEMMA CoordinationInit == Init => CoordinationInv
  <1> SUFFICES ASSUME Init PROVE CoordinationInv
    OBVIOUS
  <1>1. Registered = {} /\ Running = {} /\ Issued = {}
    BY DEF Init, Registered, Running, Issued
  <1>2. Typed
    <2>1. TypeOK
      BY <1>1, Bounds DEF Init, TypeOK
    <2>2. events \in Seq(EventRows)
      BY DEF Init
    <2> QED BY <1>1, <2>1, <2>2 DEF Typed
  <1>3. Leased /\ NoSharedWrites /\ Ended
    BY <1>1 DEF Init, Leased, NoSharedWrites, Ended
  <1>4. Planned
    BY <1>1 DEF Init, Planned
  <1>5. verify_event_chain
    BY DEF Init, verify_event_chain, EventsOrdered
  <1>6. Replayed = View
    <2>1. events \in Seq(EventRows) /\ Len(events) = 0
      BY DEF Init
    <2>2. Replayed = [m \in Missions |-> None]
      BY <2>1, ReplayAt DEF Replayed
    <2>3. View = [m \in Missions |-> None]
      BY DEF Init, View, Materialized
    <2> QED BY <2>2, <2>3
  <1>7. ~_has_cycle(Graph)
    BY <1>1 DEF _has_cycle, Graph
  <1> QED BY <1>2, <1>3, <1>4, <1>5, <1>6, <1>7 DEF CoordinationInv

LEMMA CoordinationStep == CoordinationInv /\ [Next]_vars => CoordinationInv'
  <1> SUFFICES ASSUME CoordinationInv, [Next]_vars PROVE CoordinationInv'
    OBVIOUS
  <1>0. TypeOK
    BY DEF CoordinationInv, Typed
  <1>1. CASE UNCHANGED vars
    <2>1. TypeOK'
      BY <1>0, <1>1 DEF vars, TypeOK, Registered
    <2> QED BY <1>1, <2>1, QuietStep DEF vars
  <1>2. ASSUME NEW t \in 0..MaxTime, Tick(t) PROVE CoordinationInv'
    <2>1. TypeOK'
      BY <1>0, <1>2 DEF Tick, tables, TypeOK, Registered
    <2> QED BY <1>2, <2>1, QuietStep DEF Tick, tables
  <1>3. ASSUME NEW p \in Processes, Open(p) PROVE CoordinationInv'
    <2>0. Len(events) \in Nat
      BY DEF CoordinationInv, Typed
    <2>1. TypeOK'
      BY <1>0, <1>3, <2>0 DEF Open, tables, TypeOK, Registered
    <2> QED BY <1>3, <2>1, QuietStep DEF Open, tables
  <1>4. ASSUME NEW p \in Processes, OpenHead(p) PROVE CoordinationInv'
    <2>1. PICK ok : Opens(p, ok, "consistency")
      BY <1>4 DEF OpenHead
    <2>2. TypeOK'
      BY <1>0, <2>1 DEF Opens, tables, TypeOK, Registered
    <2> QED BY <2>1, <2>2, QuietStep DEF Opens, tables
  <1>5. ASSUME NEW p \in Processes, OpenConsistency(p) PROVE CoordinationInv'
    <2>1. PICK ok : Opens(p, ok, "open")
      BY <1>5 DEF OpenConsistency
    <2>2. TypeOK'
      BY <1>0, <2>1 DEF Opens, tables, TypeOK, Registered
    <2> QED BY <2>1, <2>2, QuietStep DEF Opens, tables
  <1>6. ASSUME NEW p \in Processes, Close(p) PROVE CoordinationInv'
    <2>1. TypeOK'
      BY <1>0, <1>6 DEF Close, tables, TypeOK, Registered
    <2> QED BY <1>6, <2>1, QuietStep DEF Close, tables
  <1> QED BY <1>1, <1>2, <1>3, <1>4, <1>5, <1>6, RegisterStep, PlanStep, RequeueStep, TerminalStep DEF Next

LEMMA CoordinationInvariant == Spec => []CoordinationInv
  BY CoordinationInit, CoordinationStep, PTL DEF Spec
------------------------------------------------------------------------------
(* The theorems.                                                           *)

\* Every state of the store has its types: rows, leases of registered missions,
\* plans, and the states of the processes that open it.
THEOREM CoordinationTyped == Spec => []TypeOK
  <1>1. CoordinationInv => TypeOK
    BY DEF CoordinationInv, Typed
  <1> QED BY <1>1, CoordinationInvariant, PTL

\* plan() never lets two running missions write to one branch or to overlapping
\* paths: the scan checks a mission against the leases of all that run and of all
\* that it has picked itself, and the lease table holds exactly these.
THEOREM CoordinationApart == Spec => []NoSharedWrites
  <1>1. CoordinationInv => NoSharedWrites
    BY DEF CoordinationInv
  <1> QED BY <1>1, CoordinationInvariant, PTL

\* record_terminal accepts a report only for the latest dispatch of a mission, and
\* one report per mission: what a replayed plan hands out again is fenced.
THEOREM CoordinationFences == Spec => []LatestDispatchReports
  <1>1. CoordinationInv => LatestDispatchReports
    <2> SUFFICES ASSUME CoordinationInv, NEW d \in accepted, NEW c \in Issued, c.mission = d.mission
                 PROVE  c.generation <= d.generation /\ (c # d => c \notin accepted)
      BY DEF LatestDispatchReports
    <2>1. c.generation <= mission[c.mission].generation
      BY IssuedRow DEF CoordinationInv
    <2>2. mission[d.mission].generation = d.generation /\ mission[d.mission].dispatch = d
      BY DEF CoordinationInv, Ended
    <2>3. c \in accepted => mission[c.mission].dispatch = c
      BY DEF CoordinationInv, Ended
    <2> QED BY <2>1, <2>2, <2>3
  <1> QED BY <1>1, CoordinationInvariant, PTL

\* What the store has committed it can open again: the head counts the events, the
\* events are in the order of time and tell the mission rows when they are replayed,
\* the plans issued the rows' dispatches, and the leases are the running missions'.
THEOREM CoordinationRestarts == Spec => []RestartAccepts
  <1>1. CoordinationInv => RestartAccepts
    <2> SUFFICES ASSUME CoordinationInv PROVE RestartAccepts
      OBVIOUS
    <2> USE DEF CoordinationInv
    <2>1. \A r \in RequestIds : plans[r] # None =>
            \A d \in plans[r].result : d.mission \in Registered /\ d.request = plans[r].request
      BY DEF Planned
    <2>2. _verify_materialized_state_from_events
      BY DEF _verify_materialized_state_from_events, View
    <2>3. \A m \in Registered : mission[m].generation > 0 =>
            mission[m].dispatch \in Issued /\ mission[m].dispatch.generation = mission[m].generation
      BY DEF Planned
    <2>4. ASSUME NEW m \in Registered
          PROVE  LeasesOf(m) = IF m \in Running THEN _claim_leases(mission[m].dispatch, SpecOf(m)) ELSE {}
      <3>1. \A n \in Running : \A l \in _claim_leases(mission[n].dispatch, SpecOf(n)) : l.mission = n
        BY ClaimMission DEF Typed, Running
      <3> QED BY <3>1 DEF LeasesOf, Leased
    <2> QED BY <2>1, <2>2, <2>3, <2>4 DEF RestartAccepts, _verify_consistency
  <1> QED BY <1>1, CoordinationInvariant, PTL

\* register_mission refuses every cycle of dependencies, and so missions never wait
\* for each other: a set of pending missions that all wait for one another would be
\* a cycle of the registered ones.
THEOREM CoordinationProgresses == Spec => []SomeMissionIsReady
  <1>1. CoordinationInv => SomeMissionIsReady
    <2> DEFINE waiting == {m \in Missions : Pending(m)}
    <2> SUFFICES ASSUME CoordinationInv, waiting # {}, Running = {},
                        \A m \in waiting : \A d \in SpecOf(m).dependencies :
                           d \in Registered /\ mission[d].state \notin {"FAILED", "TERMINATED"},
                        \A m \in waiting : ~_dependencies_done(m)
                 PROVE  FALSE
      BY DEF SomeMissionIsReady
    <2>1. waiting \subseteq Registered
      BY DEF Pending
    <2>2. ASSUME NEW m \in waiting PROVE Graph[m] \cap waiting # {}
      <3>1. PICK d \in SpecOf(m).dependencies : ~(mission[d] # None /\ mission[d].state = "DONE")
        BY DEF _dependencies_done
      <3>2. d \in Registered /\ mission[d].state \notin {"FAILED", "TERMINATED"}
        OBVIOUS
      <3>3. d \in Missions /\ mission[d] \in MissionRow /\ mission[d] # None
        BY <3>2, RegisteredRow, RowRecord DEF CoordinationInv, Typed
      <3>4. mission[d].state \in {"STARTING", "WAITING", "RUNNING"} \cup Terminal
        BY <3>3, RowRecord
      <3>5. mission[d].state # "RUNNING"
        BY <3>2 DEF Running
      <3>6. d \in waiting
        BY <3>1, <3>2, <3>3, <3>4, <3>5 DEF Pending, Terminal
      <3>7. Graph[m] = SpecOf(m).dependencies
        BY <2>1 DEF Graph
      <3> QED BY <3>6, <3>7
    <2> HIDE DEF waiting
    <2>3. waiting \in (SUBSET DOMAIN Graph) \ {{}}
      BY <2>1 DEF Graph
    <2>4. _has_cycle(Graph)
      BY <2>2, <2>3 DEF _has_cycle
    <2> QED BY <2>4 DEF CoordinationInv
  <1> QED BY <1>1, CoordinationInvariant, PTL
==============================================================================
