------------------------- MODULE BuilderLaunchProofs -------------------------
(***************************************************************************)
(* BuilderLaunch for any number of workers, admissions, descriptors and    *)
(* processes: TypeOK, StartedOnce, Recoverable and ReceiptIsEvidence hold  *)
(* in every reachable state.                                               *)
(*                                                                         *)
(* None of them is inductive by itself.  The invariant adds what a worker  *)
(* at each step of launch relies on (Evidence), what a process relies on   *)
(* (Processes: two processes never share a request), and that a worker     *)
(* about to prepare a process is the only one with that request            *)
(* (Exclusive): its key left replay_state unable to let in another.        *)
(***************************************************************************)
EXTENDS BuilderLaunch, TLAPS

Issuing == {"a_check", "a_consume", "a_record"}
Containing == {"c_observe", "c_kill"}
WithProcess == {"observe", "hold", "fence", "precommit", "commit", "verify", "receipt", "kill"}
OnceHeld == WithProcess \ {"observe", "hold"}

OnRecord(r) == r \in intents /\ r \in replay /\ r.admission \in issued

Evidence ==
    \A w \in Workers :
        /\ pc[w] \in Issuing => job[w] \in Admissions
        /\ pc[w] \notin Issuing \cup {"idle"} => job[w] \in Requests
        /\ pc[w] \in {"intent", "consume"} => job[w].admission \in issued
        /\ pc[w] = "consume" => job[w] \in intents
        /\ pc[w] = "prepare" => OnRecord(job[w])
        /\ pc[w] \in WithProcess \cup Containing => mine[w] \in Launches
        /\ pc[w] \in WithProcess => made[mine[w]] = job[w]
        /\ pc[w] \in OnceHeld => held[mine[w]] = job[w]
        /\ pc[w] = "receipt" => Opened(mine[w])

Exclusive ==
    \A w \in Workers : pc[w] = "prepare" =>
        /\ \A l \in Launches : made[l] # job[w]
        /\ \A v \in Workers : pc[v] = "prepare" /\ job[v] = job[w] => v = w

Processes ==
    /\ \A l \in Launches :
          /\ proc[l] = "none" => made[l] = None
          /\ made[l] # None => OnRecord(made[l])
          /\ held[l] # None => held[l] = made[l]
          /\ Opened(l) => made[l] # None /\ held[l] = made[l]
    /\ \A l, m \in Launches : made[l] = made[m] /\ made[l] # None => l = m

IInv == TypeOK /\ Evidence /\ Exclusive /\ Processes /\ ReceiptIsEvidence
------------------------------------------------------------------------------
\* The initial states satisfy the invariant: no table has a row and no worker
\* has begun.
LEMMA InitIInv == Init => IInv
  BY LaunchAssumption DEF Init, IInv, TypeOK, Steps, Evidence, Exclusive, Processes, ReceiptIsEvidence,
     Opened, OnRecord, Issuing, Containing, WithProcess, OnceHeld

\* The invariant is enough for the three safety properties.
LEMMA IInvSafe == IInv => TypeOK /\ StartedOnce /\ Recoverable /\ ReceiptIsEvidence
  BY DEF IInv, StartedOnce, Recoverable, Processes, OnRecord

\* Steps that write no table, start no process and open no gate: a worker
\* ends its call, or moves on to a step that relies on nothing new.
LEMMA EndIInv ==
  ASSUME IInv, NEW w \in Workers, End(w),
         UNCHANGED <<sources, tables, gate, made>>,
         proc' \in [Launches -> {"none", "held", "running", "killed"}],
         \A l \in Launches : proc'[l] = "none" => proc[l] = "none"
  PROVE  IInv'
<1>1. TypeOK'
  BY DEF IInv, TypeOK, End, Goto, Steps, sources, tables
<1>2. Evidence' /\ Exclusive'
  BY DEF IInv, TypeOK, Evidence, Exclusive, OnRecord, Opened, End, Goto, tables,
     Issuing, Containing, WithProcess, OnceHeld
<1>3. Processes' /\ ReceiptIsEvidence'
  BY DEF IInv, Processes, ReceiptIsEvidence, OnRecord, Opened, tables
<1> QED BY <1>1, <1>2, <1>3 DEF IInv

\* The same for a worker that goes on to another step of its call, when it has
\* the evidence that step relies on.
LEMMA GotoIInv ==
  ASSUME IInv, NEW w \in Workers, NEW step \in Steps \ {"idle", "prepare"}, Goto(w, step),
         UNCHANGED <<sources, tables, runtime, job, mine>>,
         step \in Issuing => pc[w] \in Issuing,
         step \notin Issuing => pc[w] \notin Issuing \cup {"idle"},
         step \in {"intent", "consume"} => job[w].admission \in issued,
         step = "consume" => job[w] \in intents,
         step \in WithProcess => pc[w] \in WithProcess,
         step \in Containing => pc[w] \in Containing,
         step \in OnceHeld => pc[w] \in OnceHeld,
         step = "receipt" => Opened(mine[w])
  PROVE  IInv'
<1>1. TypeOK'
  BY DEF IInv, TypeOK, Goto, sources, tables, runtime
<1>2. Evidence'
  BY DEF IInv, TypeOK, Evidence, OnRecord, Opened, Goto, tables, runtime, Steps,
     Issuing, Containing, WithProcess, OnceHeld
<1>3. Exclusive'
  BY DEF IInv, TypeOK, Exclusive, Goto, tables, runtime
<1>4. Processes' /\ ReceiptIsEvidence'
  BY DEF IInv, Processes, ReceiptIsEvidence, OnRecord, Opened, tables, runtime
<1> QED BY <1>1, <1>2, <1>3, <1>4 DEF IInv

\* A worker begins a call.
LEMMA BeginIInv ==
  ASSUME IInv, NEW w \in Workers, NEW j, NEW l, NEW step, Begin(w, j, l, step),
         \/ step = "a_check" /\ j \in Admissions /\ l = None
         \/ step = "build" /\ j \in Requests /\ l = None
         \/ step = "c_observe" /\ j \in Requests /\ l \in Launches
  PROVE  IInv'
<1>1. TypeOK'
  BY DEF IInv, TypeOK, Begin, Goto, Steps, sources, tables, runtime
<1>2. Evidence'
  BY DEF IInv, TypeOK, Evidence, OnRecord, Opened, Begin, Goto, tables, runtime, Steps,
     Issuing, Containing, WithProcess, OnceHeld
<1>3. Exclusive'
  BY DEF IInv, TypeOK, Exclusive, Begin, Goto, tables, runtime
<1>4. Processes' /\ ReceiptIsEvidence'
  BY DEF IInv, Processes, ReceiptIsEvidence, OnRecord, Opened, Begin, tables, runtime
<1> QED BY <1>1, <1>2, <1>3, <1>4 DEF IInv

\* The steps of issue_admission, which touch replay_state and the issuances.
LEMMA IssueIInv ==
  ASSUME IInv, NEW w \in Workers,
         AdmissionCurrent(w) \/ AdmissionConsume(w) \/ record_builder_start_admission_issuance(w)
  PROVE  IInv'
<1>1. CASE AdmissionCurrent(w)
  <2>1. CASE End(w)
    BY <1>1, <2>1, EndIInv DEF AdmissionCurrent, runtime, IInv, TypeOK
  <2>2. CASE Goto(w, "a_consume") /\ UNCHANGED <<job, mine>>
    BY <1>1, <2>2, GotoIInv DEF AdmissionCurrent, At, Steps, Issuing, WithProcess, OnceHeld, Containing, IInv, TypeOK
  <2> QED BY <1>1, <2>1, <2>2 DEF AdmissionCurrent, GoOrEnd
<1>2. CASE AdmissionConsume(w)
  <2>1. TypeOK'
    BY <1>2 DEF AdmissionConsume, IInv, TypeOK, GoOrEnd, End, Goto, Steps, sources, runtime
  <2>2. Evidence' /\ Exclusive'
    BY <1>2 DEF AdmissionConsume, IInv, TypeOK, GoOrEnd, End, Goto, At, runtime, Evidence, Exclusive,
       OnRecord, Opened, Issuing, WithProcess, OnceHeld, Containing
  <2>3. Processes' /\ ReceiptIsEvidence'
    BY <1>2 DEF AdmissionConsume, IInv, Processes, ReceiptIsEvidence, OnRecord, Opened, runtime
  <2> QED BY <2>1, <2>2, <2>3 DEF IInv
<1>3. CASE record_builder_start_admission_issuance(w)
  <2>1. TypeOK'
    BY <1>3 DEF record_builder_start_admission_issuance, IInv, TypeOK, Evidence, At, End, Goto, Steps,
       Issuing, sources, runtime
  <2>2. Evidence' /\ Exclusive'
    BY <1>3 DEF record_builder_start_admission_issuance, IInv, TypeOK, End, Goto, At, runtime,
       Evidence, Exclusive, OnRecord, Opened, Issuing, WithProcess, OnceHeld, Containing
  <2>3. Processes' /\ ReceiptIsEvidence'
    BY <1>3 DEF record_builder_start_admission_issuance, IInv, Processes, ReceiptIsEvidence,
       OnRecord, Opened, runtime
  <2> QED BY <2>1, <2>2, <2>3 DEF IInv
<1> QED BY <1>1, <1>2, <1>3

\* record_builder_process_launch_intent and consume: after consume the key is
\* in replay_state, so nobody else can reach prepare_launch with it.
LEMMA ReserveIInv ==
  ASSUME IInv, NEW w \in Workers, record_builder_process_launch_intent(w) \/ consume(w)
  PROVE  IInv'
<1>1. CASE record_builder_process_launch_intent(w)
  <2>1. TypeOK'
    BY <1>1 DEF record_builder_process_launch_intent, IInv, TypeOK, Evidence, At, GoOrEnd, End, Goto,
       Steps, Issuing, sources, runtime
  <2>2. Evidence' /\ Exclusive'
    BY <1>1 DEF record_builder_process_launch_intent, IInv, TypeOK, GoOrEnd, End, Goto, At, runtime,
       Evidence, Exclusive, OnRecord, Opened, Issuing, WithProcess, OnceHeld, Containing
  <2>3. Processes' /\ ReceiptIsEvidence'
    BY <1>1 DEF record_builder_process_launch_intent, IInv, Processes, ReceiptIsEvidence, OnRecord,
       Opened, runtime
  <2> QED BY <2>1, <2>2, <2>3 DEF IInv
<1>2. CASE consume(w)
  <2>1. TypeOK'
    BY <1>2 DEF consume, IInv, TypeOK, GoOrEnd, End, Goto, Steps, sources, runtime
  <2>2. Evidence'
    BY <1>2 DEF consume, IInv, TypeOK, GoOrEnd, End, Goto, At, runtime, Evidence, OnRecord, Opened,
       Issuing, WithProcess, OnceHeld, Containing
  <2>3. Exclusive'
    <3>1. CASE Inserted(job[w], replay)
      <4>1. job[w] \in Requests /\ job[w] # None
        BY <1>2, LaunchAssumption DEF consume, At, IInv, Evidence, Issuing
      <4>2. \A l \in Launches : made[l] # job[w]
        BY <3>1, <4>1 DEF IInv, Processes, OnRecord, Inserted
      <4>3. \A v \in Workers : pc[v] = "prepare" => job[v] # job[w]
        BY <3>1 DEF IInv, Evidence, OnRecord, Inserted
      <4> QED BY <1>2, <3>1, <4>2, <4>3 DEF consume, GoOrEnd, Goto, runtime, IInv, TypeOK, Exclusive
    <3>2. CASE ~Inserted(job[w], replay)
      BY <1>2, <3>2 DEF consume, GoOrEnd, End, Goto, runtime, IInv, TypeOK, Exclusive
    <3> QED BY <3>1, <3>2
  <2>4. Processes' /\ ReceiptIsEvidence'
    BY <1>2 DEF consume, IInv, Processes, ReceiptIsEvidence, OnRecord, Opened, runtime
  <2> QED BY <2>1, <2>2, <2>3, <2>4 DEF IInv
<1> QED BY <1>1, <1>2

\* The checks of launch and of contain_held_after_restart: they only read.
LEMMA CheckIInv ==
  ASSUME IInv, NEW w \in Workers,
         \/ build_request(w) \/ ObserveHeld(w) \/ EffectFence(w) \/ PreCommit(w)
         \/ Verify(w) \/ ContainObserve(w)
  PROVE  IInv'
<1>1. CASE build_request(w)
  <2>1. CASE End(w)
    BY <1>1, <2>1, EndIInv DEF build_request, runtime, IInv, TypeOK
  <2>2. CASE Goto(w, "intent") /\ UNCHANGED <<job, mine>> /\ ~End(w)
    BY <1>1, <2>2, GotoIInv DEF build_request, GoOrEnd, At, Steps, Issuing, WithProcess, OnceHeld,
       Containing, IInv, TypeOK
  <2> QED BY <1>1, <2>1, <2>2 DEF build_request, GoOrEnd
<1>2. CASE ObserveHeld(w)
  <2>1. CASE End(w)
    BY <1>2, <2>1, EndIInv DEF ObserveHeld, runtime, IInv, TypeOK
  <2>2. CASE Goto(w, "hold") /\ UNCHANGED <<job, mine>> /\ ~End(w)
    BY <1>2, <2>2, GotoIInv DEF ObserveHeld, GoOrEnd, At, Steps, Issuing, WithProcess, OnceHeld,
       Containing, IInv, TypeOK
  <2> QED BY <1>2, <2>1, <2>2 DEF ObserveHeld, GoOrEnd
<1>3. CASE EffectFence(w)
  <2>1. CASE End(w)
    BY <1>3, <2>1, EndIInv DEF EffectFence, runtime, IInv, TypeOK
  <2>2. CASE Goto(w, "precommit") /\ UNCHANGED <<job, mine>> /\ ~End(w)
    BY <1>3, <2>2, GotoIInv DEF EffectFence, GoOrEnd, At, Steps, Issuing, WithProcess, OnceHeld,
       Containing, IInv, TypeOK
  <2> QED BY <1>3, <2>1, <2>2 DEF EffectFence, GoOrEnd
<1>4. CASE PreCommit(w)
  <2>1. CASE End(w)
    BY <1>4, <2>1, EndIInv DEF PreCommit, runtime, IInv, TypeOK
  <2>2. CASE Goto(w, "commit") /\ UNCHANGED <<job, mine>> /\ ~End(w)
    BY <1>4, <2>2, GotoIInv DEF PreCommit, GoOrEnd, At, Steps, Issuing, WithProcess, OnceHeld,
       Containing, IInv, TypeOK
  <2> QED BY <1>4, <2>1, <2>2 DEF PreCommit, GoOrEnd
<1>5. CASE ContainObserve(w)
  <2>1. CASE End(w)
    BY <1>5, <2>1, EndIInv DEF ContainObserve, runtime, IInv, TypeOK
  <2>2. CASE Goto(w, "c_kill") /\ UNCHANGED <<job, mine>> /\ ~End(w)
    BY <1>5, <2>2, GotoIInv DEF ContainObserve, GoOrEnd, At, Steps, Issuing, WithProcess, OnceHeld,
       Containing, IInv, TypeOK
  <2> QED BY <1>5, <2>1, <2>2 DEF ContainObserve, GoOrEnd
<1>6. CASE Verify(w)
  <2>1. CASE Goto(w, "receipt") /\ Opened(mine[w])
    BY <1>6, <2>1, GotoIInv DEF Verify, At, Steps, Issuing, WithProcess, OnceHeld, Containing, IInv, TypeOK
  <2>2. CASE Goto(w, "kill")
    BY <1>6, <2>2, GotoIInv DEF Verify, At, Steps, Issuing, WithProcess, OnceHeld, Containing, IInv, TypeOK
  <2> QED BY <1>6, <2>1, <2>2 DEF Verify, Opened
<1> QED BY <1>1, <1>2, <1>3, <1>4, <1>5, <1>6

\* A process is prepared for a request that had none.
LEMMA PrepareIInv ==
  ASSUME IInv, NEW w \in Workers, NEW l \in Launches, prepare_launch(w, l)
  PROVE  IInv'
<1>1. job[w] \in Requests /\ job[w] # None
  BY LaunchAssumption DEF prepare_launch, At, IInv, Evidence, Issuing
<1>2. made[l] = None /\ held[l] = None /\ ~Opened(l)
  BY DEF prepare_launch, IInv, Processes
<1>3. TypeOK'
  BY <1>1 DEF prepare_launch, IInv, TypeOK, Goto, Steps, sources, tables
<1>4. Evidence'
  <2>1. \A v \in Workers : v # w /\ pc[v] \in WithProcess => mine[v] # l
    BY <1>2, LaunchAssumption DEF IInv, Evidence, WithProcess, Issuing
  <2> QED
    BY <1>1, <2>1 DEF prepare_launch, IInv, TypeOK, Goto, At, tables, Evidence, OnRecord, Opened,
       Issuing, WithProcess, OnceHeld, Containing
<1>5. Exclusive'
  <2> SUFFICES ASSUME NEW v \in Workers, pc'[v] = "prepare"
               PROVE  /\ \A m \in Launches : made'[m] # job'[v]
                      /\ \A u \in Workers : pc'[u] = "prepare" /\ job'[u] = job'[v] => u = v
    BY DEF Exclusive
  <2>1. v # w /\ pc[v] = "prepare" /\ job' = job
    BY DEF prepare_launch, Goto, IInv, TypeOK
  <2>2. job[v] # job[w] /\ \A m \in Launches : made[m] # job[v]
    BY <2>1 DEF prepare_launch, At, IInv, Exclusive
  <2>3. \A u \in Workers : pc'[u] = "prepare" => pc[u] = "prepare"
    BY DEF prepare_launch, Goto, IInv, TypeOK
  <2> QED BY <2>1, <2>2, <2>3 DEF prepare_launch, IInv, TypeOK, Exclusive
<1>6. Processes'
  <2>1. OnRecord(job[w]) /\ \A m \in Launches : made[m] # job[w]
    BY DEF prepare_launch, At, IInv, Evidence, Exclusive
  <2> QED
    BY <1>1, <1>2, <2>1 DEF prepare_launch, IInv, TypeOK, Processes, OnRecord, Opened, tables
<1>7. ReceiptIsEvidence'
  BY DEF prepare_launch, IInv, ReceiptIsEvidence, Opened, tables
<1> QED BY <1>3, <1>4, <1>5, <1>6, <1>7 DEF IInv

\* The held record is written for the process the worker prepared.
LEMMA HoldIInv ==
  ASSUME IInv, NEW w \in Workers, record_builder_process_held_materialization(w)
  PROVE  IInv'
<1>1. CASE End(w) /\ UNCHANGED held
  BY <1>1, EndIInv DEF record_builder_process_held_materialization, tables, runtime, IInv, TypeOK
<1>2. CASE /\ held[mine[w]] = None
           /\ held' = [held EXCEPT ![mine[w]] = job[w]]
           /\ Goto(w, "fence") /\ UNCHANGED <<job, mine>>
  <2>1. mine[w] \in Launches /\ job[w] \in Requests /\ made[mine[w]] = job[w] /\ job[w] # None
    BY LaunchAssumption DEF record_builder_process_held_materialization, At, IInv, Evidence, WithProcess, Issuing
  <2>2. ~Opened(mine[w])
    BY <1>2, <2>1 DEF IInv, Processes
  <2>3. TypeOK'
    BY <1>2, <2>1 DEF record_builder_process_held_materialization, IInv, TypeOK, Goto, Steps, sources, runtime
  <2>4. \A m \in Launches : held[m] # None => held'[m] = held[m]
    BY <1>2 DEF IInv, TypeOK
  <2>5. Evidence' /\ Exclusive'
    BY <1>2, <2>1, <2>4, LaunchAssumption
    DEF record_builder_process_held_materialization, IInv, TypeOK, Goto, At, runtime, Evidence, Exclusive,
       OnRecord, Opened, Issuing, WithProcess, OnceHeld, Containing
  <2>6. Processes'
    BY <1>2, <2>1 DEF record_builder_process_held_materialization, IInv, TypeOK, Processes, OnRecord, Opened, runtime
  <2>7. ReceiptIsEvidence'
    BY <1>2, <2>2 DEF record_builder_process_held_materialization, IInv, TypeOK, ReceiptIsEvidence, Opened, runtime
  <2> QED BY <2>3, <2>5, <2>6, <2>7 DEF IInv
<1> QED BY <1>1, <1>2 DEF record_builder_process_held_materialization

\* commit_start opens a gate only for a process that is on record as held.
LEMMA CommitIInv ==
  ASSUME IInv, NEW w \in Workers, commit_start(w) \/ CommitRaises(w)
  PROVE  IInv'
<1>1. mine[w] \in Launches /\ made[mine[w]] = job[w] /\ held[mine[w]] = job[w] /\ job[w] # None
  BY LaunchAssumption DEF commit_start, CommitRaises, At, IInv, Evidence, WithProcess, OnceHeld, Issuing
<1>2. TypeOK'
  BY <1>1 DEF commit_start, CommitRaises, Opens, IInv, TypeOK, End, Goto, Steps, sources, tables, runtime
<1>3. made' = made /\ held' = held /\ \A l \in Launches : Opened(l) => Opened(l)'
  BY DEF commit_start, CommitRaises, Opens, Opened, tables, runtime, IInv, TypeOK
<1>4. Evidence' /\ Exclusive'
  BY <1>1, <1>3 DEF commit_start, CommitRaises, IInv, TypeOK, End, Goto, At, tables, Evidence, Exclusive,
     OnRecord, Issuing, WithProcess, OnceHeld, Containing
<1>5. Processes'
  BY <1>1, <1>3 DEF commit_start, CommitRaises, Opens, Opened, IInv, TypeOK, Processes, OnRecord, tables, runtime
<1>6. ReceiptIsEvidence'
  BY <1>3 DEF commit_start, CommitRaises, IInv, TypeOK, ReceiptIsEvidence, tables
<1> QED BY <1>2, <1>4, <1>5, <1>6 DEF IInv

\* The receipt is written for an opened gate, and once.
LEMMA ReceiptIInv ==
  ASSUME IInv, NEW w \in Workers, record_builder_process_launch_receipt(w)
  PROVE  IInv'
<1>1. CASE Goto(w, "kill") /\ UNCHANGED <<receipts, job, mine>>
  BY <1>1, GotoIInv DEF record_builder_process_launch_receipt, tables, At, Steps, Issuing, WithProcess,
     OnceHeld, Containing, IInv, TypeOK
<1>2. CASE /\ \A q \in receipts : q.request # job[w] /\ q.launch # mine[w]
           /\ receipts' = receipts \cup {[request |-> job[w], launch |-> mine[w]]}
           /\ End(w)
  <2>1. mine[w] \in Launches /\ job[w] \in Requests /\ held[mine[w]] = job[w] /\ Opened(mine[w])
    BY DEF record_builder_process_launch_receipt, At, IInv, Evidence, WithProcess, OnceHeld, Issuing
  <2>2. TypeOK'
    BY <1>2, <2>1 DEF record_builder_process_launch_receipt, IInv, TypeOK, End, Goto, Steps, sources, runtime
  <2>3. Evidence' /\ Exclusive'
    BY <1>2 DEF record_builder_process_launch_receipt, IInv, TypeOK, End, Goto, At, runtime, Evidence,
       Exclusive, OnRecord, Opened, Issuing, WithProcess, OnceHeld, Containing
  <2>4. Processes'
    BY <1>2 DEF record_builder_process_launch_receipt, IInv, Processes, OnRecord, Opened, runtime
  <2>5. ReceiptIsEvidence'
    BY <1>2, <2>1 DEF record_builder_process_launch_receipt, IInv, ReceiptIsEvidence, Opened, runtime
  <2> QED BY <2>2, <2>3, <2>4, <2>5 DEF IInv
<1> QED BY <1>1, <1>2 DEF record_builder_process_launch_receipt

\* Stopping a process changes no evidence.
LEMMA KillIInv ==
  ASSUME IInv, NEW w \in Workers, freeze_or_kill(w) \/ ContainKill(w)
  PROVE  IInv'
<1>1. mine[w] \in Launches
  BY DEF freeze_or_kill, ContainKill, At, IInv, Evidence, WithProcess, Containing
<1> QED
  BY <1>1, EndIInv DEF freeze_or_kill, ContainKill, IInv, TypeOK

\* Every step of the specification keeps the invariant.
LEMMA NextIInv == IInv /\ [Next]_vars => IInv'
<1> SUFFICES ASSUME IInv, [Next]_vars PROVE IInv'
  OBVIOUS
<1>1. CASE UNCHANGED vars
  BY <1>1 DEF vars, IInv, TypeOK, Evidence, Exclusive, Processes, ReceiptIsEvidence, OnRecord, Opened
<1>2. ASSUME NEW c \in BOOLEAN, NEW d \in Descriptors, Drift(c, d) PROVE IInv'
  BY <1>2 DEF Drift, tables, runtime, IInv, TypeOK, Evidence, Exclusive, Processes, ReceiptIsEvidence,
     OnRecord, Opened
<1>3. ASSUME NEW w \in Workers, NEW a \in Admissions, issue_admission(w, a) PROVE IInv'
  BY <1>3, BeginIInv DEF issue_admission
<1>4. ASSUME NEW w \in Workers, NEW r \in Requests, launch(w, r) PROVE IInv'
  BY <1>4, BeginIInv DEF launch
<1>5. ASSUME NEW w \in Workers, NEW l \in Launches, contain_held_after_restart(w, l) PROVE IInv'
  BY <1>5, BeginIInv DEF contain_held_after_restart, IInv, TypeOK
<1>6. ASSUME NEW w \in Workers, Step(w) PROVE IInv'
  BY <1>6, IssueIInv, ReserveIInv, CheckIInv, PrepareIInv, HoldIInv, CommitIInv, ReceiptIInv, KillIInv DEF Step
<1>7. ASSUME NEW w \in Workers, Abort(w) PROVE IInv'
  BY <1>7, EndIInv DEF Abort, runtime, IInv, TypeOK
<1> QED BY <1>1, <1>2, <1>3, <1>4, <1>5, <1>6, <1>7 DEF Next

\* For every number of workers, admissions, provider descriptors and processes: a
\* launch request starts one builder process at most, every started process can
\* be found again after a crash, and a receipt is evidence of a start.
THEOREM LaunchSafety == Spec => [](TypeOK /\ StartedOnce /\ Recoverable /\ ReceiptIsEvidence)
<1>1. Spec => []IInv
  BY InitIInv, NextIInv, PTL DEF Spec
<1> QED BY <1>1, IInvSafe, PTL

\* Every process that was started, or whose gate was opened, is found again by a
\* restarted controller: its intent, replay row and issuance are on record.
THEOREM LaunchRecoverable == Spec => []Recoverable
  BY LaunchSafety, PTL

\* A launch receipt is never written for a process that did not start.
THEOREM LaunchReceipts == Spec => []ReceiptIsEvidence
  BY LaunchSafety, PTL
==============================================================================
