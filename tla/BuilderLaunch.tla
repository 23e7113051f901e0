---------------------------- MODULE BuilderLaunch ----------------------------
(***************************************************************************)
(* The start of a builder process: BuilderStartAdmissionEngine.issue_      *)
(* admission (builder_start_admission.py) and BuilderProcessLaunchBoundary *)
(* (builder_process_launch.py), with the tables of SQLiteAuthorityState-   *)
(* Store they write and the runtime provider they drive.                   *)
(*                                                                         *)
(* launch records an intent, consumes the replay digest of the request,    *)
(* has the runtime prepare a process behind a CLOSED gate, records it as   *)
(* held, checks once more that everything is current, opens the gate with  *)
(* commit_start and records a receipt.  contain_held_after_restart stops a *)
(* recorded process.  Each transaction, observation and runtime call is a  *)
(* step; a call may raise, or its process die, between any two of them.    *)
(***************************************************************************)
EXTENDS Naturals, FiniteSets

CONSTANTS
    Workers,
    Admissions,    \* start admissions that may be issued
    Descriptors,   \* the runtime provider descriptors a trusted source may pin
    Launches,      \* launch_ids the runtime hands out
    MaxDrifts,     \* how often the trusted sources change
    None

(* The replay digest is a hash of the admission and of the provider        *)
(* descriptor, and the request id derives from it: a request stands for it.*)
Requests == [admission : Admissions, descriptor : Descriptors]

ASSUME LaunchAssumption ==
    /\ MaxDrifts \in Nat
    /\ None \notin Requests /\ None \notin Launches /\ None \notin Admissions

VARIABLES
    current,       \* baseline, authority, builder subject and F005 sentinel are all as admitted
    descriptor,    \* what the provider source resolves to
    drifts,
    replay,        \* replay_state, both domains
    issued,        \* builder_start_admission_issuance
    intents,       \* builder_process_launch_intent
    held,          \* builder_process_held_materialization, by launch_id
    receipts,      \* builder_process_launch_receipt
    proc, gate,    \* the runtime's processes and their execution gates
    made,          \* the request each process was prepared for
    pc, job, mine  \* each worker's step, its request or admission, its launch_id

sources == <<current, descriptor, drifts>>
tables == <<replay, issued, intents, held, receipts>>
runtime == <<proc, gate, made>>
vars == <<current, descriptor, drifts, replay, issued, intents, held, receipts,
          proc, gate, made, pc, job, mine>>

Steps == {"idle", "a_check", "a_consume", "a_record",
          "build", "intent", "consume", "prepare", "observe", "hold", "fence", "precommit",
          "commit", "verify", "receipt", "kill", "c_observe", "c_kill"}

TypeOK ==
    /\ current \in BOOLEAN /\ descriptor \in Descriptors /\ drifts \in Nat
    /\ issued \subseteq Admissions
    /\ intents \subseteq Requests
    /\ held \in [Launches -> Requests \cup {None}]
    /\ receipts \subseteq [request : Requests, launch : Launches]
    /\ proc \in [Launches -> {"none", "held", "running", "killed"}]
    /\ gate \in [Launches -> {"CLOSED", "OPENED_ONCE"}]
    /\ made \in [Launches -> Requests \cup {None}]
    /\ pc \in [Workers -> Steps]
    /\ job \in [Workers -> Requests \cup Admissions \cup {None}]
    /\ mine \in [Workers -> Launches \cup {None}]

Init ==
    /\ current = TRUE /\ descriptor \in Descriptors /\ drifts = 0
    /\ replay = {} /\ issued = {} /\ intents = {} /\ receipts = {}
    /\ held = [l \in Launches |-> None]
    /\ proc = [l \in Launches |-> "none"]
    /\ gate = [l \in Launches |-> "CLOSED"]
    /\ made = [l \in Launches |-> None]
    /\ pc = [w \in Workers |-> "idle"]
    /\ job = [w \in Workers |-> None]
    /\ mine = [w \in Workers |-> None]
------------------------------------------------------------------------------
\* A trusted source changes: the baseline moves, authority is revoked or
\* expires, or the provider record is replaced.
Drift(c, d) ==
    /\ drifts < MaxDrifts
    /\ drifts' = drifts + 1
    /\ current' = c /\ descriptor' = d
    /\ UNCHANGED <<tables, runtime, pc, job, mine>>

At(w, step) == pc[w] = step
Goto(w, step) == pc' = [pc EXCEPT ![w] = step]

End(w) ==
    /\ Goto(w, "idle")
    /\ job' = [job EXCEPT ![w] = None]
    /\ mine' = [mine EXCEPT ![w] = None]

GoOrEnd(w, ok, step) == IF ok THEN Goto(w, step) /\ UNCHANGED <<job, mine>> ELSE End(w)

\* The worker's process dies, or a call it makes raises before commit_start or
\* inside contain_held_after_restart: nothing is cleaned up.
Abort(w) ==
    /\ ~At(w, "idle")
    /\ End(w)
    /\ UNCHANGED <<sources, tables, runtime>>

Begin(w, j, l, step) ==
    /\ At(w, "idle")
    /\ job' = [job EXCEPT ![w] = j]
    /\ mine' = [mine EXCEPT ![w] = l]
    /\ Goto(w, step)
    /\ UNCHANGED <<sources, tables, runtime>>

\* What a UNIQUE column or the primary key of replay_state lets in; and the wrong
\* variant that ignores the conflict.
InsertedAlways(k, table) == TRUE
Inserted(k, table) == k \notin table
------------------------------------------------------------------------------
(* issue_admission.                                                        *)

issue_admission(w, a) == Begin(w, a, None, "a_check")

AdmissionCurrent(w) ==
    /\ At(w, "a_check")
    /\ GoOrEnd(w, current, "a_consume")
    /\ UNCHANGED <<sources, tables, runtime>>

AdmissionConsume(w) ==
    /\ At(w, "a_consume")
    /\ GoOrEnd(w, Inserted(job[w], replay), "a_record")
    /\ replay' = replay \cup {job[w]}
    /\ UNCHANGED <<sources, issued, intents, held, receipts, runtime>>

record_builder_start_admission_issuance(w) ==
    /\ At(w, "a_record")
    /\ issued' = issued \cup {job[w]}
    /\ End(w)
    /\ UNCHANGED <<sources, replay, intents, held, receipts, runtime>>
------------------------------------------------------------------------------
(* launch.                                                                 *)

launch(w, r) == Begin(w, r, None, "build")

\* _currentness, as build_request and the effect fence use it.
_currentness(w) == current /\ descriptor = job[w].descriptor

build_request(w) ==
    /\ At(w, "build")
    /\ GoOrEnd(w, job[w].admission \in issued /\ _currentness(w), "intent")
    /\ UNCHANGED <<sources, tables, runtime>>

record_builder_process_launch_intent(w) ==
    /\ At(w, "intent")
    /\ GoOrEnd(w, Inserted(job[w], intents), "consume")
    /\ intents' = intents \cup {job[w]}
    /\ UNCHANGED <<sources, replay, issued, held, receipts, runtime>>

consume(w) ==
    /\ At(w, "consume")
    /\ GoOrEnd(w, Inserted(job[w], replay), "prepare")
    /\ replay' = replay \cup {job[w]}
    /\ UNCHANGED <<sources, issued, intents, held, receipts, runtime>>

\* The runtime prepares a process behind a closed gate.
prepare_launch(w, l) ==
    /\ At(w, "prepare") /\ proc[l] = "none"
    /\ proc' = [proc EXCEPT ![l] = "held"]
    /\ made' = [made EXCEPT ![l] = job[w]]
    /\ mine' = [mine EXCEPT ![w] = l]
    /\ Goto(w, "observe")
    /\ UNCHANGED <<sources, tables, gate, job>>

\* observe_held and observe_gate.
ObserveHeld(w) ==
    /\ At(w, "observe")
    /\ GoOrEnd(w, proc[mine[w]] = "held" /\ gate[mine[w]] = "CLOSED", "hold")
    /\ UNCHANGED <<sources, tables, runtime>>

\* Wrong variant: the record is not written.
HeldNotRecorded(w) ==
    /\ At(w, "hold")
    /\ Goto(w, "fence")
    /\ UNCHANGED <<sources, tables, runtime, job, mine>>

record_builder_process_held_materialization(w) ==
    /\ At(w, "hold")
    /\ IF held[mine[w]] = None
       THEN /\ held' = [held EXCEPT ![mine[w]] = job[w]]
            /\ Goto(w, "fence") /\ UNCHANGED <<job, mine>>
       ELSE End(w) /\ UNCHANGED held
    /\ UNCHANGED <<sources, replay, issued, intents, receipts, runtime>>

\* _commit_after_effect_fence: currentness at a fresh clock reading, ...
EffectFence(w) ==
    /\ At(w, "fence")
    /\ GoOrEnd(w, _currentness(w), "precommit")
    /\ UNCHANGED <<sources, tables, runtime>>

\* ... the gate still closed, ...
PreCommit(w) ==
    /\ At(w, "precommit")
    /\ GoOrEnd(w, gate[mine[w]] = "CLOSED", "commit")
    /\ UNCHANGED <<sources, tables, runtime>>

Opens(w) ==
    /\ proc[mine[w]] = "held"
    /\ proc' = [proc EXCEPT ![mine[w]] = "running"]
    /\ gate' = [gate EXCEPT ![mine[w]] = "OPENED_ONCE"]
    /\ UNCHANGED made

\* ... then commit_start, whose answer may name the held process, another one,
\* or be none at all (an exception, or a value that is no identity).
commit_start(w) ==
    /\ At(w, "commit")
    /\ Opens(w) \/ UNCHANGED runtime
    /\ Goto(w, "verify") \/ Goto(w, "kill")
    /\ UNCHANGED <<sources, tables, job, mine>>
CommitRaises(w) ==
    /\ At(w, "commit")
    /\ Opens(w) \/ UNCHANGED runtime
    /\ End(w)
    /\ UNCHANGED <<sources, tables>>

\* Wrong variant: the gate is not looked at.
VerifyWithoutGate(w) ==
    /\ At(w, "verify")
    /\ Goto(w, "receipt") \/ Goto(w, "kill")
    /\ UNCHANGED <<sources, tables, runtime, job, mine>>

\* observe_launch and observe_gate; either may fail.
Verify(w) ==
    /\ At(w, "verify")
    /\ \/ proc[mine[w]] = "running" /\ gate[mine[w]] = "OPENED_ONCE" /\ Goto(w, "receipt")
       \/ Goto(w, "kill")
    /\ UNCHANGED <<sources, tables, runtime, job, mine>>

record_builder_process_launch_receipt(w) ==
    /\ At(w, "receipt")
    /\ \/ /\ \A q \in receipts : q.request # job[w] /\ q.launch # mine[w]
          /\ receipts' = receipts \cup {[request |-> job[w], launch |-> mine[w]]}
          /\ End(w)
       \/ Goto(w, "kill") /\ UNCHANGED <<receipts, job, mine>>
    /\ UNCHANGED <<sources, replay, issued, intents, held, runtime>>

\* freeze_or_kill, which may fail; launch raises either way.
freeze_or_kill(w) ==
    /\ At(w, "kill")
    /\ proc' = [proc EXCEPT ![mine[w]] = "killed"] \/ UNCHANGED proc
    /\ End(w)
    /\ UNCHANGED <<sources, tables, gate, made>>
------------------------------------------------------------------------------
(* contain_held_after_restart: finds the process by its held record and    *)
(* stops it whatever it observes.                                          *)

contain_held_after_restart(w, l) == held[l] # None /\ Begin(w, held[l], l, "c_observe")

ContainObserve(w) ==
    /\ At(w, "c_observe")
    /\ GoOrEnd(w, descriptor = job[w].descriptor, "c_kill")
    /\ UNCHANGED <<sources, tables, runtime>>

ContainKill(w) ==
    /\ At(w, "c_kill")
    /\ proc' = [proc EXCEPT ![mine[w]] = "killed"]
    /\ End(w)
    /\ UNCHANGED <<sources, tables, gate, made>>
------------------------------------------------------------------------------
Step(w) ==
    \/ AdmissionCurrent(w) \/ AdmissionConsume(w) \/ record_builder_start_admission_issuance(w)
    \/ build_request(w) \/ record_builder_process_launch_intent(w) \/ consume(w)
    \/ \E l \in Launches : prepare_launch(w, l)
    \/ ObserveHeld(w) \/ record_builder_process_held_materialization(w)
    \/ EffectFence(w) \/ PreCommit(w) \/ commit_start(w) \/ CommitRaises(w) \/ Verify(w)
    \/ record_builder_process_launch_receipt(w) \/ freeze_or_kill(w)
    \/ ContainObserve(w) \/ ContainKill(w)

Next ==
    \/ \E c \in BOOLEAN, d \in Descriptors : Drift(c, d)
    \/ \E w \in Workers :
        \/ \E a \in Admissions : issue_admission(w, a)
        \/ \E r \in Requests : launch(w, r)
        \/ \E l \in Launches : contain_held_after_restart(w, l)
        \/ Step(w)
        \/ Abort(w)

Spec == Init /\ [][Next]_vars
------------------------------------------------------------------------------
(* Properties.                                                             *)

Opened(l) == gate[l] = "OPENED_ONCE"

\* A launch request starts one builder process at most, however often, and from
\* however many processes, launch is called with it.
StartedOnce ==
    \A l, m \in Launches : Opened(l) /\ Opened(m) /\ made[l] = made[m] => l = m

\* A process whose gate was ever opened is on record for the request it was
\* prepared for, down to its issued admission: after a crash at any step
\* contain_held_after_restart can still find it.
Recoverable ==
    \A l \in Launches : Opened(l) =>
        /\ made[l] # None /\ held[l] = made[l]
        /\ made[l] \in intents /\ made[l] \in replay
        /\ made[l].admission \in issued

\* A receipt is evidence: its process was started, for its request, and no other
\* receipt exists for either, although commit_start may answer wrongly.
ReceiptIsEvidence ==
    \A q \in receipts :
        /\ Opened(q.launch) /\ held[q.launch] = q.request
        /\ \A p \in receipts : p.request = q.request \/ p.launch = q.launch => p = q

==============================================================================
