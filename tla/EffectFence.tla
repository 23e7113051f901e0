------------------------------ MODULE EffectFence ------------------------------
(***************************************************************************)
(* The durable effect fence that every mediator of the control plane keeps *)
(* in a table of its own: repository_delete_fence.py, and the fences of    *)
(* workflow_dispatch_mediation.py, actions_run_cancel_mediation.py,        *)
(* moon_file_write_mediation.py and issue_comment_write_mediation.py,      *)
(* which repeat its five transactions.  A mediator runs in a worker (one   *)
(* process or one call); a row is written only by the worker whose prepare *)
(* inserted it, and by late reconciliation.                                *)
(*                                                                         *)
(* A key is a record; which keys share a unique column depends on the      *)
(* fence and is a parameter of Prepare.                                    *)
(***************************************************************************)
EXTENDS Naturals

CONSTANTS Workers, Keys, None

VARIABLES
    fence,     \* the effect table: by key, a row or None
    pc, job,   \* each worker's place and the key it works on
    calls      \* how many provider calls each effect made

States == {"PREPARED", "ATTEMPTED", "OBSERVED", "RECONCILED", "UNKNOWN"}
Undecided == {"PREPARED", "ATTEMPTED", "OBSERVED"}

\* attempted stands for attempted_at, which no later update clears.
Row == [state : States, attempted : BOOLEAN]

FenceInit ==
    /\ fence = [k \in Keys |-> None]
    /\ pc = [w \in Workers |-> "idle"]
    /\ job = [w \in Workers |-> None]
    /\ calls = [k \in Keys |-> 0]

FenceType ==
    /\ fence \in [Keys -> Row \cup {None}]
    /\ job \in [Workers -> Keys \cup {None}]

At(w, place) == pc[w] = place
Goto(w, place) == pc' = [pc EXCEPT ![w] = place]
Finish(w) == Goto(w, "idle") /\ job' = [job EXCEPT ![w] = None]
Leave(w, place) == IF place = "idle" THEN Finish(w) ELSE Goto(w, place) /\ UNCHANGED job

\* An exception inside the mediator's try block.
Raise(w) == Goto(w, "failed") /\ UNCHANGED <<fence, job>>
GoOrRaise(w, ok, place) ==
    Goto(w, IF ok THEN place ELSE "failed") /\ UNCHANGED <<fence, job>>

\* An INSERT that a unique column may refuse; the refusal is raised before the
\* try block, so it marks nothing.
Prepare(w, taken, place, refused) ==
    IF taken
    THEN Leave(w, refused) /\ UNCHANGED fence
    ELSE /\ fence' = [fence EXCEPT ![job[w]] = [state |-> "PREPARED", attempted |-> FALSE]]
         /\ Goto(w, place) /\ UNCHANGED job

\* UPDATE ... WHERE effect_key = ? AND state = from.
Mark(w, from, to, place) ==
    IF fence[job[w]].state = from
    THEN /\ fence' = [fence EXCEPT ![job[w]].state = to]
         /\ Goto(w, place) /\ UNCHANGED job
    ELSE Raise(w)

\* The write-ahead record of the provider call.
MarkAttempted(w, place) ==
    IF fence[job[w]].state = "PREPARED" /\ ~fence[job[w]].attempted
    THEN /\ fence' = [fence EXCEPT ![job[w]] = [state |-> "ATTEMPTED", attempted |-> TRUE]]
         /\ Goto(w, place) /\ UNCHANGED job
    ELSE Raise(w)

MarkObserved(w, place) == Mark(w, "ATTEMPTED", "OBSERVED", place)

MarkReconciled(w, place) ==
    IF fence[job[w]].state = "OBSERVED"
    THEN fence' = [fence EXCEPT ![job[w]].state = "RECONCILED"] /\ Leave(w, place)
    ELSE Raise(w)

\* Count the provider call that a step makes.
Calls(w) == calls' = [calls EXCEPT ![job[w]] = @ + 1]

\* What the except clause does before it re-raises.
MarkUnknown(w, place) ==
    /\ fence' = IF fence[job[w]].state \in Undecided
                THEN [fence EXCEPT ![job[w]].state = "UNKNOWN"] ELSE fence
    /\ Leave(w, place)
-------------------------------------------------------------------------------
(* What the fence looks like to EffectOnce.                                *)

\* The bindings that a fence may hold unique.
SameKey(j, k) == j = k
SameRequest(j, k) == j.request = k.request

\* The abstract phase of a row.
PhaseOf(row) ==
    CASE row = None -> "none"
      [] row # None /\ row.state = "PREPARED" -> "prepared"
      [] row # None /\ row.state \in {"ATTEMPTED", "OBSERVED"} -> "attempted"
      [] row # None /\ row.state = "RECONCILED" -> "confirmed"
      [] row # None /\ row.state = "UNKNOWN" -> IF row.attempted THEN "unknown" ELSE "abandoned"

Phase == [k \in Keys |-> PhaseOf(fence[k])]
===============================================================================
